------------------------------- MODULE ClookProofs ------------------------------
(***************************************************************************)
(* For any disks, any number of waiting requests, any sectors and any      *)
(* width of int: a C-LOOK queue is type correct and drained before exit;   *)
(* and as long as none of three things has happened since it was empty, it *)
(* is sorted by distance ahead of the moving head and no dispatch passes   *)
(* over a waiting request.                                                 *)
(***************************************************************************)
EXTENDS Clook, SequenceTheorems, TLAPS

-------------------------------------------------------------------------------
\* The entries of a list after an insertion and after a removal.

\* InsertAt moves the entries from i on up by one.
LEMMA InsertAtEntries ==
  ASSUME NEW S, NEW s \in Seq(S), NEW e \in S, NEW i \in 1 .. Len(s) + 1
  PROVE  /\ InsertAt(s, i, e) \in Seq(S)
         /\ Len(InsertAt(s, i, e)) = Len(s) + 1
         /\ \A j \in 1 .. Len(s) + 1 :
              InsertAt(s, i, e)[j] = IF j < i THEN s[j]
                                     ELSE IF j = i THEN e ELSE s[j - 1]
  <1> DEFINE a == SubSeq(s, 1, i - 1)
             b == SubSeq(s, i, Len(s))
  <1>1. /\ a \in Seq(S) /\ Len(a) = i - 1
        /\ \A j \in 1 .. i - 1 : a[j] = s[j]
    BY SubSeqProperties, ElementOfSeq
  <1>2. /\ b \in Seq(S) /\ Len(b) = Len(s) - i + 1
        /\ \A j \in 1 .. Len(s) - i + 1 : b[j] = s[i + j - 1]
    BY SubSeqProperties, ElementOfSeq
  <1>3. /\ a \o <<e>> \in Seq(S) /\ Len(a \o <<e>>) = i
        /\ \A j \in 1 .. i : (a \o <<e>>)[j] = IF j < i THEN s[j] ELSE e
    <2> HIDE DEF a
    <2>1. <<e>> \in Seq(S) /\ Len(<<e>>) = 1 /\ <<e>>[1] = e
      OBVIOUS
    <2> QED  BY <1>1, <2>1, ConcatProperties
  <1> HIDE DEF a, b
  <1>4. /\ (a \o <<e>>) \o b \in Seq(S)
        /\ Len((a \o <<e>>) \o b) = Len(s) + 1
        /\ \A j \in 1 .. Len(s) + 1 :
             ((a \o <<e>>) \o b)[j] = IF j < i THEN s[j]
                                      ELSE IF j = i THEN e ELSE s[j - 1]
    <2> DEFINE c == a \o <<e>>
    <2> HIDE DEF c
    <2>1. c \in Seq(S) /\ Len(c) = i /\ \A j \in 1 .. i : c[j] = IF j < i THEN s[j] ELSE e
      BY <1>3 DEF c
    <2>2. /\ c \o b \in Seq(S)
          /\ Len(c \o b) = Len(c) + Len(b)
          /\ \A j \in 1 .. Len(c) + Len(b) :
               (c \o b)[j] = IF j <= Len(c) THEN c[j] ELSE b[j - Len(c)]
      BY <1>2, <2>1, ConcatProperties
    <2>3. Len(s) \in Nat  OBVIOUS
    <2>4. ASSUME NEW j \in 1 .. Len(s) + 1, ~ (j <= i)
          PROVE  b[j - i] = s[j - 1]
      <3>1. j - i \in 1 .. Len(s) - i + 1 /\ i + (j - i) - 1 = j - 1
        BY <2>3, <2>4
      <3> QED  BY <1>2, <3>1
    <2>5. /\ c \o b \in Seq(S)
          /\ Len(c \o b) = Len(s) + 1
      BY <1>2, <2>1, <2>2, <2>3
    <2>6. ASSUME NEW j \in 1 .. Len(s) + 1
          PROVE  (c \o b)[j] = IF j < i THEN s[j]
                               ELSE IF j = i THEN e ELSE s[j - 1]
      <3>1. (c \o b)[j] = IF j <= i THEN c[j] ELSE b[j - i]
        BY <1>2, <2>1, <2>2, <2>3
      <3> QED  BY <2>1, <2>3, <2>4, <3>1
    <2> QED  BY <2>5, <2>6 DEF c
  <1> QED  BY <1>4 DEF InsertAt, a, b

\* RemoveAt moves the entries behind i down by one.
LEMMA RemoveAtEntries ==
  ASSUME NEW S, NEW s \in Seq(S), NEW i \in 1 .. Len(s)
  PROVE  /\ RemoveAt(s, i) \in Seq(S)
         /\ Len(RemoveAt(s, i)) = Len(s) - 1
         /\ \A j \in 1 .. Len(s) - 1 :
              RemoveAt(s, i)[j] = IF j < i THEN s[j] ELSE s[j + 1]
  <1> DEFINE a == SubSeq(s, 1, i - 1)
             b == SubSeq(s, i + 1, Len(s))
  <1>1. /\ a \in Seq(S) /\ Len(a) = i - 1
        /\ \A j \in 1 .. i - 1 : a[j] = s[j]
    BY SubSeqProperties, ElementOfSeq
  <1>2. /\ b \in Seq(S) /\ Len(b) = Len(s) - i
        /\ \A j \in 1 .. Len(s) - i : b[j] = s[i + j]
    BY SubSeqProperties, ElementOfSeq
  <1> HIDE DEF a, b
  <1>3. /\ a \o b \in Seq(S)
        /\ Len(a \o b) = Len(a) + Len(b)
        /\ \A j \in 1 .. Len(a) + Len(b) :
             (a \o b)[j] = IF j <= Len(a) THEN a[j] ELSE b[j - Len(a)]
    BY <1>1, <1>2, ConcatProperties
  <1>4. Len(s) \in Nat  OBVIOUS
  <1>5. ASSUME NEW j \in 1 .. Len(s) - 1, ~ (j < i)
        PROVE  b[j - (i - 1)] = s[j + 1]
    <2>1. j - (i - 1) \in 1 .. Len(s) - i /\ i + (j - (i - 1)) = j + 1
      BY <1>4, <1>5
    <2> QED  BY <1>2, <2>1
  <1>6. a \o b \in Seq(S) /\ Len(a \o b) = Len(s) - 1
    BY <1>1, <1>2, <1>3, <1>4
  <1>7. ASSUME NEW j \in 1 .. Len(s) - 1
        PROVE  (a \o b)[j] = IF j < i THEN s[j] ELSE s[j + 1]
    <2>1. (a \o b)[j] = IF j <= i - 1 THEN a[j] ELSE b[j - (i - 1)]
      BY <1>1, <1>2, <1>3, <1>4
    <2> QED  BY <1>1, <1>4, <1>5, <2>1
  <1> QED  BY <1>6, <1>7 DEF RemoveAt, a, b

\* Taking the first entry off is Tail.
LEMMA RemoveFirstEntries ==
  ASSUME NEW S, NEW s \in Seq(S), s # <<>>
  PROVE  /\ RemoveAt(s, 1) \in Seq(S)
         /\ Len(RemoveAt(s, 1)) = Len(s) - 1
         /\ \A j \in 1 .. Len(s) - 1 : RemoveAt(s, 1)[j] = s[j + 1]
  <1>1. Len(s) \in Nat \ {0}
    BY EmptySeq
  <1>2. 1 \in 1 .. Len(s)
    BY <1>1
  <1>3. \A j \in 1 .. Len(s) - 1 : ~ (j < 1)
    BY <1>1
  <1> QED  BY <1>2, <1>3, RemoveAtEntries

-------------------------------------------------------------------------------
\* Type correctness, for any number of queues, with merging or without.

\* An int holds what a conversion to int makes of a sector.
LEMMA ToIntRange ==
  ASSUME NEW s \in Nat
  PROVE  ToInt(s) \in - (IntSpan \div 2) .. (IntSpan \div 2) - 1
  BY SectorNumbers DEF ToInt

\* The conversion is the identity for sectors an int can hold.
LEMMA ToIntSmall ==
  ASSUME NEW s \in Nat, s < IntSpan \div 2
  PROVE  ToInt(s) = s
  BY SectorNumbers DEF ToInt

\* Taking the i-th request off a list keeps the types.
LEMMA HandOverType ==
  ASSUME TypeOK, NEW q \in Queues, NEW i \in 1 .. Len(queue[q]), HandOver(q, i)
  PROVE  /\ queue' \in [Queues -> Seq(Sectors)]
         /\ served' \in [Queues -> Sectors \cup {SectorSpan - 1}]
         /\ queue[q][i] \in Sectors
  <1>1. queue[q] \in Seq(Sectors)
    BY DEF TypeOK
  <1>2. RemoveAt(queue[q], i) \in Seq(Sectors) /\ queue[q][i] \in Sectors
    BY <1>1, RemoveAtEntries, ElementOfSeq
  <1> QED  BY <1>2 DEF HandOver, TypeOK

\* Whether a queue has gone astray.
LEMMA StraysType ==
  ASSUME NEW q \in Queues, NEW happens
  PROVE  Strays(q, happens) \in BOOLEAN
  BY DEF Strays

\* Every callback keeps the types.
LEMMA NextType ==
  ASSUME TypeOK, [Next]_vars
  PROVE  TypeOK'
  <1>1. ASSUME NEW q \in Queues, NEW rq \in Sectors, sstf_add_request(q, rq)
        PROVE  TypeOK'
    <2>1. queue[q] \in Seq(Sectors)
      BY DEF TypeOK
    <2>2. PICK i \in 1 .. Len(queue[q]) + 1 :
                 queue' = [queue EXCEPT ![q] = InsertAt(@, i, rq)]
      BY <1>1 DEF sstf_add_request, Insert
    <2>3. InsertAt(queue[q], i, rq) \in Seq(Sectors)
      BY <2>1, InsertAtEntries
    <2>4. astray' \in [Queues -> BOOLEAN]
      BY <1>1, StraysType DEF TypeOK, sstf_add_request
    <2> QED  BY <1>1, <2>2, <2>3, <2>4 DEF TypeOK, sstf_add_request
  <1>2. ASSUME NEW q \in Queues, sstf_dispatch(q)
        PROVE  TypeOK'
    <2>1. 1 \in 1 .. Len(queue[q])
      BY <1>2, EmptySeq DEF TypeOK, sstf_dispatch
    <2>2. queue[q][1] \in Nat
      BY <1>2, <2>1, HandOverType, SectorNumbers DEF sstf_dispatch
    <2>3. astray' \in [Queues -> BOOLEAN]
      BY <1>2, StraysType DEF sstf_dispatch
    <2> QED
      BY <1>2, <2>1, <2>2, <2>3, HandOverType, ToIntRange DEF TypeOK, sstf_dispatch
  <1>3. ASSUME NEW q \in Queues, NEW i \in 1 .. Len(queue[q]),
               sstf_merged_requests(q, i)
        PROVE  TypeOK'
    BY <1>3, HandOverType DEF TypeOK, sstf_merged_requests
  <1>4. ASSUME NEW q \in Queues, sstf_init_queue(q)
        PROVE  TypeOK'
    BY <1>4, EmptySeq DEF TypeOK, sstf_init_queue
  <1>5. ASSUME NEW q \in Queues, InitQueueFails(q)
        PROVE  TypeOK'
    BY <1>5 DEF TypeOK, InitQueueFails, vars
  <1>6. ASSUME NEW q \in Queues, DrainBegins(q)
        PROVE  TypeOK'
    BY <1>6 DEF TypeOK, DrainBegins
  <1>7. ASSUME NEW q \in Queues, DrainEnds(q)
        PROVE  TypeOK'
    BY <1>7 DEF TypeOK, DrainEnds
  <1>8. ASSUME NEW q \in Queues, sstf_exit_queue(q)
        PROVE  TypeOK'
    BY <1>8 DEF TypeOK, sstf_exit_queue
  <1>9. CASE UNCHANGED vars
    BY <1>9 DEF TypeOK, vars
  <1> QED
    BY <1>1, <1>2, <1>3, <1>4, <1>5, <1>6, <1>7, <1>8, <1>9 DEF Next

\* Initially the types are right: -1 is an int.
LEMMA InitType == Init => TypeOK
  <1>1. -1 \in - (IntSpan \div 2) .. (IntSpan \div 2) - 1
    BY SectorNumbers
  <1> QED  BY <1>1, EmptySeq DEF Init, TypeOK

\* Type correctness.
THEOREM TypeCorrect == Spec => []TypeOK
  BY InitType, NextType, PTL DEF Spec

-------------------------------------------------------------------------------
\* The BUG_ON of sstf_exit_queue.

Drained ==
  /\ \A q \in Queues : elevator[q] = "drained" => queue[q] = <<>>
  /\ ~ bug

\* The drain ends only when sstf_dispatch finds no request, and nothing is
\* added after it began, so the list is empty at exit.
THEOREM NoBugHolds == Spec => []NoBug
  <1>1. Init => Drained
    BY DEF Init, Drained
  <1>2. TypeOK /\ Drained /\ [Next]_vars => Drained'
    <2> SUFFICES ASSUME TypeOK, Drained, [Next]_vars
                 PROVE  Drained'
      OBVIOUS
    <2> USE DEF TypeOK, Drained
    <2>1. ASSUME NEW q \in Queues, NEW rq \in Sectors, sstf_add_request(q, rq)
          PROVE  Drained'
      BY <2>1 DEF sstf_add_request, Insert
    <2>2. ASSUME NEW q \in Queues, sstf_dispatch(q)
          PROVE  Drained'
      BY <2>2 DEF sstf_dispatch, HandOver
    <2>3. ASSUME NEW q \in Queues, NEW i \in 1 .. Len(queue[q]),
                 sstf_merged_requests(q, i)
          PROVE  Drained'
      BY <2>3 DEF sstf_merged_requests, HandOver
    <2>4. ASSUME NEW q \in Queues, sstf_init_queue(q)
          PROVE  Drained'
      BY <2>4 DEF sstf_init_queue
    <2>5. ASSUME NEW q \in Queues, InitQueueFails(q)
          PROVE  Drained'
      BY <2>5 DEF InitQueueFails, vars
    <2>6. ASSUME NEW q \in Queues, DrainBegins(q)
          PROVE  Drained'
      BY <2>6 DEF DrainBegins
    <2>7. ASSUME NEW q \in Queues, DrainEnds(q)
          PROVE  Drained'
      BY <2>7 DEF DrainEnds, DispatchReturnsZero
    <2>8. ASSUME NEW q \in Queues, sstf_exit_queue(q)
          PROVE  Drained'
      BY <2>8 DEF sstf_exit_queue
    <2>9. CASE UNCHANGED vars
      BY <2>9 DEF vars
    <2> QED
      BY <2>1, <2>2, <2>3, <2>4, <2>5, <2>6, <2>7, <2>8, <2>9 DEF Next
  <1>3. Drained => NoBug
    BY DEF Drained, NoBug
  <1> QED  BY <1>1, <1>2, <1>3, TypeCorrect, PTL DEF Spec

-------------------------------------------------------------------------------
\* The order of the queue.

Heads == 0 .. SectorSpan - 1

\* The list s is sorted by distance ahead of h.
Sorted(h, s) ==
  \A i, j \in 1 .. Len(s) : i < j => Ahead(h, s[i]) <= Ahead(h, s[j])

\* The walk passes what the head reaches before rq, or with it, and stops at
\* what it reaches after rq: this needs rq # head, or that there is nothing else.
LEMMA WalkRight ==
  ASSUME NEW rq \in Sectors, NEW c \in Sectors, head \in Heads, rq # head \/ c = head
  PROVE  /\ ~ StopsAt(rq, c) => Ahead(head, c) <= Ahead(head, rq)
         /\ StopsAt(rq, c) => Ahead(head, rq) <= Ahead(head, c)
  <1> DEFINE h == head
  <1>1. h \in Heads /\ (rq # h \/ c = h) /\ rq \in 0 .. SectorSpan - 2 /\ c \in 0 .. SectorSpan - 2
    BY SectorNumbers
  <1>2. StopsAt(rq, c) <=> IF rq > h THEN c < h \/ rq < c ELSE c < h /\ rq < c
    BY DEF StopsAt
  <1> HIDE DEF h
  <1>3. /\ ~ StopsAt(rq, c) => Ahead(h, c) <= Ahead(h, rq)
        /\ StopsAt(rq, c) => Ahead(h, rq) <= Ahead(h, c)
    BY <1>1, <1>2, SectorNumbers DEF Ahead, Heads
  <1> QED  BY <1>3 DEF h

\* Distances are natural numbers.
LEMMA AheadNat ==
  ASSUME NEW h \in Heads, NEW s \in Sectors
  PROVE  Ahead(h, s) \in Nat
  BY SectorNumbers DEF Ahead, Heads

\* When the head has moved to the nearest request, the others are nearer by
\* the same distance.
LEMMA AheadMoved ==
  ASSUME NEW h \in Heads, NEW n \in Sectors, NEW s \in Sectors,
         Ahead(h, n) <= Ahead(h, s)
  PROVE  Ahead(n, s) = Ahead(h, s) - Ahead(h, n)
  BY SectorNumbers DEF Ahead, Heads

\* Inserting where the walk stops keeps the list sorted.
LEMMA InsertSorted ==
  ASSUME NEW s \in Seq(Sectors), NEW rq \in Sectors, NEW i \in 1 .. Len(s) + 1,
         head \in Heads, Sorted(head, s),
         \A j \in 1 .. Len(s) : rq # head \/ s[j] = head,
         \A j \in 1 .. i - 1 : ~ StopsAt(rq, s[j]),
         i <= Len(s) => StopsAt(rq, s[i])
  PROVE  Sorted(head, InsertAt(s, i, rq))
  <1> DEFINE t == InsertAt(s, i, rq)
             D(x) == Ahead(head, x)
  <1> HIDE DEF D
  <1>1. /\ Len(t) = Len(s) + 1
        /\ \A j \in 1 .. Len(s) + 1 :
             t[j] = IF j < i THEN s[j] ELSE IF j = i THEN rq ELSE s[j - 1]
    BY ONLY InsertAtEntries, s \in Seq(Sectors), rq \in Sectors, i \in 1 .. Len(s) + 1
  <1> USE DEF D
  <1>2. Len(s) \in Nat /\ \A j \in 1 .. Len(s) : s[j] \in Sectors
    BY ElementOfSeq
  <1>3. D(rq) \in Nat /\ \A j \in 1 .. Len(s) : D(s[j]) \in Nat
    BY <1>2, AheadNat
  <1>4. \A j \in 1 .. Len(s) : j < i => D(s[j]) <= D(rq)
    BY <1>2, WalkRight
  <1>5. \A j \in 1 .. Len(s) : j >= i => D(rq) <= D(s[j])
    <2> SUFFICES ASSUME NEW j \in 1 .. Len(s), j >= i
                 PROVE  D(rq) <= D(s[j])
      OBVIOUS
    <2>1. i \in 1 .. Len(s) /\ D(rq) <= D(s[i])
      BY <1>2, WalkRight
    <2>2. D(s[i]) <= D(s[j])
      <3>1. CASE i = j  BY <3>1, <1>3
      <3>2. CASE i < j  BY <3>2, <2>1 DEF Sorted
      <3> QED  BY <3>1, <3>2, <1>2
    <2> QED  BY <2>1, <2>2, <1>3
  <1>6. \A j, k \in 1 .. Len(s) : j < k => D(s[j]) <= D(s[k])
    BY DEF Sorted
  <1> HIDE DEF t, D
  <1>7. ASSUME NEW j \in 1 .. Len(s) + 1, NEW k \in 1 .. Len(s) + 1, j < k
        PROVE  D(t[j]) <= D(t[k])
    <2>1. CASE k < i
      BY <2>1, <1>1, <1>2, <1>6, <1>7
    <2>2. CASE k = i
      BY <2>2, <1>1, <1>2, <1>4, <1>7
    <2>3. CASE k > i /\ j < i
      <3>1. k - 1 \in 1 .. Len(s) /\ t[k] = s[k - 1] /\ t[j] = s[j] /\ j \in 1 .. Len(s)
        BY <2>3, <1>1, <1>2
      <3> QED  BY <2>3, <3>1, <1>2, <1>6
    <2>4. CASE k > i /\ j = i
      <3>1. k - 1 \in 1 .. Len(s) /\ k - 1 >= i /\ t[k] = s[k - 1] /\ t[j] = rq
        BY <2>4, <1>1, <1>2
      <3> QED  BY <3>1, <1>5
    <2>5. CASE k > i /\ j > i
      <3>1. /\ k - 1 \in 1 .. Len(s) /\ t[k] = s[k - 1]
            /\ j - 1 \in 1 .. Len(s) /\ t[j] = s[j - 1]
            /\ j - 1 < k - 1
        BY <2>5, <1>1, <1>2, <1>7
      <3> QED  BY <3>1, <1>6
    <2> QED  BY <2>1, <2>2, <2>3, <2>4, <2>5, <1>2
  <1> QED  BY <1>1, <1>7 DEF Sorted, D, t

\* Taking the first request moves the head to it and keeps the list sorted.
LEMMA RemoveSorted ==
  ASSUME NEW s \in Seq(Sectors), s # <<>>, NEW h \in Heads, Sorted(h, s)
  PROVE  Sorted(s[1], RemoveAt(s, 1))
  <1> DEFINE t == RemoveAt(s, 1)
  <1>1. Len(s) \in Nat \ {0} /\ \A j \in 1 .. Len(s) : s[j] \in Sectors
    BY ElementOfSeq, EmptySeq
  <1>2. /\ Len(t) = Len(s) - 1
        /\ \A j \in 1 .. Len(s) - 1 : t[j] = s[j + 1]
    BY RemoveFirstEntries
  <1>3. ASSUME NEW j \in 2 .. Len(s)
        PROVE  /\ Ahead(s[1], s[j]) = Ahead(h, s[j]) - Ahead(h, s[1])
               /\ Ahead(h, s[j]) \in Nat /\ Ahead(h, s[1]) \in Nat
    <2>1. 1 \in 1 .. Len(s) /\ j \in 1 .. Len(s) /\ 1 < j
      BY <1>1
    <2>2. Ahead(h, s[1]) <= Ahead(h, s[j])
      BY <2>1 DEF Sorted
    <2> QED  BY <2>1, <2>2, <1>1, AheadMoved, AheadNat
  <1> HIDE DEF t
  <1>4. ASSUME NEW j \in 1 .. Len(t), NEW k \in 1 .. Len(t), j < k
        PROVE  Ahead(s[1], t[j]) <= Ahead(s[1], t[k])
    <2>1. /\ j + 1 \in 2 .. Len(s) /\ k + 1 \in 2 .. Len(s) /\ j + 1 < k + 1
          /\ t[j] = s[j + 1] /\ t[k] = s[k + 1]
      BY <1>1, <1>2, <1>4
    <2>2. j + 1 \in 1 .. Len(s) /\ k + 1 \in 1 .. Len(s)
      BY <2>1, <1>1
    <2>3. Ahead(h, s[j + 1]) <= Ahead(h, s[k + 1])
      BY <2>1, <2>2 DEF Sorted
    <2> QED  BY <2>1, <2>3, <1>3
  <1> QED  BY <1>4 DEF Sorted, t

\* Taking any request away keeps the list sorted.
LEMMA MergeSorted ==
  ASSUME NEW s \in Seq(Sectors), NEW h \in Heads, NEW i \in 1 .. Len(s), Sorted(h, s)
  PROVE  Sorted(h, RemoveAt(s, i))
  <1> DEFINE t == RemoveAt(s, i)
             From(j) == IF j < i THEN j ELSE j + 1
  <1>1. /\ Len(t) = Len(s) - 1
        /\ \A j \in 1 .. Len(s) - 1 : t[j] = IF j < i THEN s[j] ELSE s[j + 1]
    BY RemoveAtEntries
  <1>2. Len(s) \in Nat
    BY ElementOfSeq
  <1> HIDE DEF t
  <1>3. ASSUME NEW j \in 1 .. Len(t), NEW k \in 1 .. Len(t), j < k
        PROVE  Ahead(h, t[j]) <= Ahead(h, t[k])
    <2>1. /\ From(j) \in 1 .. Len(s) /\ From(k) \in 1 .. Len(s) /\ From(j) < From(k)
      BY <1>1, <1>2, <1>3
    <2>2. t[j] = s[From(j)] /\ t[k] = s[From(k)]
      BY <1>1, <1>2
    <2> QED  BY <2>1, <2>2 DEF Sorted
  <1> QED  BY <1>3 DEF Sorted, t

\* The strengthening: what diskhead compares as.
OrderInv ==
  /\ TypeOK
  /\ head \in Heads
  /\ \A q \in Queues : astray[q] \/ Sorted(head, queue[q])

\* Sorted is what ElevatorOrder says.
LEMMA SortedIsOrder ==
  ASSUME OrderInv
  PROVE  ElevatorOrder
  <1>1. \A q \in Queues : DOMAIN queue[q] = 1 .. Len(queue[q])
    BY LenProperties DEF OrderInv, TypeOK
  <1> QED  BY <1>1 DEF OrderInv, ElevatorOrder, Sorted

\* An int compares as some sector.
LEMMA IntInHeads ==
  ASSUME NEW s \in Sectors
  PROVE  ToSector(ToInt(s)) \in Heads
  <1>1. s \in 0 .. SectorSpan - 2
    BY SectorNumbers
  <1>2. s % IntSpan \in 0 .. IntSpan - 1 /\ s % IntSpan <= s
    BY <1>1, SectorNumbers
  <1> DEFINE low == s % IntSpan
             half == IntSpan \div 2
  <1>3. half \in Nat /\ half <= SectorSpan /\ IntSpan = half + half
    BY SectorNumbers
  <1>4. ToInt(s) = IF low < half THEN low ELSE low - IntSpan
    BY DEF ToInt
  <1> HIDE DEF low, half
  <1>5. CASE low < half
    <2>1. ToInt(s) = low /\ low \in 0 .. SectorSpan - 1
      BY <1>1, <1>2, <1>4, <1>5, SectorNumbers DEF low
    <2> QED  BY <2>1, SectorNumbers DEF ToSector, Heads
  <1>6. CASE ~ (low < half)
    <2>1. ToInt(s) = low - IntSpan /\ low - IntSpan < 0 /\ low - IntSpan >= - half
      BY <1>2, <1>3, <1>4, <1>6, SectorNumbers DEF low
    <2>2. low - IntSpan + SectorSpan \in 0 .. SectorSpan - 1
      BY <1>2, <1>3, <2>1, SectorNumbers DEF low
    <2> QED  BY <2>1, <2>2 DEF ToSector, Heads
  <1> QED  BY <1>5, <1>6

\* An insertion keeps its queue in order, or it has gone astray.
LEMMA AddOrder ==
  ASSUME OrderInv, NEW q \in Queues, NEW rq \in Sectors, sstf_add_request(q, rq), TypeOK'
  PROVE  OrderInv'
  <1>1. PICK i \in 1 .. Len(queue[q]) + 1 :
               /\ \A j \in 1 .. i - 1 : ~ StopsAt(rq, queue[q][j])
               /\ i <= Len(queue[q]) => StopsAt(rq, queue[q][i])
               /\ queue' = [queue EXCEPT ![q] = InsertAt(@, i, rq)]
    BY DEF sstf_add_request, Insert
  <1>2. queue[q] \in Seq(Sectors) /\ head \in Heads /\ queue'[q] = InsertAt(queue[q], i, rq)
    BY <1>1 DEF OrderInv, TypeOK
  <1>3. diskhead' = diskhead /\ head' = head
    BY DEF sstf_add_request, head
  <1>4. \A p \in Queues \ {q} : queue'[p] = queue[p] /\ astray'[p] = astray[p]
    BY <1>1 DEF sstf_add_request, OrderInv, TypeOK
  <1>5. ASSUME ~ astray'[q]
        PROVE  Sorted(head, queue'[q])
    <2>1. Len(queue'[q]) = Len(queue[q]) + 1 /\ Len(queue[q]) \in Nat
      BY <1>1, <1>2, InsertAtEntries, LenProperties
    <2>2. queue'[q] # <<>>
      BY <2>1, EmptySeq
    <2>3. astray'[q] = Strays(q, rq = head /\ ToSet(queue[q]) \ {head} # {})
      BY DEF sstf_add_request, OrderInv, TypeOK
    <2>4. ~ astray[q] /\ (rq # head \/ ToSet(queue[q]) \ {head} = {})
      BY <1>5, <2>2, <2>3, Zenon DEF Strays
    <2>5. \A j \in 1 .. Len(queue[q]) : queue[q][j] \in ToSet(queue[q])
      BY <1>2, LenProperties DEF ToSet
    <2>6. \A j \in 1 .. Len(queue[q]) : rq # head \/ queue[q][j] = head
      BY <2>4, <2>5
    <2>7. Sorted(head, queue[q])
      BY <2>4 DEF OrderInv
    <2> QED  BY <1>1, <1>2, <2>6, <2>7, InsertSorted
  <1>6. ASSUME NEW p \in Queues
        PROVE  astray'[p] \/ Sorted(head, queue'[p])
    <2>1. CASE p = q  BY <2>1, <1>5
    <2>2. CASE p # q  BY <2>2, <1>4 DEF OrderInv
    <2> QED  BY <2>1, <2>2
  <1>7. \A p \in Queues : (astray[p] \/ Sorted(head, queue[p]))'
    BY <1>3, <1>6 DEF Sorted, Ahead
  <1> QED  BY <1>2, <1>3, <1>7 DEF OrderInv

\* What a dispatch does to the lists.
LEMMA DispatchTakesFirst ==
  ASSUME OrderInv, NEW q \in Queues, sstf_dispatch(q)
  PROVE  /\ queue[q] \in Seq(Sectors) /\ queue[q] # <<>> /\ queue[q][1] \in Sectors
         /\ queue' = [queue EXCEPT ![q] = RemoveAt(queue[q], 1)]
         /\ served'[q] = queue[q][1]
         /\ head' = ToSector(ToInt(queue[q][1])) /\ head' \in Heads
  <1>1. queue[q] \in Seq(Sectors) /\ queue[q] # <<>>
    BY DEF OrderInv, TypeOK, sstf_dispatch
  <1>2. queue[q][1] \in Sectors
    BY <1>1, EmptySeq, ElementOfSeq
  <1>3. head' = ToSector(ToInt(queue[q][1]))
    BY DEF sstf_dispatch, head, ToSector
  <1>4. head' \in Heads
    BY <1>2, <1>3, IntInHeads
  <1>5. served'[q] = queue[q][1]
    BY DEF OrderInv, TypeOK, sstf_dispatch, HandOver
  <1> QED  BY <1>1, <1>2, <1>3, <1>4, <1>5 DEF sstf_dispatch, HandOver

\* A dispatch keeps every queue in order that it does not lead astray.
LEMMA DispatchOrder ==
  ASSUME OrderInv, NEW q \in Queues, sstf_dispatch(q), TypeOK'
  PROVE  OrderInv'
  <1>1. /\ queue[q] \in Seq(Sectors) /\ queue[q] # <<>> /\ queue[q][1] \in Sectors
        /\ queue' = [queue EXCEPT ![q] = RemoveAt(queue[q], 1)]
        /\ head' \in Heads /\ head \in Heads
    BY DispatchTakesFirst DEF OrderInv
  <1>2. \A p \in Queues : queue[p] \in Seq(Sectors) /\ queue'[p] \in Seq(Sectors)
    BY DEF OrderInv, TypeOK
  <1>3. ASSUME NEW p \in Queues, ~ astray'[p]
        PROVE  Sorted(head', queue'[p])
    <2>1. astray'[p] = Strays(p, head' # IF p = q THEN queue[q][1] ELSE head)
      BY DEF sstf_dispatch
    <2>2. CASE queue'[p] = <<>>
      BY <2>2, EmptySeq DEF Sorted
    <2>3. CASE queue'[p] # <<>> /\ p = q
      <3>1. ~ astray[q] /\ head' = queue[q][1]
        BY <1>3, <2>1, <2>3, Zenon DEF Strays
      <3>2. Sorted(head, queue[q])
        BY <3>1 DEF OrderInv
      <3>3. queue'[q] = RemoveAt(queue[q], 1)
        BY <1>1 DEF OrderInv, TypeOK
      <3> QED  BY <1>1, <2>3, <3>1, <3>2, <3>3, RemoveSorted
    <2>4. CASE queue'[p] # <<>> /\ p # q
      <3>1. ~ astray[p] /\ head' = head
        BY <1>3, <2>1, <2>4, Zenon DEF Strays
      <3>2. queue'[p] = queue[p]
        BY <1>1, <2>4 DEF OrderInv, TypeOK
      <3> QED  BY <3>1, <3>2 DEF OrderInv
    <2> QED  BY <2>2, <2>3, <2>4
  <1>4. \A p \in Queues : (astray[p] \/ Sorted(head, queue[p]))'
    BY <1>3 DEF Sorted, Ahead
  <1> QED  BY <1>1, <1>4 DEF OrderInv

\* So does taking a merged request away.
LEMMA MergeOrder ==
  ASSUME OrderInv, NEW q \in Queues, NEW i \in 1 .. Len(queue[q]),
         sstf_merged_requests(q, i), TypeOK'
  PROVE  OrderInv'
  <1>1. /\ queue' = [queue EXCEPT ![q] = RemoveAt(@, i)]
        /\ diskhead' = diskhead /\ head' = head /\ astray' = astray
    BY DEF sstf_merged_requests, HandOver, head
  <1>2. queue[q] \in Seq(Sectors) /\ head \in Heads
    BY DEF OrderInv, TypeOK
  <1>3. ASSUME NEW p \in Queues, Sorted(head, queue[p])
        PROVE  Sorted(head, queue'[p])
    <2>1. CASE p = q
      <3>1. queue'[p] = RemoveAt(queue[q], i)
        BY <1>1, <2>1 DEF OrderInv, TypeOK
      <3> QED  BY <1>2, <1>3, <2>1, <3>1, MergeSorted
    <2>2. CASE p # q
      <3>1. queue'[p] = queue[p]
        BY <1>1, <2>2 DEF OrderInv, TypeOK
      <3> QED  BY <1>3, <3>1
    <2> QED  BY <2>1, <2>2
  <1>4. \A p \in Queues : (astray[p] \/ Sorted(head, queue[p]))'
    BY <1>1, <1>3 DEF OrderInv, Sorted, Ahead
  <1> QED  BY <1>1, <1>2, <1>4 DEF OrderInv

\* Every callback keeps the order.
LEMMA NextOrder ==
  ASSUME OrderInv, [Next]_vars
  PROVE  OrderInv'
  <1>1. TypeOK'
    BY NextType DEF OrderInv
  <1>2. ASSUME NEW q \in Queues, NEW rq \in Sectors, sstf_add_request(q, rq)
        PROVE  OrderInv'
    BY <1>1, <1>2, AddOrder
  <1>3. ASSUME NEW q \in Queues, sstf_dispatch(q)
        PROVE  OrderInv'
    BY <1>1, <1>3, DispatchOrder
  <1>4. ASSUME NEW q \in Queues, NEW i \in 1 .. Len(queue[q]),
               sstf_merged_requests(q, i)
        PROVE  OrderInv'
    BY <1>1, <1>4, MergeOrder
  <1>5. ASSUME NEW q \in Queues, sstf_init_queue(q)
        PROVE  OrderInv'
    <2>1. /\ diskhead' = diskhead /\ head' = head /\ astray' = astray
          /\ queue' = [queue EXCEPT ![q] = <<>>]
      BY <1>5 DEF sstf_init_queue, head
    <2>2. ASSUME NEW p \in Queues, Sorted(head, queue[p])
          PROVE  Sorted(head, queue'[p])
      <3>1. queue'[p] = queue[p] \/ queue'[p] = <<>>
        BY <2>1 DEF OrderInv, TypeOK
      <3> QED  BY <2>2, <3>1, EmptySeq DEF Sorted
    <2>3. \A p \in Queues : (astray[p] \/ Sorted(head, queue[p]))'
      BY <2>1, <2>2 DEF OrderInv, Sorted, Ahead
    <2> QED  BY <1>1, <2>1, <2>3 DEF OrderInv
  <1>6. CASE UNCHANGED <<diskhead, queue, astray>>
    BY <1>1, <1>6 DEF OrderInv, head, Sorted, Ahead
  <1> QED
    BY <1>2, <1>3, <1>4, <1>5, <1>6
    DEF Next, InitQueueFails, DrainBegins, DrainEnds, sstf_exit_queue, vars

\* At first the lists are empty, and -1 compares as the largest sector_t.
LEMMA InitOrder == Init => OrderInv
  <1> SUFFICES ASSUME Init PROVE OrderInv
    OBVIOUS
  <1>1. head = SectorSpan - 1
    BY SectorNumbers DEF Init, head, ToSector
  <1>2. head \in Heads
    BY <1>1, SectorNumbers DEF Heads
  <1>3. \A q \in Queues : Sorted(head, queue[q])
    BY EmptySeq DEF Init, Sorted
  <1> QED  BY <1>2, <1>3, InitType DEF OrderInv

\* Every queue is in the order in which the head comes to it (sstf_add_request),
\* unless it has gone astray.
THEOREM OrderHolds == Spec => []ElevatorOrder
  <1>1. OrderInv /\ [Next]_vars => OrderInv'
    BY NextOrder
  <1>2. OrderInv => ElevatorOrder
    BY SortedIsOrder
  <1> QED  BY InitOrder, <1>1, <1>2, PTL DEF Spec

\* MovesToNearest, of a step.
TakesNearest ==
  \A q \in Queues :
    diskhead' # diskhead /\ queue'[q] # queue[q] /\ ~ astray[q] =>
      \A i \in DOMAIN queue'[q] :
         ~ /\ Ahead(head, queue'[q][i]) > 0
           /\ Ahead(head, queue'[q][i]) < Ahead(head, served'[q])

\* What sstf_dispatch hands to the driver, from a queue that has not gone astray, is
\* the nearest of the requests that wait in it.
THEOREM PassesOverNothing == Spec => MovesToNearest
  <1>1. ASSUME OrderInv, [Next]_vars
        PROVE  TakesNearest
    <2> SUFFICES ASSUME NEW q \in Queues, diskhead' # diskhead, queue'[q] # queue[q],
                        ~ astray[q], NEW i \in DOMAIN queue'[q]
                 PROVE  ~ (Ahead(head, queue'[q][i]) < Ahead(head, served'[q]))
      BY DEF TakesNearest
    <2>1. PICK p \in Queues : sstf_dispatch(p)
      BY <1>1 DEF Next, sstf_add_request, sstf_merged_requests,
           sstf_init_queue, InitQueueFails, DrainBegins, DrainEnds,
           sstf_exit_queue, vars
    <2>2. p = q
      BY <1>1, <2>1, DispatchTakesFirst DEF OrderInv, TypeOK
    <2> DEFINE s == queue[q]
    <2>3. /\ s \in Seq(Sectors) /\ s # <<>> /\ head \in Heads
          /\ Sorted(head, s)
          /\ served'[q] = s[1] /\ queue'[q] = RemoveAt(s, 1)
      BY <1>1, <2>1, <2>2, DispatchTakesFirst DEF OrderInv, TypeOK
    <2> HIDE DEF s
    <2>4. Len(s) \in Nat \ {0} /\ \A j \in 1 .. Len(s) : s[j] \in Sectors
      BY <2>3, EmptySeq, ElementOfSeq
    <2>5. i \in 1 .. Len(s) - 1 /\ queue'[q][i] = s[i + 1]
      <3>1. /\ RemoveAt(s, 1) \in Seq(Sectors)
            /\ Len(RemoveAt(s, 1)) = Len(s) - 1
            /\ \A j \in 1 .. Len(s) - 1 : RemoveAt(s, 1)[j] = s[j + 1]
        BY <2>3, RemoveFirstEntries
      <3>2. i \in 1 .. Len(s) - 1
        BY <2>3, <3>1, LenProperties
      <3> QED  BY <2>3, <3>1, <3>2
    <2>6. Ahead(head, s[1]) <= Ahead(head, s[i + 1])
      BY <2>3, <2>4, <2>5 DEF Sorted
    <2>7. Ahead(head, s[1]) \in Nat /\ Ahead(head, s[i + 1]) \in Nat
      BY <2>3, <2>4, <2>5, AheadNat
    <2> QED  BY <2>3, <2>5, <2>6, <2>7
  <1>2. OrderInv /\ [Next]_vars => OrderInv'
    BY NextOrder
  <1>3. OrderInv /\ [Next]_vars => TakesNearest
    BY <1>1
  <1> QED  BY InitOrder, <1>2, <1>3, PTL DEF Spec, MovesToNearest, TakesNearest
================================================================================
