------------------------ MODULE SearchInsertDeleteProofs -----------------------
(***************************************************************************)
(* The list of concurrency3.c, for any number of threads of each kind and  *)
(* any nodes.  First the locks: each semaphore is held by at most one      *)
(* thread between its sem_wait and its sem_post.  Then the memory that     *)
(* they protect: how the list is linked and what each thread holds of it,  *)
(* so that no pointer dangles, the list is one chain, and a node leaves it *)
(* only by being freed.  Last, that a search passes over nothing.          *)
(***************************************************************************)
EXTENDS SearchInsertDelete, FiniteSetTheorems, TLAPS

\* Between taking and posting deleterSearcherSem.
HasSearch(t) == \/ t \in Searchers /\ pc[t] \in {"find", "look", "post"}
                \/ t \in Deleters /\ pc[t] \notin {"wait", "post too"}

\* Between taking and posting deleterInserterSem.
HasInsert(t) == \/ t \in Inserters /\ pc[t] \notin {"wait", "unlock"}
                \/ t \in Deleters /\ pc[t] \notin {"wait", "wait too"}

Labels == /\ pc \in [Threads -> SearcherLabels \cup InserterLabels \cup DeleterLabels]
          /\ \A s \in Searchers : pc[s] \in SearcherLabels
          /\ \A i \in Inserters : pc[i] \in InserterLabels
          /\ \A d \in Deleters : pc[d] \in DeleterLabels

SearchLock == /\ deleterSearcherSem \in {0, 1}
              /\ deleterSearcherSem = 1 => \A t \in Threads : ~HasSearch(t)
              /\ \A t, u \in Threads : HasSearch(t) /\ HasSearch(u) => t = u

InsertLock == /\ deleterInserterSem \in {0, 1}
              /\ deleterInserterSem = 1 => \A t \in Threads : ~HasInsert(t)
              /\ \A t, u \in Threads : HasInsert(t) /\ HasInsert(u) => t = u

Locks == Labels /\ SearchLock /\ InsertLock

\* Somebody has a semaphore that is taken, and a mutex names who has locked it.
InsertOwning == {"malloc", "walk", "link", "end", "post", "unlock"}
DeleteOwning == {"choose", "free", "unlink", "delete head", "initialize", "unlock"}

Taken ==
  /\ deleterSearcherSem = 0 => \E t \in Threads : HasSearch(t)
  /\ deleterInserterSem = 0 => \E t \in Threads : HasInsert(t)

Owned ==
  /\ inserterMutex \in Inserters \cup {NULL}
  /\ \A i \in Inserters : inserterMutex = i <=> pc[i] \in InsertOwning
  /\ deleterMutex \in Deleters \cup {NULL}
  /\ \A d \in Deleters : deleterMutex = d <=> pc[d] \in DeleteOwning

\* A thread that takes the semaphore finds that nobody has it ...
LEMMA TakeSearch ==
  ASSUME SearchLock, deleterSearcherSem > 0, deleterSearcherSem' = deleterSearcherSem - 1,
         NEW t \in Threads, \A u \in Threads \ {t} : HasSearch(u)' => HasSearch(u)
  PROVE  SearchLock'
<1>1. deleterSearcherSem = 1 /\ deleterSearcherSem' = 0
  BY DEF SearchLock
<1>2. \A u \in Threads \ {t} : ~HasSearch(u)'
  BY <1>1 DEF SearchLock
<1>3. QED
  BY <1>1, <1>2 DEF SearchLock

\* ... and one that posts it was the only one that had it.
LEMMA PostSearchLock ==
  ASSUME SearchLock, deleterSearcherSem' = deleterSearcherSem + 1,
         NEW t \in Threads, HasSearch(t), ~HasSearch(t)',
         \A u \in Threads \ {t} : HasSearch(u)' => HasSearch(u)
  PROVE  SearchLock'
<1>1. deleterSearcherSem = 0 /\ deleterSearcherSem' = 1
  BY DEF SearchLock
<1>2. \A u \in Threads : ~HasSearch(u)'
  BY DEF SearchLock
<1>3. QED
  BY <1>1, <1>2 DEF SearchLock

\* A thread that takes the semaphore finds that nobody has it ...
LEMMA TakeInsert ==
  ASSUME InsertLock, deleterInserterSem > 0, deleterInserterSem' = deleterInserterSem - 1,
         NEW t \in Threads, \A u \in Threads \ {t} : HasInsert(u)' => HasInsert(u)
  PROVE  InsertLock'
<1>1. deleterInserterSem = 1 /\ deleterInserterSem' = 0
  BY DEF InsertLock
<1>2. \A u \in Threads \ {t} : ~HasInsert(u)'
  BY <1>1 DEF InsertLock
<1>3. QED
  BY <1>1, <1>2 DEF InsertLock

\* ... and one that posts it was the only one that had it.
LEMMA PostInsertLock ==
  ASSUME InsertLock, deleterInserterSem' = deleterInserterSem + 1,
         NEW t \in Threads, HasInsert(t), ~HasInsert(t)',
         \A u \in Threads \ {t} : HasInsert(u)' => HasInsert(u)
  PROVE  InsertLock'
<1>1. deleterInserterSem = 0 /\ deleterInserterSem' = 1
  BY DEF InsertLock
<1>2. \A u \in Threads : ~HasInsert(u)'
  BY DEF InsertLock
<1>3. QED
  BY <1>1, <1>2 DEF InsertLock

LEMMA LocksInit == Init => Locks
BY Kinds DEF Init, Locks, Labels, SearchLock, InsertLock, HasSearch, HasInsert, Threads,
   SearcherLabels, InserterLabels, DeleterLabels

LEMMA LocksSearcher ==
  ASSUME Locks, NEW s \in Searchers, searcher(s)
  PROVE  Locks'
<1> USE Kinds DEF Locks, Labels, SearchLock, InsertLock, HasSearch, HasInsert, Threads,
      SearcherLabels, InserterLabels, DeleterLabels, Goes
<1>1. CASE WaitSearch(s)
  <2>1. Labels' BY <1>1 DEF WaitSearch
  <2>2. SearchLock'
    <3>1. deleterSearcherSem > 0 /\ deleterSearcherSem' = deleterSearcherSem - 1 BY <1>1 DEF WaitSearch
    <3>2. \A u \in Threads \ {s} : HasSearch(u)' => HasSearch(u) BY <1>1 DEF WaitSearch
    <3> HIDE DEF Locks, SearchLock, InsertLock, HasSearch, HasInsert, Threads
    <3>3. s \in Threads /\ SearchLock BY DEF Locks, Threads
    <3>4. QED BY ONLY <3>1, <3>2, <3>3, TakeSearch
  <2>3. InsertLock' BY <1>1 DEF WaitSearch
  <2>4. QED BY <2>1, <2>2, <2>3
<1>2. CASE FindValue(s) BY <1>2 DEF FindValue, sync
<1>3. CASE Look(s) BY <1>3 DEF Look, sync
<1>4. CASE PostSearch(s)
  <2>1. Labels' BY <1>4 DEF PostSearch
  <2>2. SearchLock'
    <3>1. deleterSearcherSem' = deleterSearcherSem + 1 BY <1>4 DEF PostSearch
    <3>2. \A u \in Threads \ {s} : HasSearch(u)' => HasSearch(u) BY <1>4 DEF PostSearch
    <3>3. HasSearch(s) /\ ~HasSearch(s)' BY <1>4 DEF PostSearch
    <3> HIDE DEF Locks, SearchLock, InsertLock, HasSearch, HasInsert, Threads
    <3>4. s \in Threads /\ SearchLock BY DEF Locks, Threads
    <3>5. QED BY ONLY <3>1, <3>2, <3>3, <3>4, PostSearchLock
  <2>3. InsertLock' BY <1>4 DEF PostSearch
  <2>4. QED BY <2>1, <2>2, <2>3
<1>5. QED BY <1>1, <1>2, <1>3, <1>4 DEF searcher

LEMMA LocksInserter ==
  ASSUME Locks, NEW i \in Inserters, inserter(i)
  PROVE  Locks'
<1> USE Kinds DEF Locks, Labels, SearchLock, InsertLock, HasSearch, HasInsert, Threads,
      SearcherLabels, InserterLabels, DeleterLabels, Goes
<1>1. CASE WaitInsert(i)
  <2>1. Labels' BY <1>1 DEF WaitInsert
  <2>2. SearchLock' BY <1>1 DEF WaitInsert
  <2>3. InsertLock'
    <3>1. deleterInserterSem > 0 /\ deleterInserterSem' = deleterInserterSem - 1 BY <1>1 DEF WaitInsert
    <3>2. \A u \in Threads \ {i} : HasInsert(u)' => HasInsert(u) BY <1>1 DEF WaitInsert
    <3> HIDE DEF Locks, SearchLock, InsertLock, HasSearch, HasInsert, Threads
    <3>3. i \in Threads /\ InsertLock BY DEF Locks, Threads
    <3>4. QED BY ONLY <3>1, <3>2, <3>3, TakeInsert
  <2>4. QED BY <2>1, <2>2, <2>3
<1>2. CASE LockInsert(i) BY <1>2 DEF LockInsert
<1>3. CASE NewNode(i) BY <1>3 DEF NewNode, sync
<1>4. CASE Walk(i) BY <1>4 DEF Walk, sync
<1>5. CASE Link(i) BY <1>5 DEF Link, sync
<1>6. CASE Terminate(i) BY <1>6 DEF Terminate, sync
<1>7. CASE PostInsert(i)
  <2>1. Labels' BY <1>7 DEF PostInsert
  <2>2. SearchLock' BY <1>7 DEF PostInsert
  <2>3. InsertLock'
    <3>1. deleterInserterSem' = deleterInserterSem + 1 BY <1>7 DEF PostInsert
    <3>2. \A u \in Threads \ {i} : HasInsert(u)' => HasInsert(u) BY <1>7 DEF PostInsert
    <3>3. HasInsert(i) /\ ~HasInsert(i)' BY <1>7 DEF PostInsert
    <3> HIDE DEF Locks, SearchLock, InsertLock, HasSearch, HasInsert, Threads
    <3>4. i \in Threads /\ InsertLock BY DEF Locks, Threads
    <3>5. QED BY ONLY <3>1, <3>2, <3>3, <3>4, PostInsertLock
  <2>4. QED BY <2>1, <2>2, <2>3
<1>8. CASE UnlockInsert(i)
  <2>1. Labels' BY <1>8 DEF UnlockInsert
  <2>2. SearchLock' BY <1>8 DEF UnlockInsert
  <2>3. InsertLock' BY <1>8 DEF UnlockInsert
  <2>4. QED BY <2>1, <2>2, <2>3
<1>9. QED BY <1>1, <1>2, <1>3, <1>4, <1>5, <1>6, <1>7, <1>8 DEF inserter

LEMMA LocksDeleter ==
  ASSUME Locks, NEW d \in Deleters, deleter(d)
  PROVE  Locks'
<1> USE Kinds DEF Locks, Labels, SearchLock, InsertLock, HasSearch, HasInsert, Threads,
      SearcherLabels, InserterLabels, DeleterLabels, Goes
<1>1. CASE WaitSearchers(d)
  <2>1. Labels' BY <1>1 DEF WaitSearchers
  <2>2. SearchLock'
    <3>1. deleterSearcherSem > 0 /\ deleterSearcherSem' = deleterSearcherSem - 1 BY <1>1 DEF WaitSearchers
    <3>2. \A u \in Threads \ {d} : HasSearch(u)' => HasSearch(u) BY <1>1 DEF WaitSearchers
    <3> HIDE DEF Locks, SearchLock, InsertLock, HasSearch, HasInsert, Threads
    <3>3. d \in Threads /\ SearchLock BY DEF Locks, Threads
    <3>4. QED BY ONLY <3>1, <3>2, <3>3, TakeSearch
  <2>3. InsertLock' BY <1>1 DEF WaitSearchers
  <2>4. QED BY <2>1, <2>2, <2>3
<1>2. CASE WaitInserters(d)
  <2>1. Labels' BY <1>2 DEF WaitInserters
  <2>2. SearchLock' BY <1>2 DEF WaitInserters
  <2>3. InsertLock'
    <3>1. deleterInserterSem > 0 /\ deleterInserterSem' = deleterInserterSem - 1 BY <1>2 DEF WaitInserters
    <3>2. \A u \in Threads \ {d} : HasInsert(u)' => HasInsert(u) BY <1>2 DEF WaitInserters
    <3> HIDE DEF Locks, SearchLock, InsertLock, HasSearch, HasInsert, Threads
    <3>3. d \in Threads /\ InsertLock BY DEF Locks, Threads
    <3>4. QED BY ONLY <3>1, <3>2, <3>3, TakeInsert
  <2>4. QED BY <2>1, <2>2, <2>3
<1>3. CASE LockDelete(d) BY <1>3 DEF LockDelete
<1>4. CASE Choose(d) BY <1>4 DEF Choose, sync
<1>5. CASE Free(d) BY <1>5 DEF Free, sync
<1>6. CASE Unlink(d) BY <1>6 DEF Unlink, sync
<1>7. CASE DeleteHead(d) BY <1>7 DEF DeleteHead, sync
<1>8. CASE InitializeList(d) BY <1>8 DEF InitializeList, sync
<1>9. CASE UnlockDelete(d) BY <1>9 DEF UnlockDelete
<1>10. CASE PostSearchers(d)
  <2>1. Labels' BY <1>10 DEF PostSearchers
  <2>2. SearchLock'
    <3>1. deleterSearcherSem' = deleterSearcherSem + 1 BY <1>10 DEF PostSearchers
    <3>2. \A u \in Threads \ {d} : HasSearch(u)' => HasSearch(u) BY <1>10 DEF PostSearchers
    <3>3. HasSearch(d) /\ ~HasSearch(d)' BY <1>10 DEF PostSearchers
    <3> HIDE DEF Locks, SearchLock, InsertLock, HasSearch, HasInsert, Threads
    <3>4. d \in Threads /\ SearchLock BY DEF Locks, Threads
    <3>5. QED BY ONLY <3>1, <3>2, <3>3, <3>4, PostSearchLock
  <2>3. InsertLock' BY <1>10 DEF PostSearchers
  <2>4. QED BY <2>1, <2>2, <2>3
<1>11. CASE PostInserters(d)
  <2>1. Labels' BY <1>11 DEF PostInserters
  <2>2. SearchLock' BY <1>11 DEF PostInserters
  <2>3. InsertLock'
    <3>1. deleterInserterSem' = deleterInserterSem + 1 BY <1>11 DEF PostInserters
    <3>2. \A u \in Threads \ {d} : HasInsert(u)' => HasInsert(u) BY <1>11 DEF PostInserters
    <3>3. HasInsert(d) /\ ~HasInsert(d)' BY <1>11 DEF PostInserters
    <3> HIDE DEF Locks, SearchLock, InsertLock, HasSearch, HasInsert, Threads
    <3>4. d \in Threads /\ InsertLock BY DEF Locks, Threads
    <3>5. QED BY ONLY <3>1, <3>2, <3>3, <3>4, PostInsertLock
  <2>4. QED BY <2>1, <2>2, <2>3
<1>12. QED
  BY <1>1, <1>2, <1>3, <1>4, <1>5, <1>6, <1>7, <1>8, <1>9, <1>10, <1>11 DEF deleter

LEMMA TakenStep ==
  ASSUME Locks, Locks', Taken, [Next]_vars
  PROVE  Taken'
<1> USE Kinds DEF Locks, Labels, Taken, Threads, Goes
<1>1. ASSUME NEW t \in Threads, HasSearch(t)', deleterInserterSem' = deleterInserterSem,
             \A u \in Threads : HasInsert(u) <=> HasInsert(u)'
      PROVE  Taken'
  BY <1>1
<1>2. ASSUME NEW t \in Threads, HasInsert(t)', deleterSearcherSem' = deleterSearcherSem,
             \A u \in Threads : HasSearch(u) <=> HasSearch(u)'
      PROVE  Taken'
  BY <1>2
<1>3. ASSUME deleterSearcherSem' = deleterSearcherSem + 1, deleterInserterSem' = deleterInserterSem,
             \A u \in Threads : HasInsert(u) <=> HasInsert(u)'
      PROVE  Taken'
  BY <1>3 DEF SearchLock
<1>4. ASSUME deleterInserterSem' = deleterInserterSem + 1, deleterSearcherSem' = deleterSearcherSem,
             \A u \in Threads : HasSearch(u) <=> HasSearch(u)'
      PROVE  Taken'
  BY <1>4 DEF InsertLock
<1>5. ASSUME UNCHANGED <<deleterSearcherSem, deleterInserterSem>>,
             \A u \in Threads : (HasSearch(u) <=> HasSearch(u)') /\ (HasInsert(u) <=> HasInsert(u)')
      PROVE  Taken'
  BY <1>5
<1> USE DEF HasSearch, HasInsert, SearcherLabels, InserterLabels, DeleterLabels
<1>6. ASSUME NEW s \in Searchers, searcher(s) PROVE Taken'
  <2>1. CASE WaitSearch(s) BY <1>1, <2>1 DEF WaitSearch
  <2>2. CASE FindValue(s) BY <1>5, <2>2 DEF FindValue, sync
  <2>5. CASE Look(s)
    <3>1. CASE UNCHANGED pc BY <1>5, <2>5, <3>1 DEF Look, sync
    <3>2. CASE Goes(s, "post") BY <1>5, <2>5, <3>2 DEF Look, sync
    <3>3. QED BY <2>5, <3>1, <3>2 DEF Look
  <2>3. CASE PostSearch(s)
    <3>1. /\ deleterSearcherSem' = deleterSearcherSem + 1 /\ deleterInserterSem' = deleterInserterSem
          /\ \A u \in Threads : HasInsert(u) <=> HasInsert(u)'
      BY <2>3 DEF PostSearch
    <3>2. QED BY ONLY <1>3, <3>1
  <2>4. QED BY <1>6, <2>1, <2>2, <2>3, <2>5 DEF searcher
<1>7. ASSUME NEW j \in Inserters, inserter(j) PROVE Taken'
  <2>1. CASE WaitInsert(j) BY <1>2, <2>1 DEF WaitInsert
  <2>2. CASE LockInsert(j) \/ NewNode(j) BY <1>5, <2>2 DEF LockInsert, NewNode, sync
  <2>6. CASE Walk(j)
    <3>1. CASE UNCHANGED pc BY <1>5, <2>6, <3>1 DEF Walk, sync
    <3>2. CASE Goes(j, "link") BY <1>5, <2>6, <3>2 DEF Walk, sync
    <3>3. QED BY <2>6, <3>1, <3>2 DEF Walk
  <2>3. CASE Link(j) BY <1>5, <2>3 DEF Link, sync
  <2>7. CASE Terminate(j) BY <1>5, <2>7 DEF Terminate, sync
  <2>8. CASE UnlockInsert(j)
    <3>1. /\ UNCHANGED <<deleterSearcherSem, deleterInserterSem>>
          /\ \A u \in Threads : (HasSearch(u) <=> HasSearch(u)') /\ (HasInsert(u) <=> HasInsert(u)')
      BY <2>8 DEF UnlockInsert
    <3>2. QED BY ONLY <1>5, <3>1
  <2>4. CASE PostInsert(j) BY <1>4, <2>4 DEF PostInsert
  <2>5. QED BY <1>7, <2>1, <2>2, <2>3, <2>4, <2>6, <2>7, <2>8 DEF inserter
<1>8. ASSUME NEW d \in Deleters, deleter(d) PROVE Taken'
  <2>1. CASE WaitSearchers(d) BY <1>1, <2>1 DEF WaitSearchers
  <2>2. CASE WaitInserters(d) BY <1>2, <2>2 DEF WaitInserters
  <2>3. CASE LockDelete(d) \/ Choose(d) BY <1>5, <2>3 DEF LockDelete, Choose, sync
  <2>4. CASE Free(d) \/ Unlink(d) \/ DeleteHead(d) BY <1>5, <2>4 DEF Free, Unlink, DeleteHead, sync
  <2>5. CASE InitializeList(d) \/ UnlockDelete(d) BY <1>5, <2>5 DEF InitializeList, UnlockDelete, sync
  <2>6. CASE PostSearchers(d) BY <1>3, <2>6 DEF PostSearchers
  <2>7. CASE PostInserters(d) BY <1>4, <2>7 DEF PostInserters
  <2>8. QED BY <1>8, <2>1, <2>2, <2>3, <2>4, <2>5, <2>6, <2>7 DEF deleter
<1>9. CASE UNCHANGED vars BY <1>5, <1>9 DEF vars, sync
<1>10. QED BY <1>6, <1>7, <1>8, <1>9 DEF Next

LEMMA OwnedStep ==
  ASSUME Locks, Owned, [Next]_vars
  PROVE  Owned'
<1>1. ASSUME NEW t \in Threads, NEW label, Goes(t, label),
             \/ UNCHANGED inserterMutex /\ (t \in Inserters => (pc[t] \in InsertOwning <=> label \in InsertOwning))
             \/ t \in Inserters /\ inserterMutex = NULL /\ inserterMutex' = t /\ label \in InsertOwning
             \/ t \in Inserters /\ inserterMutex = t /\ inserterMutex' = NULL /\ label \notin InsertOwning,
             \/ UNCHANGED deleterMutex /\ (t \in Deleters => (pc[t] \in DeleteOwning <=> label \in DeleteOwning))
             \/ t \in Deleters /\ deleterMutex = NULL /\ deleterMutex' = t /\ label \in DeleteOwning
             \/ t \in Deleters /\ deleterMutex = t /\ deleterMutex' = NULL /\ label \notin DeleteOwning
      PROVE  Owned'
  <2>1. pc'[t] = label /\ \A u \in Threads \ {t} : pc'[u] = pc[u]
    BY <1>1 DEF Goes, Locks, Labels
  <2>2. \A x \in Inserters \cup Deleters : x # NULL /\ x \in Threads BY NotNodes DEF Threads
  <2>3. inserterMutex' \in Inserters \cup {NULL} /\ \A x \in Inserters : inserterMutex' = x <=> pc'[x] \in InsertOwning
    BY <1>1, <2>1, <2>2 DEF Owned
  <2>4. deleterMutex' \in Deleters \cup {NULL} /\ \A x \in Deleters : deleterMutex' = x <=> pc'[x] \in DeleteOwning
    BY <1>1, <2>1, <2>2 DEF Owned
  <2>5. QED BY <2>3, <2>4 DEF Owned
<1>2. ASSUME UNCHANGED <<inserterMutex, deleterMutex, pc>> PROVE Owned' BY <1>2 DEF Owned
<1>3. \A t \in Threads : (t \in Searchers => t \notin Inserters /\ t \notin Deleters) /\ (t \in Inserters => t \notin Deleters)
  BY Kinds
<1>4. ASSUME NEW s \in Searchers, searcher(s) PROVE Owned'
  <2>1. UNCHANGED <<inserterMutex, deleterMutex>> /\ (UNCHANGED pc \/ \E label : Goes(s, label))
    BY <1>4 DEF searcher, WaitSearch, FindValue, Look, PostSearch, sync
  <2>2. s \in Threads BY DEF Threads
  <2>3. QED BY <1>1, <1>2, <1>3, <2>1, <2>2
<1>5. ASSUME NEW j \in Inserters, inserter(j) PROVE Owned'
  <2>1. j \in Threads /\ j \notin Deleters BY Kinds DEF Threads
  <2>2. deleterMutex' = deleterMutex /\ (inserterMutex = j <=> pc[j] \in InsertOwning)
    BY <1>5 DEF inserter, WaitInsert, LockInsert, NewNode, Walk, Link, Terminate, PostInsert, UnlockInsert, sync, Owned
  <2>3. CASE LockInsert(j)
    BY <1>1, <2>1, <2>2, <2>3 DEF LockInsert, InsertOwning
  <2>4. CASE UnlockInsert(j)
    BY <1>1, <2>1, <2>2, <2>4 DEF UnlockInsert, InsertOwning
  <2>5. CASE WaitInsert(j)
    BY <1>1, <2>1, <2>2, <2>5 DEF WaitInsert, InsertOwning
  <2>6. CASE NewNode(j) \/ Walk(j) \/ Link(j) \/ Terminate(j) \/ PostInsert(j)
    <3>1. inserterMutex' = inserterMutex /\ pc[j] \in InsertOwning
          /\ (UNCHANGED pc \/ \E label \in InsertOwning : Goes(j, label))
      BY <2>6 DEF NewNode, Walk, Link, Terminate, PostInsert, sync, InsertOwning
    <3>2. QED BY <1>1, <1>2, <2>1, <2>2, <3>1
  <2>7. QED BY <1>5, <2>3, <2>4, <2>5, <2>6 DEF inserter
<1>6. ASSUME NEW d \in Deleters, deleter(d) PROVE Owned'
  <2>1. d \in Threads /\ d \notin Inserters BY Kinds DEF Threads
  <2>2. inserterMutex' = inserterMutex /\ (deleterMutex = d <=> pc[d] \in DeleteOwning)
    BY <1>6 DEF deleter, WaitSearchers, WaitInserters, LockDelete, Choose, Free, Unlink, DeleteHead,
       InitializeList, UnlockDelete, PostSearchers, PostInserters, sync, Owned
  <2>3. CASE LockDelete(d)
    BY <1>1, <2>1, <2>2, <2>3 DEF LockDelete, DeleteOwning
  <2>4. CASE UnlockDelete(d)
    BY <1>1, <2>1, <2>2, <2>4 DEF UnlockDelete, DeleteOwning
  <2>5. CASE WaitSearchers(d) \/ WaitInserters(d) \/ PostSearchers(d) \/ PostInserters(d)
    <3>1. deleterMutex' = deleterMutex /\ pc[d] \notin DeleteOwning
          /\ \E label \in {"wait", "wait too", "lock", "post too"} : Goes(d, label)
      BY <2>5 DEF WaitSearchers, WaitInserters, PostSearchers, PostInserters, DeleteOwning
    <3>2. QED BY <1>1, <2>1, <2>2, <3>1 DEF DeleteOwning
  <2>6. CASE Choose(d) \/ Free(d) \/ Unlink(d) \/ DeleteHead(d) \/ InitializeList(d)
    <3>1. deleterMutex' = deleterMutex /\ pc[d] \in DeleteOwning /\ \E label \in DeleteOwning : Goes(d, label)
      BY <2>6 DEF Choose, Free, Unlink, DeleteHead, InitializeList, sync, DeleteOwning
    <3>2. QED BY <1>1, <2>1, <2>2, <3>1
  <2>7. QED BY <1>6, <2>3, <2>4, <2>5, <2>6 DEF deleter
<1>7. CASE UNCHANGED vars BY <1>2, <1>7 DEF vars, sync
<1>8. QED BY <1>4, <1>5, <1>6, <1>7 DEF Next

\* The locks are taken and posted in turn, whatever the threads do in between: a
\* semaphore is 1 if nobody has it and 0 if exactly one thread does, and each mutex
\* names the one thread between lock and unlock, or none.
THEOREM LocksHold == Spec => [](Locks /\ Taken /\ Owned)
<1>1. ASSUME Locks, [Next]_vars PROVE Locks'
  <2>1. CASE Next BY <1>1, <2>1, LocksSearcher, LocksInserter, LocksDeleter DEF Next
  <2>2. CASE UNCHANGED vars
    BY <1>1, <2>2 DEF vars, sync, Locks, Labels, SearchLock, InsertLock, HasSearch, HasInsert
  <2>3. QED BY <1>1, <2>1, <2>2
<1>2. Init => Taken /\ Owned
  BY Kinds, NotNodes
  DEF Init, Taken, Owned, Threads, InsertOwning, DeleteOwning
<1>3. Locks /\ Locks' /\ Taken /\ Owned /\ [Next]_vars => Taken' /\ Owned'
  BY TakenStep, OwnedStep
<1>4. QED BY LocksInit, <1>1, <1>2, <1>3, PTL DEF Spec

\* A deleter is alone with the list, and so is an inserter among the inserters and a
\* searcher among the searchers: two threads that break this would both be between
\* sem_wait and sem_post.
THEOREM ExclusionHolds == Spec => []Exclusion
<1>1. Locks => Exclusion
  BY Kinds DEF Locks, Labels, SearchLock, InsertLock, HasSearch, HasInsert, Exclusion, Threads,
     Searching, Inserting, Deleting
<1>2. QED BY LocksHold, <1>1, PTL
--------------------------------------------------------------------------------
(* Walks along links. *)

LEMMA WalkedInNodes == \A p, f : Walked(p, f) \subseteq Nodes
BY DEF Walked

LEMMA WalkedStarts ==
  ASSUME NEW p \in Nodes, NEW f
  PROVE  p \in Walked(p, f)
BY DEF Walked

LEMMA WalkedGoesOn ==
  ASSUME NEW p, NEW f, NEW n \in Walked(p, f), f[n] \in Nodes
  PROVE  f[n] \in Walked(p, f)
<1>1. SUFFICES ASSUME NEW S \in SUBSET Nodes, p \in Nodes => p \in S,
                      \A m \in S : f[m] \in Nodes => f[m] \in S
               PROVE  f[n] \in S
  BY DEF Walked
<1>2. n \in S
  BY <1>1 DEF Walked
<1>3. QED BY <1>1, <1>2

LEMMA WalkedLeast ==
  ASSUME NEW p, NEW f, NEW S \in SUBSET Nodes, p \in Nodes => p \in S,
         \A m \in S : f[m] \in Nodes => f[m] \in S
  PROVE  Walked(p, f) \subseteq S
BY DEF Walked

\* A walk that starts on another one stays on it.
LEMMA WalkedOn ==
  ASSUME NEW p, NEW f, NEW n \in Walked(p, f)
  PROVE  Walked(n, f) \subseteq Walked(p, f)
<1>1. Walked(p, f) \in SUBSET Nodes BY WalkedInNodes
<1>2. \A m \in Walked(p, f) : f[m] \in Nodes => f[m] \in Walked(p, f) BY WalkedGoesOn
<1>3. QED BY <1>1, <1>2, WalkedLeast

\* Links off the walk do not matter, nor what a link holds that leads to no node.
LEMMA WalkedSame ==
  ASSUME NEW p, NEW f, NEW g,
         \A n \in Walked(p, f) : g[n] = f[n] \/ {f[n], g[n]} \cap Nodes = {}
  PROVE  Walked(p, g) = Walked(p, f)
<1>1. \A q : Walked(q, f) \in SUBSET Nodes /\ Walked(q, g) \in SUBSET Nodes BY WalkedInNodes
<1>2. \A n \in Walked(p, f) : f[n] \in Nodes => f[n] \in Walked(p, f) BY WalkedGoesOn
<1>3. \A n \in Walked(p, g) : g[n] \in Nodes => g[n] \in Walked(p, g) BY WalkedGoesOn
<1>4. p \in Nodes => p \in Walked(p, f) /\ p \in Walked(p, g) BY WalkedStarts
<1>5. Walked(p, g) \subseteq Walked(p, f)
  <2>1. \A n \in Walked(p, f) : g[n] \in Nodes => g[n] \in Walked(p, f) BY <1>2
  <2>2. QED BY <1>1, <1>4, <2>1, WalkedLeast
<1>6. Walked(p, f) \subseteq Walked(p, g)
  <2>1. \A n \in Walked(p, g) : f[n] \in Nodes => f[n] \in Walked(p, g) BY <1>3, <1>5
  <2>2. QED BY <1>1, <1>4, <2>1, WalkedLeast
<1>7. QED BY <1>5, <1>6

\* A node that links to no node is a walk of its own.
LEMMA WalkedAlone ==
  ASSUME NEW n \in Nodes, NEW f, f[n] \notin Nodes
  PROVE  Walked(n, f) = {n}
<1>1. Walked(n, f) \subseteq {n}
  <2> DEFINE S == {n}
  <2>1. S \in SUBSET Nodes /\ n \in S /\ \A m \in S : f[m] \notin Nodes OBVIOUS
  <2> HIDE DEF S
  <2>2. Walked(n, f) \subseteq S BY <2>1, WalkedLeast
  <2>3. QED BY <2>2 DEF S
<1>2. QED BY <1>1, WalkedStarts

\* addToEnd: the walk gets the new node, and nothing else.
LEMMA Appended ==
  ASSUME NEW h \in Nodes, NEW f, NEW e \in Walked(h, f), f[e] \notin Nodes,
         NEW n \in Nodes, n \notin Walked(h, f),
         NEW g, g[e] = n, g[n] = NULL, \A m \in Nodes \ {e, n} : g[m] = f[m]
  PROVE  /\ Walked(h, g) = Walked(h, f) \cup {n}
         /\ Walked(n, g) = {n}
         /\ \A m \in Walked(h, f) : Walked(m, g) \subseteq Walked(m, f) \cup {n}
<1>1. \A q, k : Walked(q, k) \in SUBSET Nodes BY WalkedInNodes
<1>2. e \in Nodes /\ e # n BY <1>1
<1>3. g[e] = n /\ g[n] = NULL /\ NULL \notin Nodes /\ (\A m \in Nodes \ {e, n} : g[m] = f[m])
  BY NotNodes
<1>4. \A q \in Nodes : Walked(q, g) \subseteq Walked(q, f) \cup {n}
  <2> SUFFICES ASSUME NEW q \in Nodes PROVE Walked(q, g) \subseteq Walked(q, f) \cup {n} OBVIOUS
  <2> DEFINE S == Walked(q, f) \cup {n}
  <2>1. \A m \in Walked(q, f) : f[m] \in Nodes => f[m] \in Walked(q, f) BY WalkedGoesOn
  <2>2. ASSUME NEW m \in S, g[m] \in Nodes PROVE g[m] \in S
    <3>1. CASE m \in {e, n} BY ONLY <1>3, <2>2, <3>1
    <3>2. CASE m \notin {e, n}
      <4>1. m \in Walked(q, f) /\ m \in Nodes BY ONLY <1>1, <3>2, m \in S
      <4>2. g[m] = f[m] BY ONLY <1>3, <3>2, <4>1
      <4>3. QED BY ONLY <2>1, <2>2, <4>1, <4>2
    <3>3. QED BY <3>1, <3>2
  <2>3. S \in SUBSET Nodes /\ q \in S BY <1>1, WalkedStarts
  <2> HIDE DEF S
  <2>4. Walked(q, g) \subseteq S BY ONLY <2>2, <2>3, WalkedLeast
  <2>5. QED BY <2>4 DEF S
<1>5. Walked(h, f) \subseteq Walked(h, g)
  <2>1. \A m \in Walked(h, g) : g[m] \in Nodes => g[m] \in Walked(h, g) BY WalkedGoesOn
  <2> DEFINE S == Walked(h, f) \cap Walked(h, g)
  <2>2. \A m \in Walked(h, f) : f[m] \in Nodes => f[m] \in Walked(h, f) BY WalkedGoesOn
  <2>3. \A m \in S : f[m] \in Nodes => f[m] \in S BY ONLY <1>1, <1>3, <2>1, <2>2, f[e] \notin Nodes, n \notin Walked(h, f)
  <2>4. h \in Walked(h, g) BY WalkedStarts
  <2>5. S \in SUBSET Nodes /\ h \in S BY <1>1, <2>4, WalkedStarts
  <2> HIDE DEF S
  <2>6. Walked(h, f) \subseteq S BY ONLY <2>3, <2>5, WalkedLeast
  <2>7. QED BY <2>6 DEF S
<1>6. n \in Walked(h, g)
  <2>1. e \in Walked(h, g) BY ONLY <1>5, e \in Walked(h, f)
  <2>2. g[e] \in Nodes BY ONLY <1>3, n \in Nodes
  <2>3. g[e] \in Walked(h, g) BY ONLY <2>1, <2>2, WalkedGoesOn
  <2>4. QED BY ONLY <1>3, <2>3
<1>7. Walked(n, g) = {n}
  <2>1. g[n] \notin Nodes BY <1>3
  <2>2. QED BY <2>1, WalkedAlone
<1>8. QED BY ONLY <1>1, <1>4, <1>5, <1>6, <1>7

\* deleteFromLocation: the walk loses the node behind p, and nothing else.
LEMMA Removed ==
  ASSUME NEW h \in Nodes, NEW f \in [Nodes -> Pointers],
         NEW p \in Walked(h, f), f[p] \in Nodes,
         \A m \in Walked(h, f) : f[m] # h,
         \A m, n \in Walked(h, f) : f[m] = f[n] /\ f[m] \in Nodes => m = n,
         NEW g, g = [f EXCEPT ![p] = f[f[p]]]
  PROVE  Walked(h, g) = Walked(h, f) \ {f[p]} /\ f[p] # p /\ f[p] \in Walked(h, f)
<1> DEFINE W == Walked(h, f)
           v == f[p]
<1>1. \A q, k : Walked(q, k) \in SUBSET Nodes BY WalkedInNodes
<1>2. \A m \in W : f[m] \in Nodes => f[m] \in W BY WalkedGoesOn
<1>3. v \in W /\ p \in Nodes BY <1>1, WalkedGoesOn
<1>4. h \in W BY WalkedStarts
<1>5. v # p
  <2> SUFFICES ASSUME v = p PROVE FALSE OBVIOUS
  <2> DEFINE S == W \ {p}
  <2>1. S \in SUBSET Nodes /\ h \in S BY <1>1, <1>4
  <2>2. \A m \in S : f[m] \in Nodes => f[m] \in S BY <1>2
  <2>3. p \notin S OBVIOUS
  <2> HIDE DEF S
  <2>4. W \subseteq S BY <2>1, <2>2, WalkedLeast
  <2>5. QED BY <2>3, <2>4
<1>6. g[p] = f[v] /\ (\A m \in Nodes \ {p} : g[m] = f[m]) BY <1>3
<1>7. Walked(h, g) \subseteq W \ {v}
  <2> DEFINE S == W \ {v}
  <2>1. S \in SUBSET Nodes /\ h \in S BY <1>1, <1>4
  <2>2. \A m \in S : g[m] \in Nodes => g[m] \in S
    <3> SUFFICES ASSUME NEW m \in S, g[m] \in Nodes PROVE g[m] \in W /\ g[m] # v OBVIOUS
    <3>1. CASE m = p BY <3>1, <1>2, <1>3, <1>5, <1>6
    <3>2. CASE m # p BY <3>2, <1>1, <1>2, <1>3, <1>6
    <3>3. QED BY <3>1, <3>2
  <2> HIDE DEF S
  <2>3. Walked(h, g) \subseteq S BY ONLY <2>1, <2>2, WalkedLeast
  <2>4. QED BY <2>3 DEF S
<1>8. W \ {v} \subseteq Walked(h, g)
  <2> DEFINE S == Walked(h, g) \cup {v}
  <2>1. \A m \in Walked(h, g) : g[m] \in Nodes => g[m] \in Walked(h, g) BY WalkedGoesOn
  <2>2. h \in Walked(h, g) BY WalkedStarts
  <2>3. p \in Walked(h, g)
    <3> SUFFICES ASSUME p \notin Walked(h, g) PROVE FALSE OBVIOUS
    <3>1. \A m \in Walked(h, g) : f[m] \in Nodes => f[m] \in Walked(h, g) BY <1>1, <1>6, <2>1
    <3>2. W \subseteq Walked(h, g) BY ONLY <1>1, <2>2, <3>1, WalkedLeast
    <3>3. QED BY <3>2
  <2>4. \A m \in S : f[m] \in Nodes => f[m] \in S BY <1>1, <1>6, <2>1, <2>3
  <2>5. S \in SUBSET Nodes /\ h \in S BY <1>1, <1>3, <2>2
  <2> HIDE DEF S
  <2>6. W \subseteq S BY <2>4, <2>5, WalkedLeast
  <2>7. QED BY <2>6 DEF S
<1>9. QED BY <1>3, <1>5, <1>7, <1>8

\* What is lost with the head is the head.
LEMMA Beheaded ==
  ASSUME NEW h \in Nodes, NEW f
  PROVE  Walked(h, f) \subseteq Walked(f[h], f) \cup {h}
<1> DEFINE S == Walked(f[h], f) \cup {h}
<1>1. S \in SUBSET Nodes /\ h \in S BY WalkedInNodes
<1>2. \A m \in Walked(f[h], f) : f[m] \in Nodes => f[m] \in Walked(f[h], f) BY WalkedGoesOn
<1>3. f[h] \in Nodes => f[h] \in Walked(f[h], f) BY WalkedStarts
<1>4. \A m \in S : f[m] \in Nodes => f[m] \in S BY <1>2, <1>3
<1> HIDE DEF S
<1>5. Walked(h, f) \subseteq S BY <1>1, <1>4, WalkedLeast
<1>6. QED BY <1>5 DEF S
--------------------------------------------------------------------------------
(* The list.  What the threads do with it is a matter of what lies on the walk *)
(* from head: the invariant Memory says how it is linked, what each thread     *)
(* holds of it, and which of its nodes have their memory.  What a node holds   *)
(* that is linked but not terminated is not a link: it may be anything.        *)

\* One node is the first, one the last, and each of the others is behind one.
Chain ==
  /\ head \in Nodes
  /\ \A n \in InList : Links[n] \in (Nodes \ {head}) \cup {NULL}
  /\ \E n \in InList : Links[n] = NULL
  /\ \A m, n \in InList : Links[m] = Links[n] => m = n

\* A searcher that has not strayed holds a node of the list, or is at its end.
SearcherHolds(s) ==
  /\ pc[s] \notin {"look", "post"} => ptr[s] = NULL /\ s \notin strayed
  /\ s \notin strayed => ptr[s] \in InList \cup {NULL}

\* An inserter holds a node of the list and, outside of it, its own new one.
InserterHolds(i) ==
  /\ pc[i] \notin {"walk", "link", "end"} => ptr[i] = NULL /\ node[i] = NULL
  /\ pc[i] \in {"walk", "link", "end"} => ptr[i] \in InList /\ node[i] \in allocated
  /\ pc[i] \in {"walk", "link"} => node[i] \notin InList
  /\ pc[i] = "link" => next[ptr[i]] = NULL
  /\ pc[i] = "end" => node[i] \in InList

\* A deleter holds the node before the one it takes, and then the one behind it.
DeleterHolds(d) ==
  /\ pc[d] \in {"free", "unlink"} => ptr[d] \in InList /\ next[ptr[d]] \in Nodes
  /\ pc[d] = "unlink" => /\ node[d] = next[next[ptr[d]]]
                         /\ next[ptr[d]] \notin allocated
                         /\ InList \ {next[ptr[d]]} \subseteq allocated

Unlinking == \E d \in Deleters : pc[d] = "unlink"
Headless == \E d \in Deleters : pc[d] = "initialize"

Typed == /\ next \in [Nodes -> Pointers] /\ data \in [Nodes -> Values] /\ allocated \subseteq Nodes
         /\ ptr \in [Threads -> Pointers] /\ node \in [Threads -> Pointers]

Memory ==
  /\ Typed
  /\ ~Headless => Chain
  /\ ~Headless /\ ~Unlinking => InList \subseteq allocated
  /\ \A s \in Searchers : SearcherHolds(s)
  /\ \A i \in Inserters : InserterHolds(i)
  /\ \A d \in Deleters : DeleterHolds(d)

\* While a deleter is at the list, the others have nothing of it.
LEMMA DeleterAlone ==
  ASSUME Locks, NEW d \in Deleters,
         pc[d] \in {"choose", "free", "unlink", "delete head", "initialize"}
  PROVE  /\ \A s \in Searchers : pc[s] = "wait"
         /\ \A i \in Inserters : pc[i] \in {"wait", "unlock"}
         /\ \A e \in Deleters \ {d} : pc[e] \in {"wait", "wait too", "post too"}
BY Kinds DEF Locks, Labels, SearchLock, InsertLock, HasSearch, HasInsert, Threads,
   SearcherLabels, InserterLabels, DeleterLabels

\* While an inserter is at work, no deleter and no other inserter is.
LEMMA InserterAlone ==
  ASSUME Locks, NEW i \in Inserters, pc[i] \notin {"wait", "unlock"}
  PROVE  /\ \A j \in Inserters \ {i} : pc[j] \in {"wait", "unlock"}
         /\ \A d \in Deleters : pc[d] \in {"wait", "wait too"}
BY Kinds DEF Locks, Labels, InsertLock, HasInsert, Threads,
   SearcherLabels, InserterLabels, DeleterLabels

\* While a searcher looks, no deleter is at work.
LEMMA SearcherAlone ==
  ASSUME Locks, NEW s \in Searchers, pc[s] # "wait"
  PROVE  \A d \in Deleters : pc[d] \in {"wait", "post too"}
BY Kinds DEF Locks, Labels, SearchLock, HasSearch, Threads,
   SearcherLabels, InserterLabels, DeleterLabels

LEMMA InListClosed ==
  /\ InList \subseteq Nodes
  /\ head \in Nodes => head \in InList
  /\ \A n \in InList : Links[n] \in Nodes => Links[n] \in InList
BY WalkedInNodes, WalkedStarts, WalkedGoesOn DEF InList

\* Unless an inserter is about to terminate its node, each node holds its link.
LEMMA AllSet ==
  ASSUME next \in [Nodes -> Pointers], \A i \in Inserters : pc[i] # "end"
  PROVE  Links = next
BY DEF Links, Unset

LEMMA AllSetNext ==
  ASSUME next' \in [Nodes -> Pointers], \A i \in Inserters : pc'[i] # "end"
  PROVE  Links' = next'
BY DEF Links, Unset

\* The links stay what they are in a step that writes none, and lets no inserter
\* come to its last write or pass it.
LEMMA LinksStay ==
  ASSUME next' = next,
         \A i \in Inserters : (pc'[i] = "end" <=> pc[i] = "end")
                              /\ (pc[i] = "end" => node'[i] = node[i])
  PROVE  /\ Links' = Links
         /\ head' = head => InList' = InList
<1>1. \A n : Unset(n)' <=> Unset(n) BY DEF Unset
<1>2. Links' = Links BY <1>1 DEF Links
<1>3. QED BY <1>2 DEF InList

LEMMA MemoryInit == Init => Memory
<1> SUFFICES ASSUME Init PROVE Memory OBVIOUS
<1>1. head \in Nodes /\ next = [m \in Nodes |-> NULL] /\ allocated = {head} BY DEF Init
<1>2. \A t \in Threads : pc[t] = "wait" /\ ptr[t] = NULL /\ node[t] = NULL BY DEF Init
<1>3. Typed BY NotNodes DEF Init, Typed, Pointers
<1>4. Links = next BY <1>2, <1>3, AllSet DEF Typed, Threads
<1>5. Links[head] = NULL /\ NULL \notin Nodes BY <1>1, <1>4, NotNodes
<1>6. InList = {head} BY <1>1, <1>5, WalkedAlone DEF InList
<1>7. Chain BY <1>1, <1>5, <1>6 DEF Chain
<1>8. InList \subseteq allocated BY <1>1, <1>6
<1>9. (\A s \in Searchers : SearcherHolds(s)) /\ (\A i \in Inserters : InserterHolds(i))
        /\ \A d \in Deleters : DeleterHolds(d)
  BY <1>2 DEF Init, SearcherHolds, InserterHolds, DeleterHolds, Threads
<1>10. QED BY <1>3, <1>7, <1>8, <1>9 DEF Memory

\* A step that leaves list, ptr and node alone, and no thread enters or leaves a
\* label that the invariant speaks of.
LEMMA MemoryStays ==
  ASSUME Memory, Labels, UNCHANGED <<list, ptr, node, strayed>>,
         NEW t \in Threads, NEW l, pc' = [pc EXCEPT ![t] = l],
         t \in Searchers => l # "look" /\ (pc[t] # "look" \/ l = "post"),
         t \in Searchers => (ptr[t] = NULL /\ t \notin strayed) \/ l = "post",
         t \in Inserters => {pc[t], l} \cap {"walk", "link", "end"} = {},
         t \in Deleters => {pc[t], l} \cap {"free", "unlink", "initialize"} = {}
  PROVE  Memory'
<1>1. Links' = Links /\ InList' = InList
  <2>1. \A i \in Inserters : pc'[i] = "end" <=> pc[i] = "end" BY Kinds DEF Labels, Threads
  <2>2. QED BY <2>1, LinksStay DEF list
<1>2. (Unlinking' <=> Unlinking) /\ (Headless' <=> Headless)
  BY Kinds DEF Unlinking, Headless, Labels, Threads
<1>3. Typed' BY DEF Memory, Typed, list
<1>4. ~Headless' => Chain' BY <1>1, <1>2 DEF Memory, Chain, list
<1>5. ~Headless' /\ ~Unlinking' => InList' \subseteq allocated' BY <1>1, <1>2 DEF Memory, list
<1>6. \A s \in Searchers : SearcherHolds(s)' BY <1>1, Kinds DEF Memory, SearcherHolds, Labels, Threads
<1>7. \A i \in Inserters : InserterHolds(i)' BY <1>1, Kinds DEF Memory, InserterHolds, list, Labels, Threads
<1>8. \A d \in Deleters : DeleterHolds(d)' BY <1>1, Kinds DEF Memory, DeleterHolds, list, Labels, Threads
<1>9. QED BY <1>3, <1>4, <1>5, <1>6, <1>7, <1>8 DEF Memory

LEMMA MemorySearcher ==
  ASSUME Memory, Locks, NEW s \in Searchers, searcher(s)
  PROVE  Memory'
<1> USE DEF Goes
<1>1. s \in Threads /\ Labels /\ s \notin Inserters /\ s \notin Deleters /\ SearcherHolds(s) /\ Typed
  BY Kinds DEF Threads, Locks, Memory
<1>2. CASE WaitSearch(s)
  <2>1. /\ ptr[s] = NULL /\ s \notin strayed /\ UNCHANGED <<list, ptr, node, strayed>>
        /\ pc' = [pc EXCEPT ![s] = "find"] /\ pc[s] = "wait"
    BY <1>1, <1>2 DEF WaitSearch, SearcherHolds, local
  <2>2. QED BY ONLY <1>1, <2>1, Memory, MemoryStays
\* The searcher goes on, to a pointer that it may hold.
<1>3. ASSUME UNCHANGED <<list, node>>, pc[s] # "wait",
             \A r \in Searchers \ {s} : r \in strayed' <=> r \in strayed,
             NEW q \in Pointers, NEW l, ptr' = [ptr EXCEPT ![s] = q], pc' = [pc EXCEPT ![s] = l],
             l \notin {"look", "post"} => q = NULL /\ s \notin strayed',
             s \notin strayed' => q \in InList \cup {NULL}
      PROVE  Memory'
  <2>1. ~Headless /\ ~Unlinking /\ ~Headless' /\ ~Unlinking'
    BY <1>1, <1>3, SearcherAlone DEF Headless, Unlinking, Labels, Threads
  <2>2. \A t \in Threads \ {s} : pc'[t] = pc[t] /\ ptr'[t] = ptr[t] BY <1>1, <1>3 DEF Labels, Typed
  <2>3. Links' = Links /\ InList' = InList
    <3>1. \A i \in Inserters : pc'[i] = pc[i] BY <1>1, <2>2 DEF Threads
    <3>2. QED BY <1>3, <3>1, LinksStay DEF list
  <2>4. Typed' BY <1>1, <1>3 DEF Typed, list
  <2>5. Chain' BY <1>3, <2>1, <2>3 DEF Memory, Chain, list
  <2>6. InList' \subseteq allocated' BY <1>3, <2>1, <2>3 DEF Memory, list
  <2>7. \A r \in Searchers : SearcherHolds(r)'
    <3>1. SearcherHolds(s)'
      <4>1. pc'[s] = l /\ ptr'[s] = q BY <1>1, <1>3 DEF Labels, Typed
      <4>2. QED BY <1>3, <2>3, <4>1 DEF SearcherHolds
    <3>2. \A r \in Searchers \ {s} : SearcherHolds(r)'
      BY <1>3, <2>2, <2>3 DEF Memory, SearcherHolds, Threads
    <3>3. QED BY <3>1, <3>2
  <2>8. \A i \in Inserters : InserterHolds(i)'
    BY <1>1, <1>3, <2>2, <2>3 DEF Memory, InserterHolds, list, Threads
  <2>9. \A d \in Deleters : DeleterHolds(d)'
    BY <1>1, <1>3, <2>2, <2>3 DEF Memory, DeleterHolds, list, Threads
  <2>10. QED BY <2>1, <2>4, <2>5, <2>6, <2>7, <2>8, <2>9 DEF Memory
<1>4. CASE FindValue(s)
  <2>1. \A d \in Deleters : pc[d] # "initialize" BY <1>4, SearcherAlone DEF FindValue
  <2>2. head \in InList BY <2>1, InListClosed DEF Memory, Headless, Chain
  <2>3. /\ UNCHANGED <<list, node, strayed>> /\ pc[s] = "find" /\ ptr' = [ptr EXCEPT ![s] = head]
        /\ pc' = [pc EXCEPT ![s] = "look"] /\ head \in Pointers
    BY <1>4, <2>2, InListClosed DEF FindValue, Pointers
  <2>4. QED BY <1>3, <2>2, <2>3
<1>5. CASE Look(s)
  <2>1. pc[s] = "look" /\ UNCHANGED <<list, node>> BY <1>5 DEF Look
  <2>2. Chain /\ InList \subseteq allocated
    <3>1. \A d \in Deleters : pc[d] \notin {"initialize", "unlink"} BY <2>1, SearcherAlone
    <3>2. QED BY <3>1 DEF Memory, Headless, Unlinking
  <2>3. CASE pc' = [pc EXCEPT ![s] = "post"] /\ ptr' = ptr /\ strayed' = strayed
    <3>1. pc[s] = "look" /\ UNCHANGED <<list, ptr, node, strayed>> BY <2>1, <2>3
    <3>2. pc' = [pc EXCEPT ![s] = "post"] BY <2>3
    <3>3. QED BY ONLY <1>1, <3>1, <3>2, Memory, MemoryStays
  <2>4. CASE /\ ptr[s] \in allocated /\ ptr' = [ptr EXCEPT ![s] = next[ptr[s]]] /\ pc' = pc
             /\ strayed' = IF Unset(ptr[s]) /\ next[ptr[s]] # NULL THEN strayed \cup {s} ELSE strayed
    <3>1. ptr[s] \in Nodes /\ next[ptr[s]] \in Pointers BY <1>1, <2>4 DEF Typed
    <3>2. ASSUME s \notin strayed' PROVE next[ptr[s]] \in InList \cup {NULL}
      <4>1. s \notin strayed /\ (Unset(ptr[s]) => next[ptr[s]] = NULL) BY <2>4, <3>2
      <4>2. ptr[s] \in InList BY <1>1, <3>1, <4>1, NotNodes DEF SearcherHolds
      <4>3. next[ptr[s]] = NULL \/ next[ptr[s]] = Links[ptr[s]] BY <3>1, <4>1 DEF Links
      <4>4. QED BY <2>2, <4>2, <4>3, InListClosed DEF Chain
    <3>3. pc' = [pc EXCEPT ![s] = "look"] BY <1>1, <2>1, <2>4 DEF Labels
    <3>4. \A r \in Searchers \ {s} : r \in strayed' <=> r \in strayed BY <2>4
    <3>5. QED BY <1>3, <2>1, <2>4, <3>1, <3>2, <3>3, <3>4
  <2>5. CASE /\ ptr[s] \notin allocated \cup {NULL} /\ pc' = pc /\ strayed' = strayed
             /\ \E p \in Pointers : ptr' = [ptr EXCEPT ![s] = p]
    <3>1. s \in strayed BY <1>1, <2>2, <2>5 DEF SearcherHolds
    <3>2. pc' = [pc EXCEPT ![s] = "look"] BY <1>1, <2>1, <2>5 DEF Labels
    <3>3. QED BY <1>3, <2>1, <2>5, <3>1, <3>2
  <2>6. QED BY <1>5, <2>3, <2>4, <2>5 DEF Look
<1>6. CASE PostSearch(s)
  <2>1. /\ UNCHANGED <<list, node>> /\ pc[s] = "post" /\ ptr' = [ptr EXCEPT ![s] = NULL]
        /\ pc' = [pc EXCEPT ![s] = "wait"] /\ strayed' = strayed \ {s} /\ NULL \in Pointers
    BY <1>6 DEF PostSearch, Pointers
  <2>2. QED BY <1>3, <2>1
<1>7. QED BY <1>2, <1>4, <1>5, <1>6 DEF searcher

\* When an inserter is at the list, the list is whole, and it is the only one.
LEMMA InserterFinds ==
  ASSUME Memory, Locks, NEW i \in Inserters, pc[i] \notin {"wait", "unlock"}
  PROVE  /\ ~Headless /\ ~Unlinking /\ Chain /\ InList \subseteq allocated
         /\ \A j \in Inserters \ {i} : pc[j] \in {"wait", "unlock"} /\ ptr[j] = NULL /\ node[j] = NULL
         /\ pc[i] # "end" => Links = next
<1>1. \A d \in Deleters : pc[d] \in {"wait", "wait too"} BY InserterAlone
<1>2. \A j \in Inserters \ {i} : pc[j] \in {"wait", "unlock"} BY InserterAlone
<1>3. pc[i] # "end" => Links = next BY <1>2, AllSet DEF Memory, Typed
<1>4. QED BY <1>1, <1>2, <1>3 DEF Headless, Unlinking, Memory, InserterHolds

\* The new node is taken from outside the list, whatever is in it.
LEMMA NewNodeLinks ==
  ASSUME Memory, Locks, Locks', NEW i \in Inserters, NewNode(i)
  PROVE  /\ InList' = InList
         /\ \A m \in InList : Links'[m] = Links[m] /\ data'[m] = data[m]
<1>1. next \in [Nodes -> Pointers] /\ data \in [Nodes -> Values] /\ Labels /\ i \in Threads
  BY DEF Memory, Typed, Locks, Threads
<1>2. PICK n \in Available, v \in Values, g \in Pointers :
        data' = [data EXCEPT ![n] = v] /\ next' = [next EXCEPT ![n] = g]
  BY <1>1, NotNodes DEF NewNode, Available, Pointers
<1>3. n \notin InList /\ n \in Nodes BY DEF Available
<1>4. Links = next BY InserterFinds DEF NewNode
<1>5. Links' = next'
  <2>1. pc'[i] = "walk" BY <1>1 DEF NewNode, Goes, Labels
  <2>2. \A j \in Inserters \ {i} : pc'[j] = pc[j] BY <1>1 DEF NewNode, Goes, Labels, Threads
  <2>3. \A j \in Inserters : pc'[j] # "end" BY <2>1, <2>2, InserterFinds DEF NewNode
  <2>4. next' \in [Nodes -> Pointers] BY <1>1, <1>2, <1>3
  <2>5. QED BY <2>3, <2>4, AllSetNext
<1>6. \A m \in InList : Links'[m] = Links[m] /\ data'[m] = data[m]
  BY <1>1, <1>2, <1>3, <1>4, <1>5, InListClosed
<1>7. Walked(head, Links') = Walked(head, Links)
  <2>1. \A m \in Walked(head, Links) : Links'[m] = Links[m] BY <1>6 DEF InList
  <2>2. QED BY <2>1, WalkedSame
<1>8. head' = head BY DEF NewNode
<1>9. QED BY <1>6, <1>7, <1>8 DEF InList

\* The new node becomes the last of the list, whatever it holds.
LEMMA LinkLinks ==
  ASSUME Memory, Locks, NEW i \in Inserters, Link(i)
  PROVE  /\ ptr[i] \in InList /\ Links[ptr[i]] = NULL
         /\ node[i] \in allocated /\ node[i] \in Nodes /\ node[i] \notin InList
         /\ InList' = InList \cup {node[i]}
         /\ Links' = [Links EXCEPT ![ptr[i]] = node[i], ![node[i]] = NULL]
         /\ Walked(node[i], Links') = {node[i]}
         /\ \A m \in InList : Walked(m, Links') \subseteq Walked(m, Links) \cup {node[i]}
<1> DEFINE e == ptr[i]
           n == node[i]
<1>1. /\ pc[i] = "link" /\ next' = [next EXCEPT ![e] = n] /\ pc' = [pc EXCEPT ![i] = "end"]
      /\ head' = head /\ node' = node
  BY DEF Link, Goes, local
<1>2. Typed /\ InserterHolds(i) /\ Labels /\ i \in Threads BY DEF Memory, Locks, Threads
<1>3. Links = next BY <1>1, InserterFinds
<1>4. e \in InList /\ Links[e] = NULL /\ n \in allocated /\ n \in Nodes /\ n \notin InList /\ e \in Nodes
  BY <1>1, <1>2, <1>3, InListClosed DEF InserterHolds, Typed
<1>5. Links' = [Links EXCEPT ![e] = n, ![n] = NULL]
  <2>1. pc'[i] = "end" /\ \A j \in Inserters \ {i} : pc'[j] # "end"
    BY <1>1, <1>2, InserterFinds DEF Labels, Threads
  <2>2. \A m : Unset(m)' <=> m = n BY <1>1, <2>1 DEF Unset
  <2>3. Links' = [m \in Nodes |-> IF m = n THEN NULL ELSE next'[m]] BY <2>2 DEF Links
  <2>4. next' \in [Nodes -> Pointers] BY <1>1, <1>2, <1>4 DEF Typed, Pointers
  <2>5. QED BY <1>1, <1>2, <1>3, <1>4, <2>3, <2>4 DEF Typed
<1>6. /\ Walked(head, Links') = Walked(head, Links) \cup {n}
      /\ Walked(n, Links') = {n}
      /\ \A m \in Walked(head, Links) : Walked(m, Links') \subseteq Walked(m, Links) \cup {n}
  <2>1. head \in Nodes BY <1>1, InserterFinds DEF Chain
  <2>2. e \in Walked(head, Links) /\ n \notin Walked(head, Links) /\ Links[e] \notin Nodes /\ n \in Nodes
    BY <1>4, NotNodes DEF InList
  <2>3. Links'[e] = n /\ Links'[n] = NULL /\ \A m \in Nodes \ {e, n} : Links'[m] = Links[m]
    BY <1>2, <1>3, <1>4, <1>5 DEF Typed
  <2> HIDE DEF e, n
  <2>4. QED BY ONLY <2>1, <2>2, <2>3, Appended
<1>7. QED BY <1>1, <1>4, <1>5, <1>6 DEF InList

\* The last node, which nobody was to go on from, comes to hold what it stood for.
LEMMA TerminateLinks ==
  ASSUME Memory, Locks, NEW i \in Inserters, Terminate(i)
  PROVE  Links' = Links /\ InList' = InList
<1>1. /\ pc[i] = "end" /\ next' = [next EXCEPT ![node[i]] = NULL] /\ head' = head
      /\ pc' = [pc EXCEPT ![i] = "post"]
  BY DEF Terminate, Goes
<1>2. Typed /\ Labels /\ i \in Threads /\ node[i] \in Nodes
  BY <1>1 DEF Memory, Locks, Threads, InserterHolds, Typed
<1>3. \A j \in Inserters \ {i} : pc[j] # "end" BY <1>1, InserterFinds
<1>4. \A j \in Inserters : pc'[j] # "end" BY <1>1, <1>2, <1>3 DEF Labels, Threads
<1>5. next' \in [Nodes -> Pointers] BY <1>1, <1>2 DEF Typed, Pointers
<1>6. Links' = next' BY <1>4, <1>5, AllSetNext
<1>7. \A m : Unset(m) <=> m = node[i] BY <1>1, <1>3 DEF Unset
<1>8. Links = [m \in Nodes |-> IF m = node[i] THEN NULL ELSE next[m]] BY <1>7 DEF Links
<1>9. next' = [m \in Nodes |-> IF m = node[i] THEN NULL ELSE next[m]] BY <1>1, <1>2 DEF Typed
<1>10. Links' = Links BY <1>6, <1>8, <1>9
<1>11. QED BY <1>1, <1>10 DEF InList

\* A deleter finds every link set, and leaves it so.
LEMMA DeleterFinds ==
  ASSUME Memory, Locks, NEW d \in Deleters,
         pc[d] \in {"choose", "free", "unlink", "delete head", "initialize"},
         NEW l, pc' = [pc EXCEPT ![d] = l], next' \in [Nodes -> Pointers]
  PROVE  Links = next /\ Links' = next'
<1>1. \A i \in Inserters : pc[i] # "end" BY DeleterAlone
<1>2. \A i \in Inserters : pc'[i] # "end" BY <1>1, Kinds DEF Locks, Labels, Threads
<1>3. QED BY <1>1, <1>2, AllSet, AllSetNext DEF Memory, Typed

\* The node that was freed leaves the list, and no other does.
LEMMA UnlinkLinks ==
  ASSUME Memory, Locks, ~Headless, NEW d \in Deleters, Unlink(d)
  PROVE  LET v == next[ptr[d]]
         IN  /\ ptr[d] \in InList /\ v # ptr[d] /\ v \in InList /\ v \in Nodes /\ v \notin allocated
             /\ node[d] = next[v]
             /\ InList' = InList \ {v}
             /\ \A m \in InList : Links'[m] = IF m = ptr[d] THEN Links[v] ELSE Links[m]
<1> DEFINE p == ptr[d]
           v == next[p]
<1>1. /\ pc[d] = "unlink" /\ next' = [next EXCEPT ![p] = node[d]] /\ head' = head
      /\ pc' = [pc EXCEPT ![d] = "unlock"]
  BY DEF Unlink, Goes
<1>2. p \in InList /\ v \in Nodes /\ v \notin allocated /\ node[d] = next[v]
  BY <1>1 DEF Memory, DeleterHolds
<1>3. Chain /\ Typed BY DEF Memory
<1>4. next' \in [Nodes -> Pointers] BY <1>1, <1>2, <1>3 DEF Typed
<1>5. Links = next /\ Links' = next' BY <1>1, <1>4, DeleterFinds
<1>6. InList' = InList \ {v} /\ v # p /\ v \in InList
  <2>1. head \in Nodes /\ next \in [Nodes -> Pointers] BY <1>3 DEF Chain, Typed
  <2>2. p \in Walked(head, next) /\ next[p] \in Nodes BY <1>2, <1>5 DEF InList
  <2>3. /\ \A m \in Walked(head, next) : next[m] # head
        /\ \A m, n \in Walked(head, next) : next[m] = next[n] /\ next[m] \in Nodes => m = n
    BY <1>3, <1>5, NotNodes DEF Chain, InList
  <2>4. next' = [next EXCEPT ![p] = next[next[p]]] BY <1>1, <1>2
  <2> HIDE DEF p
  <2>5. \A g : g = [next EXCEPT ![p] = next[next[p]]] =>
               /\ Walked(head, g) = Walked(head, next) \ {next[p]} /\ next[p] # p
               /\ next[p] \in Walked(head, next)
    BY ONLY <2>1, <2>2, <2>3, Removed
  <2>6. QED BY <1>1, <1>5, <2>4, <2>5 DEF InList
<1>7. \A m \in InList : Links'[m] = IF m = p THEN Links[v] ELSE Links[m]
  BY <1>1, <1>2, <1>3, <1>5, InListClosed DEF Typed
<1>8. QED BY <1>2, <1>6, <1>7

\* An inserter's step on the list leaves the deleters where they are.
LEMMA NoDeleterHolds ==
  ASSUME Locks, Locks', NEW i \in Inserters, pc[i] \notin {"wait", "unlock"}, pc'[i] \notin {"wait", "unlock"}
  PROVE  /\ ~Headless /\ ~Unlinking /\ ~Headless' /\ ~Unlinking'
         /\ \A d \in Deleters : DeleterHolds(d)'
<1>1. \A d \in Deleters : pc[d] \in {"wait", "wait too"} /\ pc'[d] \in {"wait", "wait too"}
  <2>1. \A d \in Deleters : pc[d] \in {"wait", "wait too"} BY InserterAlone
  <2>2. \A d \in Deleters : pc'[d] \in {"wait", "wait too"}
    BY Kinds DEF Locks, Labels, InsertLock, HasInsert, Threads, SearcherLabels, InserterLabels, DeleterLabels
  <2>3. QED BY <2>1, <2>2
<1>2. QED BY <1>1 DEF Headless, Unlinking, DeleterHolds

LEMMA MemoryInserter ==
  ASSUME Memory, Locks, Locks', NEW i \in Inserters, inserter(i)
  PROVE  Memory'
<1> USE DEF Goes
<1>1. i \in Threads /\ Labels /\ i \notin Searchers /\ i \notin Deleters /\ InserterHolds(i) /\ Typed
  BY Kinds DEF Threads, Locks, Memory
<1>2. ASSUME UNCHANGED <<list, ptr, node, strayed>>,
             \E l \in InserterLabels : pc' = [pc EXCEPT ![i] = l]
                                       /\ {pc[i], l} \cap {"walk", "link", "end"} = {}
      PROVE  Memory'
  <2>1. PICK l \in InserterLabels : pc' = [pc EXCEPT ![i] = l]
                                    /\ {pc[i], l} \cap {"walk", "link", "end"} = {}
    BY <1>2
  <2>2. QED BY ONLY <1>1, <1>2, <2>1, Memory, MemoryStays
<1>3. CASE WaitInsert(i) BY <1>3, <1>2 DEF WaitInsert, local, InserterLabels
<1>4. CASE LockInsert(i) BY <1>4, <1>2 DEF LockInsert, local, InserterLabels
<1>5. CASE PostInsert(i) BY <1>5, <1>2 DEF PostInsert, local, InserterLabels
<1>6. CASE UnlockInsert(i) BY <1>6, <1>2 DEF UnlockInsert, local, InserterLabels
<1>7. ASSUME pc[i] \notin {"wait", "unlock"}
      PROVE  /\ Chain /\ InList \subseteq allocated /\ InList \subseteq Nodes
             /\ \A j \in Inserters \ {i} : pc[j] \in {"wait", "unlock"} /\ ptr[j] = NULL /\ node[j] = NULL
             /\ pc[i] # "end" => Links = next
  BY <1>7, InserterFinds, InListClosed
\* While it is at the list, its own part of the invariant and the list are left to see to.
<1>8. ASSUME pc[i] \notin {"wait", "unlock"}, NEW l \in {"walk", "link", "end", "post"},
             pc' = [pc EXCEPT ![i] = l], UNCHANGED strayed,
             \A t \in Threads \ {i} : ptr'[t] = ptr[t] /\ node'[t] = node[t],
             Typed', Chain', InList \subseteq InList', InList' \subseteq allocated', InserterHolds(i)'
      PROVE  Memory'
  <2>1. pc'[i] = l /\ \A t \in Threads \ {i} : pc'[t] = pc[t] BY <1>1, <1>8 DEF Labels
  <2>2. ~Headless' /\ ~Unlinking' /\ \A d \in Deleters : DeleterHolds(d)'
    BY <1>8, <2>1, NoDeleterHolds
  <2>3. \A s \in Searchers : SearcherHolds(s)'
    BY <1>1, <1>8, <2>1 DEF Memory, SearcherHolds, Threads
  <2>4. \A j \in Inserters \ {i} : InserterHolds(j)'
    <3>1. \A j \in Inserters \ {i} : pc'[j] \in {"wait", "unlock"} /\ ptr'[j] = NULL /\ node'[j] = NULL
      BY <1>7, <1>8, <2>1 DEF Threads
    <3>2. QED BY <3>1 DEF InserterHolds
  <2>5. QED BY <1>8, <2>2, <2>3, <2>4 DEF Memory
<1>9. CASE NewNode(i)
  <2>1. PICK n \in Available, v \in Values, g \in Pointers :
          /\ allocated' = allocated \cup {n} /\ data' = [data EXCEPT ![n] = v]
          /\ next' = [next EXCEPT ![n] = g] /\ node' = [node EXCEPT ![i] = n]
    BY <1>1, <1>9, NotNodes DEF NewNode, Available, Typed, Pointers
  <2>2. n \in Nodes /\ n \notin InList BY DEF Available
  <2>3. /\ pc[i] = "malloc" /\ pc' = [pc EXCEPT ![i] = "walk"] /\ head' = head
        /\ ptr' = [ptr EXCEPT ![i] = head] /\ UNCHANGED strayed
    BY <1>9 DEF NewNode
  <2>4. InList' = InList /\ \A m \in InList : Links'[m] = Links[m] BY <1>9, NewNodeLinks
  <2>5. head \in InList BY <1>7, <2>3, InListClosed DEF Chain
  <2>6. Typed' BY <1>1, <2>1, <2>2, <2>3, <2>5, InListClosed DEF Typed, Pointers
  <2>7. Chain'
    <3>1. Chain BY <1>7, <2>3
    <3>2. QED BY <2>3, <2>4, <3>1 DEF Chain
  <2>8. InList' \subseteq allocated' BY <1>7, <2>1, <2>3, <2>4
  <2>9. InserterHolds(i)'
    <3>1. pc'[i] = "walk" /\ ptr'[i] = head /\ node'[i] = n BY <1>1, <2>1, <2>3 DEF Labels, Typed
    <3>2. QED BY <3>1, <2>1, <2>2, <2>4, <2>5 DEF InserterHolds
  <2>10. \A t \in Threads \ {i} : ptr'[t] = ptr[t] /\ node'[t] = node[t] BY <1>1, <2>1, <2>3 DEF Typed
  <2>11. QED BY <1>8, <2>3, <2>4, <2>6, <2>7, <2>8, <2>9, <2>10
<1>10. CASE Walk(i)
  <2>1. pc[i] = "walk" /\ ptr[i] \in InList /\ UNCHANGED <<list, node, strayed>>
    BY <1>1, <1>10 DEF Walk, InserterHolds
  <2>2. \E q \in InList, l \in {"walk", "link"} :
          /\ ptr' = [ptr EXCEPT ![i] = q] /\ pc' = [pc EXCEPT ![i] = l]
          /\ l = "link" => next[q] = NULL
    <3>1. CASE next[ptr[i]] # NULL /\ ptr' = [ptr EXCEPT ![i] = next[ptr[i]]] /\ pc' = pc
      <4>1. next[ptr[i]] \in InList BY <1>7, <2>1, <3>1, InListClosed DEF Chain
      <4>2. pc' = [pc EXCEPT ![i] = "walk"] BY <1>1, <2>1, <3>1 DEF Labels
      <4>3. QED BY <4>1, <4>2, <3>1
    <3>2. CASE next[ptr[i]] = NULL /\ pc' = [pc EXCEPT ![i] = "link"] /\ ptr' = ptr
      <4>1. ptr' = [ptr EXCEPT ![i] = ptr[i]] BY <1>1, <3>2 DEF Typed
      <4>2. QED BY <2>1, <3>2, <4>1
    <3>3. QED BY <1>10, <3>1, <3>2 DEF Walk
  <2>3. PICK q \in InList, l \in {"walk", "link"} :
          /\ ptr' = [ptr EXCEPT ![i] = q] /\ pc' = [pc EXCEPT ![i] = l]
          /\ l = "link" => next[q] = NULL
    BY <2>2
  <2>4. \A t \in Threads \ {i} : ptr'[t] = ptr[t] /\ node'[t] = node[t] /\ pc'[t] = pc[t]
    BY <1>1, <2>1, <2>3 DEF Typed, Labels
  <2>5. pc'[i] = l /\ ptr'[i] = q /\ node'[i] = node[i] BY <1>1, <2>1, <2>3 DEF Labels, Typed
  <2>6. Links' = Links /\ InList' = InList
    <3>1. \A j \in Inserters : pc'[j] = "end" <=> pc[j] = "end" BY <2>1, <2>4, <2>5 DEF Threads
    <3>2. QED BY <2>1, <3>1, LinksStay DEF list
  <2>7. Typed' BY <1>1, <2>1, <2>3, InListClosed DEF Typed, list, Pointers
  <2>8. Chain'
    <3>1. Chain BY <1>7, <2>1
    <3>2. QED BY <2>1, <2>6, <3>1 DEF Chain, list
  <2>9. InList' \subseteq allocated' BY <1>7, <2>1, <2>6 DEF list
  <2>10. InserterHolds(i)' BY <1>1, <2>1, <2>3, <2>5, <2>6 DEF InserterHolds, list
  <2>11. QED BY <1>8, <2>1, <2>3, <2>4, <2>6, <2>7, <2>8, <2>9, <2>10
<1>11. CASE Link(i)
  <2> DEFINE e == ptr[i]
             n == node[i]
  <2>1. /\ pc[i] = "link" /\ next' = [next EXCEPT ![e] = n] /\ pc' = [pc EXCEPT ![i] = "end"]
        /\ UNCHANGED <<head, data, allocated, ptr, node, strayed>>
    BY <1>11 DEF Link, local
  <2>2. /\ e \in InList /\ Links[e] = NULL /\ n \in allocated /\ n \in Nodes /\ n \notin InList
        /\ InList' = InList \cup {n}
    BY <1>11, LinkLinks
  <2>3. Chain /\ Links = next /\ InList \subseteq allocated /\ InList \subseteq Nodes /\ NULL \notin Nodes
    BY <1>7, <2>1, NotNodes
  <2>4. \A m \in InList' : Links'[m] = IF m = n THEN NULL ELSE IF m = e THEN n ELSE Links[m]
    <3>1. Links' = [Links EXCEPT ![e] = n, ![n] = NULL] BY <1>11, LinkLinks
    <3>2. QED BY <1>1, <2>2, <2>3, <3>1 DEF Typed
  <2>5. Typed' BY <1>1, <2>1, <2>2 DEF Typed, Pointers
  <2>6. Chain'
    <3>1. head \in InList /\ head \in Nodes /\ n # head BY <2>2, <2>3, InListClosed DEF Chain
    <3>2. \A m \in InList : m # e => Links[m] \in InList
      BY <2>2, <2>3, InListClosed DEF Chain
    <3>3. \A m \in InList' : Links'[m] \in (Nodes \ {head}) \cup {NULL}
      <4>1. \A m \in InList : Links[m] \in (Nodes \ {head}) \cup {NULL} BY <2>3 DEF Chain
      <4>2. QED BY ONLY <2>2, <2>4, <3>1, <4>1
    <3>4. n \in InList' /\ Links'[n] = NULL BY <2>2, <2>4
    <3>5. \A m, k \in InList' : Links'[m] = Links'[k] => m = k
      <4>1. \A m, k \in InList : m # e /\ k # e /\ Links[m] = Links[k] => m = k BY <2>3 DEF Chain
      <4>2. \A m \in InList : m # e => Links'[m] = Links[m] /\ Links[m] \in InList BY <2>2, <2>4, <3>2
      <4>3. Links'[e] = n /\ e # n BY <2>2, <2>4
      <4>4. QED BY ONLY <2>2, <2>3, <3>4, <4>1, <4>2, <4>3
    <3>6. QED BY <2>1, <3>1, <3>3, <3>4, <3>5 DEF Chain
  <2>7. InList' \subseteq allocated' BY <2>1, <2>2, <2>3
  <2>8. InserterHolds(i)'
    <3>1. pc'[i] = "end" /\ ptr'[i] = e /\ node'[i] = n BY <1>1, <2>1 DEF Labels
    <3>2. QED BY <2>1, <2>2, <3>1 DEF InserterHolds
  <2>9. QED BY <1>8, <2>1, <2>2, <2>5, <2>6, <2>7, <2>8
<1>12. CASE Terminate(i)
  <2>1. /\ pc[i] = "end" /\ next' = [next EXCEPT ![node[i]] = NULL] /\ pc' = [pc EXCEPT ![i] = "post"]
        /\ ptr' = [ptr EXCEPT ![i] = NULL] /\ node' = [node EXCEPT ![i] = NULL]
        /\ UNCHANGED <<head, data, allocated, strayed>>
    BY <1>12 DEF Terminate
  <2>2. Links' = Links /\ InList' = InList BY <1>12, TerminateLinks
  <2>3. Chain /\ InList \subseteq allocated BY <1>7, <2>1
  <2>4. Typed' BY <1>1, <2>1 DEF Typed, Pointers
  <2>5. Chain' BY <2>1, <2>2, <2>3 DEF Chain
  <2>6. InserterHolds(i)'
    <3>1. pc'[i] = "post" /\ ptr'[i] = NULL /\ node'[i] = NULL BY <1>1, <2>1 DEF Labels, Typed
    <3>2. QED BY <3>1 DEF InserterHolds
  <2>7. \A t \in Threads \ {i} : ptr'[t] = ptr[t] /\ node'[t] = node[t] BY <1>1, <2>1 DEF Typed
  <2>8. QED BY <1>8, <2>1, <2>2, <2>3, <2>4, <2>5, <2>6, <2>7
<1>13. QED BY <1>3, <1>4, <1>5, <1>6, <1>9, <1>10, <1>11, <1>12 DEF inserter

LEMMA MemoryDeleter ==
  ASSUME Memory, Locks, NEW d \in Deleters, deleter(d)
  PROVE  Memory'
<1> USE DEF Goes
<1>1. d \in Threads /\ Labels /\ d \notin Searchers /\ d \notin Inserters /\ DeleterHolds(d) /\ Typed
  BY Kinds DEF Threads, Locks, Memory
<1>2. ASSUME UNCHANGED <<list, ptr, node, strayed>>,
             \E l \in DeleterLabels : pc' = [pc EXCEPT ![d] = l]
                                      /\ {pc[d], l} \cap {"free", "unlink", "initialize"} = {}
      PROVE  Memory'
  <2>1. PICK l \in DeleterLabels : pc' = [pc EXCEPT ![d] = l]
                                   /\ {pc[d], l} \cap {"free", "unlink", "initialize"} = {}
    BY <1>2
  <2>2. QED BY ONLY <1>1, <1>2, <2>1, Memory, MemoryStays
<1>3. CASE WaitSearchers(d) BY <1>3, <1>2 DEF WaitSearchers, local, DeleterLabels
<1>4. CASE WaitInserters(d) BY <1>4, <1>2 DEF WaitInserters, local, DeleterLabels
<1>5. CASE LockDelete(d) BY <1>5, <1>2 DEF LockDelete, local, DeleterLabels
<1>6. CASE PostSearchers(d) BY <1>6, <1>2 DEF PostSearchers, local, DeleterLabels
<1>7. CASE PostInserters(d) BY <1>7, <1>2 DEF PostInserters, local, DeleterLabels
<1>8. CASE UnlockDelete(d) BY <1>8, <1>2 DEF UnlockDelete, local, DeleterLabels
\* The others wait, and hold nothing, before such a step and after it.
<1>9. ASSUME pc[d] \in {"choose", "free", "unlink", "delete head", "initialize"},
             NEW l \in DeleterLabels, pc' = [pc EXCEPT ![d] = l], UNCHANGED strayed,
             \A t \in Threads \ {d} : ptr'[t] = ptr[t] /\ node'[t] = node[t],
             Typed', l # "initialize" => Chain',
             l \notin {"initialize", "unlink"} => InList' \subseteq allocated',
             DeleterHolds(d)'
      PROVE  Memory'
  <2>1. \A s \in Searchers : pc[s] = "wait" BY <1>9, DeleterAlone
  <2>2. \A i \in Inserters : pc[i] \in {"wait", "unlock"} BY <1>9, DeleterAlone
  <2>3. \A e \in Deleters \ {d} : pc[e] \in {"wait", "wait too", "post too"} BY <1>9, DeleterAlone
  <2>4. pc'[d] = l /\ \A t \in Threads \ {d} : pc'[t] = pc[t] BY <1>1, <1>9 DEF Labels
  <2>5. \A s \in Searchers : pc'[s] = "wait" /\ ptr'[s] = NULL /\ s \notin strayed'
    BY <1>1, <1>9, <2>1, <2>4 DEF Memory, SearcherHolds, Threads
  <2>6. \A i \in Inserters : pc'[i] \in {"wait", "unlock"} /\ ptr'[i] = NULL /\ node'[i] = NULL
    BY <1>1, <1>9, <2>2, <2>4 DEF Memory, InserterHolds, Threads
  <2>7. \A e \in Deleters \ {d} : pc'[e] \in {"wait", "wait too", "post too"} BY <2>3, <2>4 DEF Threads
  <2>8. (\A s \in Searchers : SearcherHolds(s)') /\ (\A i \in Inserters : InserterHolds(i)')
          /\ \A e \in Deleters : DeleterHolds(e)'
    BY <1>9, <2>5, <2>6, <2>7 DEF SearcherHolds, InserterHolds, DeleterHolds
  <2>9. (Headless' <=> l = "initialize") /\ (Unlinking' <=> l = "unlink")
    BY <2>4, <2>7 DEF Headless, Unlinking
  <2>10. QED BY <1>9, <2>8, <2>9 DEF Memory
\* Before it the list is whole, but for what the deleter has done to it.
<1>10. ASSUME pc[d] \in {"choose", "free", "unlink", "delete head"}
       PROVE  Chain /\ (pc[d] # "unlink" => InList \subseteq allocated)
  <2>1. \A e \in Deleters : pc[e] # "initialize" /\ (pc[d] # "unlink" => pc[e] # "unlink")
    BY <1>10, DeleterAlone
  <2>2. QED BY <2>1 DEF Memory, Headless, Unlinking
<1>11. CASE Choose(d)
  <2>1. CASE pc' = [pc EXCEPT ![d] = "delete head"] /\ ptr' = ptr
    BY <1>11, <1>2, <2>1 DEF Choose, DeleterLabels
  <2>2. CASE \E n \in {m \in InList : next[m] \in Nodes} :
               ptr' = [ptr EXCEPT ![d] = n] /\ pc' = [pc EXCEPT ![d] = "free"]
    <3>1. PICK n \in InList : /\ next[n] \in Nodes /\ ptr' = [ptr EXCEPT ![d] = n]
                              /\ pc' = [pc EXCEPT ![d] = "free"]
      BY <2>2
    <3>2. UNCHANGED <<list, node, strayed>> /\ pc[d] = "choose" BY <1>11 DEF Choose
    <3>3. pc'[d] = "free" /\ ptr'[d] = n BY <1>1, <3>1 DEF Labels, Typed
    <3>4. \A t \in Threads \ {d} : ptr'[t] = ptr[t] /\ node'[t] = node[t] /\ pc'[t] = pc[t]
      BY <1>1, <3>1, <3>2 DEF Typed, Labels
    <3>5. Links' = Links /\ InList' = InList
      <4>1. \A i \in Inserters : pc'[i] = pc[i] BY <1>1, <3>4 DEF Threads
      <4>2. QED BY <1>1, <3>2, <3>4, <4>1, LinksStay DEF list
    <3>6. Typed' BY <1>1, <3>1, <3>2, InListClosed DEF Typed, list, Pointers
    <3>7. Chain' /\ InList' \subseteq allocated' BY <1>10, <3>2, <3>5 DEF Chain, list
    <3>8. DeleterHolds(d)' BY <3>1, <3>2, <3>3, <3>5 DEF DeleterHolds, list
    <3>9. QED BY <1>9, <3>1, <3>2, <3>4, <3>6, <3>7, <3>8 DEF DeleterLabels
  <2>3. QED BY <1>11, <2>1, <2>2 DEF Choose
<1>12. CASE Free(d)
  <2> DEFINE p == ptr[d]
             v == next[p]
  <2>1. /\ pc[d] = "free" /\ pc' = [pc EXCEPT ![d] = "unlink"]
        /\ node' = [node EXCEPT ![d] = next[v]] /\ allocated' = allocated \ {v}
        /\ UNCHANGED <<head, next, data, ptr, strayed>>
    BY <1>12 DEF Free
  <2>2. Links = next /\ Links' = next' BY <1>1, <2>1, DeleterFinds DEF Typed
  <2>3. p \in InList /\ v \in Nodes /\ v \in InList BY <1>1, <2>1, <2>2, InListClosed DEF DeleterHolds
  <2>4. pc'[d] = "unlink" /\ node'[d] = next[v] BY <1>1, <2>1 DEF Labels, Typed
  <2>5. \A t \in Threads \ {d} : ptr'[t] = ptr[t] /\ node'[t] = node[t] BY <1>1, <2>1 DEF Typed
  <2>6. InList' = InList BY <2>1, <2>2 DEF InList
  <2>7. Typed' BY <1>1, <2>1, <2>3 DEF Typed
  <2>8. Chain /\ InList \subseteq allocated BY <1>10, <2>1
  <2>9. Chain' BY <2>1, <2>2, <2>6, <2>8 DEF Chain
  <2>10. DeleterHolds(d)' BY <2>1, <2>3, <2>4, <2>6, <2>8 DEF DeleterHolds
  <2>11. QED BY <1>9, <2>1, <2>5, <2>7, <2>9, <2>10 DEF DeleterLabels
<1>13. CASE Unlink(d)
  <2> DEFINE p == ptr[d]
             v == next[p]
  <2>1. /\ pc[d] = "unlink" /\ pc' = [pc EXCEPT ![d] = "unlock"]
        /\ next' = [next EXCEPT ![p] = node[d]]
        /\ ptr' = [ptr EXCEPT ![d] = NULL] /\ node' = [node EXCEPT ![d] = NULL]
        /\ UNCHANGED <<head, data, allocated, strayed>>
    BY <1>13 DEF Unlink
  <2>2. p \in InList /\ v \in Nodes /\ node[d] = next[v] /\ InList \ {v} \subseteq allocated
    BY <1>1, <2>1 DEF DeleterHolds
  <2>3. pc'[d] = "unlock" BY <1>1, <2>1 DEF Labels
  <2>4. \A t \in Threads \ {d} : ptr'[t] = ptr[t] /\ node'[t] = node[t] BY <1>1, <2>1 DEF Typed
  <2>5. ~Headless /\ Chain
    <3>1. \A e \in Deleters : pc[e] # "initialize" BY <2>1, DeleterAlone
    <3>2. QED BY <1>10, <2>1, <3>1 DEF Headless
  <2>6. InList' = InList \ {v} /\ v # p /\ v \in InList BY <1>13, <2>5, UnlinkLinks
  <2>7. \A m \in InList : Links'[m] = IF m = p THEN Links[v] ELSE Links[m] BY <1>13, <2>5, UnlinkLinks
  <2>8. Typed' BY <1>1, <2>1, <2>2, NotNodes DEF Typed, Pointers
  <2>9. Links[p] = v
    <3>1. next' \in [Nodes -> Pointers] BY <2>8 DEF Typed
    <3>2. QED BY <2>1, <3>1, DeleterFinds
  <2>10. Chain'
    <3>1. \A m \in InList' : Links'[m] \in (Nodes \ {head}) \cup {NULL} BY <2>5, <2>6, <2>7 DEF Chain
    <3>2. \A m, k \in InList' : Links'[m] = Links'[k] => m = k
      <4> SUFFICES ASSUME NEW m \in InList', NEW k \in InList', Links'[m] = Links'[k] PROVE m = k
        OBVIOUS
      <4>1. m \in InList /\ k \in InList /\ m # v /\ k # v BY <2>6
      <4>2. CASE m = p /\ k # p BY <2>5, <2>6, <2>7, <4>1, <4>2 DEF Chain
      <4>3. CASE m # p /\ k = p BY <2>5, <2>6, <2>7, <4>1, <4>3 DEF Chain
      <4>4. CASE m # p /\ k # p BY <2>5, <2>6, <2>7, <4>1, <4>4 DEF Chain
      <4>5. QED BY <4>2, <4>3, <4>4
    <3>3. \E m \in InList' : Links'[m] = NULL
      <4>1. PICK m \in InList : Links[m] = NULL BY <2>5 DEF Chain
      <4>2. m # p BY <2>2, <2>9, <4>1, NotNodes
      <4>3. CASE m = v
        <5>1. p \in InList' /\ Links'[p] = NULL BY <2>2, <2>6, <2>7, <4>1, <4>3
        <5>2. QED BY <5>1
      <4>4. CASE m # v
        <5>1. m \in InList' /\ Links'[m] = NULL BY <2>6, <2>7, <4>1, <4>2, <4>4
        <5>2. QED BY <5>1
      <4>5. QED BY <4>3, <4>4
    <3>4. QED BY <2>1, <2>5, <3>1, <3>2, <3>3 DEF Chain
  <2>11. InList' \subseteq allocated' BY <2>1, <2>2, <2>6
  <2>12. DeleterHolds(d)' BY <2>3 DEF DeleterHolds
  <2>13. QED BY <1>9, <2>1, <2>4, <2>8, <2>10, <2>11, <2>12 DEF DeleterLabels
<1>14. CASE DeleteHead(d)
  <2>1. /\ pc[d] = "delete head" /\ pc' = [pc EXCEPT ![d] = "initialize"]
        /\ allocated' = allocated \ {head} /\ UNCHANGED <<next, data, ptr, node, strayed>>
    BY <1>14 DEF DeleteHead, local
  <2>2. pc'[d] = "initialize" BY <1>1, <2>1 DEF Labels
  <2>3. Typed' BY <1>1, <2>1 DEF Typed
  <2>4. DeleterHolds(d)' BY <2>2 DEF DeleterHolds
  <2>5. QED BY <1>9, <2>1, <2>3, <2>4 DEF DeleterLabels
<1>15. CASE InitializeList(d)
  <2>1. PICK n \in Available, v \in Values :
          /\ head' = n /\ next' = [next EXCEPT ![n] = NULL] /\ data' = [data EXCEPT ![n] = v]
          /\ allocated' = allocated \cup {n}
    BY <1>15 DEF InitializeList
  <2>2. pc[d] = "initialize" /\ pc' = [pc EXCEPT ![d] = "unlock"] /\ UNCHANGED <<ptr, node, strayed>>
    BY <1>15 DEF InitializeList, local
  <2>3. pc'[d] = "unlock" /\ n \in Nodes BY <1>1, <2>2 DEF Labels, Available
  <2>4. Typed' BY <1>1, <2>1, <2>2, <2>3 DEF Typed, Pointers
  <2>5. Links' = next'
    <3>1. next' \in [Nodes -> Pointers] BY <2>4 DEF Typed
    <3>2. QED BY <2>2, <3>1, DeleterFinds
  <2>6. Links'[n] = NULL /\ NULL \notin Nodes BY <1>1, <2>1, <2>3, <2>5, NotNodes DEF Typed
  <2>7. InList' = {n}
    <3>1. Walked(n, Links') = {n} BY <2>3, <2>6, WalkedAlone
    <3>2. QED BY <2>1, <3>1 DEF InList
  <2>8. Chain' BY <2>1, <2>3, <2>6, <2>7 DEF Chain
  <2>9. InList' \subseteq allocated' BY <2>1, <2>7
  <2>10. DeleterHolds(d)' BY <2>3 DEF DeleterHolds
  <2>11. QED BY <1>9, <2>2, <2>4, <2>8, <2>9, <2>10 DEF DeleterLabels
<1>16. QED
  BY <1>3, <1>4, <1>5, <1>6, <1>7, <1>8, <1>11, <1>12, <1>13, <1>14, <1>15 DEF deleter

LEMMA MemoryStep == Locks /\ Locks' /\ Memory /\ [Next]_vars => Memory'
<1> SUFFICES ASSUME Locks, Locks', Memory, [Next]_vars PROVE Memory' OBVIOUS
<1>1. CASE Next BY <1>1, MemorySearcher, MemoryInserter, MemoryDeleter DEF Next
<1>2. CASE UNCHANGED vars
  <2>1. UNCHANGED <<head, next, data, allocated, pc, ptr, node, strayed>> BY <1>2 DEF vars, list, local
  <2>2. Links' = Links /\ InList' = InList BY <2>1, LinksStay
  <2>3. (Headless' <=> Headless) /\ (Unlinking' <=> Unlinking) BY <2>1 DEF Headless, Unlinking
  <2>4. Typed' /\ (Chain => Chain') BY <2>1, <2>2 DEF Memory, Typed, Chain
  <2>5. (\A s \in Searchers : SearcherHolds(s)') /\ (\A i \in Inserters : InserterHolds(i)')
          /\ \A d \in Deleters : DeleterHolds(d)'
    BY <2>1, <2>2 DEF Memory, SearcherHolds, InserterHolds, DeleterHolds
  <2>6. QED BY <2>1, <2>2, <2>3, <2>4, <2>5 DEF Memory
<1>3. QED BY <1>1, <1>2

\* Whatever the threads do and whatever malloc leaves in its memory, the list is one
\* chain from head, and each thread holds of it what its place in the program needs:
\* but for searchers that have followed a link that was not set.
THEOREM MemoryHolds == Spec => [](Locks /\ Memory)
<1>1. Spec => []Locks BY LocksHold, PTL
<1>2. Init => Memory BY MemoryInit
<1>3. Locks /\ Locks' /\ Memory /\ [Next]_vars => Memory' BY MemoryStep
<1>4. QED BY <1>1, <1>2, <1>3, PTL DEF Spec

\* No thread holds a pointer to freed memory, whatever malloc leaves in what it
\* gives: but for searchers that have followed a link that was not set.
THEOREM NothingDangles == Spec => []NoDanglingPointer
<1>1. ASSUME Locks, Memory PROVE NoDanglingPointer
  <2>1. ASSUME NEW d \in Deleters, pc[d] = "free"
        PROVE  ptr[d] \in allocated /\ next[ptr[d]] \in allocated
    <3>1. \A e \in Deleters : pc[e] \notin {"unlink", "initialize"} BY <1>1, <2>1, DeleterAlone
    <3>2. InList \subseteq allocated BY <1>1, <3>1 DEF Memory, Headless, Unlinking
    <3>3. \A i \in Inserters : pc[i] # "end" BY <1>1, <2>1, DeleterAlone
    <3>4. Links = next BY <1>1, <3>3, AllSet DEF Memory, Typed
    <3>5. ptr[d] \in InList /\ next[ptr[d]] \in InList
      BY <1>1, <2>1, <3>4, InListClosed DEF Memory, DeleterHolds
    <3>6. QED BY <3>2, <3>5
  <2>2. ASSUME NEW t \in (Searchers \ strayed) \cup Inserters, ptr[t] # NULL
        PROVE  ptr[t] \in allocated
    <3>1. CASE t \in Searchers \ strayed
      <4>1. pc[t] # "wait" /\ ptr[t] \in InList BY <1>1, <2>2, <3>1 DEF Memory, SearcherHolds
      <4>2. \A e \in Deleters : pc[e] \notin {"unlink", "initialize"} BY <1>1, <3>1, <4>1, SearcherAlone
      <4>3. QED BY <1>1, <4>1, <4>2 DEF Memory, Headless, Unlinking
    <3>2. CASE t \in Inserters
      <4>1. pc[t] \notin {"wait", "unlock"} /\ ptr[t] \in InList BY <1>1, <2>2, <3>2 DEF Memory, InserterHolds
      <4>2. QED BY <1>1, <3>2, <4>1, InserterFinds
    <3>3. QED BY <2>2, <3>1, <3>2
  <2>3. QED BY <2>1, <2>2 DEF NoDanglingPointer
<1>2. QED BY <1>1, MemoryHolds, PTL

\* Outside a deletion the list runs from head to one last node, through nodes that
\* have their memory, whatever malloc leaves in it: and a deleter finds every link
\* set, so that sizeOfList() comes to its end and is not 0.
THEOREM ListIsWhole == Spec => []ListWhole
<1>1. ASSUME Memory, \A d \in Deleters : pc[d] \notin {"unlink", "initialize"}
      PROVE  /\ head \in Nodes /\ InList \subseteq allocated
             /\ Cardinality({n \in InList : Links[n] = NULL}) = 1
             /\ \A m, n \in InList : Links[m] = Links[n] => m = n
  <2>1. Chain /\ InList \subseteq allocated BY <1>1 DEF Memory, Headless, Unlinking
  <2>2. PICK e \in InList : Links[e] = NULL BY <2>1 DEF Chain
  <2>3. \A n \in InList : Links[n] = NULL => n = e BY <2>1, <2>2 DEF Chain
  <2>4. {n \in InList : Links[n] = NULL} = {e} BY <2>2, <2>3
  <2>5. Cardinality({e}) = 1 BY FS_Singleton
  <2>6. QED BY <2>1, <2>4, <2>5 DEF Chain
<1>2. ASSUME Locks, NEW d \in Deleters, pc[d] = "choose", NEW n PROVE ~Unset(n)
  BY <1>2, DeleterAlone DEF Unset
<1>3. Locks /\ Memory => ListWhole BY <1>1, <1>2 DEF ListWhole
<1>4. QED BY <1>3, MemoryHolds, PTL

\* A deletion leaks no item but the rest of the list behind index 0: the freed node
\* is the only one that its predecessor's new link leaves out.
THEOREM OnlyTheFreedLeave == Spec => LeaksOnlyWithHead
<1>1. ASSUME Locks, Locks', Memory, [Next]_vars
      PROVE  InList \ InList' \subseteq Nodes \ allocated'
             \/ \E d \in Deleters : pc[d] = "initialize"
  <2> SUFFICES ASSUME ~Headless PROVE InList \ InList' \subseteq Nodes \ allocated'
    BY DEF Headless
  <2> USE DEF Goes
  <2>1. ASSUME InList \subseteq InList' PROVE InList \ InList' \subseteq Nodes \ allocated'
    BY <2>1
  <2>2. ASSUME UNCHANGED list, NEW t \in Threads, NEW l, pc' = pc \/ pc' = [pc EXCEPT ![t] = l],
               t \in Inserters => pc[t] # "end" /\ pc'[t] # "end",
               \A i \in Inserters \ {t} : node'[i] = node[i]
        PROVE  InList \subseteq InList'
    <3>1. \A i \in Inserters : pc'[i] = "end" <=> pc[i] = "end" BY <1>1, <2>2 DEF Locks, Labels, Threads
    <3>2. QED BY <2>2, <3>1, LinksStay DEF list
  <2>3. ASSUME NEW s \in Searchers, searcher(s) PROVE InList \subseteq InList'
    <3>1. UNCHANGED list /\ node' = node /\ (pc' = pc \/ \E l : pc' = [pc EXCEPT ![s] = l])
      BY <2>3 DEF searcher, WaitSearch, FindValue, Look, PostSearch, local
    <3>2. s \in Threads /\ s \notin Inserters BY Kinds DEF Threads
    <3>3. QED BY <2>2, <3>1, <3>2
  <2>4. ASSUME NEW i \in Inserters, inserter(i) PROVE InList \subseteq InList'
    <3>1. CASE WaitInsert(i) \/ LockInsert(i) \/ Walk(i) \/ PostInsert(i) \/ UnlockInsert(i)
      <4>1. /\ UNCHANGED list /\ node' = node /\ pc[i] # "end"
            /\ pc' = pc \/ \E l \in InserterLabels \ {"end"} : pc' = [pc EXCEPT ![i] = l]
        BY <3>1 DEF WaitInsert, LockInsert, Walk, PostInsert, UnlockInsert, local, InserterLabels
      <4>2. i \in Threads /\ pc'[i] # "end" BY <1>1, <4>1 DEF Locks, Labels, Threads
      <4>3. QED BY <2>2, <4>1, <4>2
    <3>2. CASE NewNode(i) BY <1>1, <3>2, NewNodeLinks
    <3>3. CASE Link(i) BY <1>1, <3>3, LinkLinks
    <3>4. CASE Terminate(i) BY <1>1, <3>4, TerminateLinks
    <3>5. QED BY <2>4, <3>1, <3>2, <3>3, <3>4 DEF inserter
  <2>5. ASSUME NEW d \in Deleters, deleter(d)
        PROVE  InList \ InList' \subseteq Nodes \ allocated'
    <3>1. d \in Threads /\ d \notin Inserters BY Kinds DEF Threads
    <3>2. CASE UNCHANGED list
      <4>1. node' = node \/ \E q : node' = [node EXCEPT ![d] = q]
        BY <2>5 DEF deleter, WaitSearchers, WaitInserters, LockDelete, Choose, Free, Unlink, DeleteHead,
           InitializeList, UnlockDelete, PostSearchers, PostInserters, local
      <4>2. \E l : pc' = [pc EXCEPT ![d] = l]
        BY <2>5 DEF deleter, WaitSearchers, WaitInserters, LockDelete, Choose, Free, Unlink, DeleteHead,
           InitializeList, UnlockDelete, PostSearchers, PostInserters
      <4>3. \A i \in Inserters \ {d} : node'[i] = node[i] BY <1>1, <4>1 DEF Memory, Typed, Threads
      <4>4. QED BY <2>1, <2>2, <3>1, <3>2, <4>2, <4>3
    <3>3. CASE Free(d)
      <4>1. pc[d] = "free" /\ next' = next /\ head' = head /\ pc' = [pc EXCEPT ![d] = "unlink"]
        BY <3>3 DEF Free
      <4>2. Links' = Links BY <1>1, <4>1, DeleterFinds DEF Memory, Typed
      <4>3. QED BY <2>1, <4>1, <4>2 DEF InList
    <3>4. CASE Unlink(d)
      <4>1. allocated' = allocated BY <3>4 DEF Unlink
      <4>2. QED BY <1>1, <3>4, <4>1, UnlinkLinks
    <3>5. CASE DeleteHead(d)
      <4>1. head \in Nodes BY <1>1 DEF Memory, Chain
      <4>2. /\ pc[d] = "delete head" /\ pc' = [pc EXCEPT ![d] = "initialize"]
            /\ head' = next[head] /\ next' = next /\ allocated' = allocated \ {head}
        BY <3>5 DEF DeleteHead
      <4>3. Links = next /\ Links' = next BY <1>1, <4>2, DeleterFinds DEF Memory, Typed
      <4>4. InList \subseteq InList' \cup {head} BY <4>1, <4>2, <4>3, Beheaded DEF InList
      <4>5. QED BY <4>1, <4>2, <4>4
    <3>6. CASE InitializeList(d) BY <3>6 DEF InitializeList, Headless
    <3>7. QED
      BY <2>5, <3>2, <3>3, <3>4, <3>5, <3>6
      DEF deleter, WaitSearchers, WaitInserters, LockDelete, Choose, UnlockDelete, PostSearchers, PostInserters
  <2>6. CASE UNCHANGED vars
    <3>1. UNCHANGED <<head, next, pc, node>> BY <2>6 DEF vars, list, local
    <3>2. QED BY <2>1, <3>1, LinksStay
  <2>7. QED BY <1>1, <2>1, <2>3, <2>4, <2>5, <2>6 DEF Next
<1>2. QED BY <1>1, MemoryHolds, PTL DEF LeaksOnlyWithHead, Spec

--------------------------------------------------------------------------------
(* What a search passes. *)

\* No walk comes back to the head.
LEMMA NothingBeforeHead ==
  ASSUME Chain, NEW n \in InList, n # head
  PROVE  head \notin Walked(n, Links)
<1> DEFINE S == Walked(n, Links) \ {head}
<1>1. Walked(n, Links) \subseteq InList BY WalkedOn DEF InList
<1>2. S \in SUBSET Nodes BY WalkedInNodes
<1>3. n \in Nodes /\ n \in S BY InListClosed, WalkedStarts
<1>4. \A m \in S : Links[m] \in Nodes => Links[m] \in S BY <1>1, WalkedGoesOn, NotNodes DEF Chain
<1>5. head \notin S OBVIOUS
<1> HIDE DEF S
<1>6. Walked(n, Links) \subseteq S BY <1>2, <1>3, <1>4, WalkedLeast
<1>7. QED BY <1>5, <1>6

\* A walk that comes to the node behind p, and did not start there, comes from p.
LEMMA OneNodeBefore ==
  ASSUME Chain, NEW p \in InList, Links[p] \in Nodes,
         NEW n \in InList, n # Links[p], Links[p] \in Walked(n, Links)
  PROVE  p \in Walked(n, Links)
<1> SUFFICES ASSUME p \notin Walked(n, Links) PROVE FALSE OBVIOUS
<1> DEFINE S == Walked(n, Links) \ {Links[p]}
<1>1. Walked(n, Links) \subseteq InList BY WalkedOn DEF InList
<1>2. S \in SUBSET Nodes BY WalkedInNodes
<1>3. n \in Nodes /\ n \in S BY InListClosed, WalkedStarts
<1>4. \A m \in S : Links[m] \in Nodes => Links[m] \in S BY <1>1, WalkedGoesOn DEF Chain
<1>5. Links[p] \notin S OBVIOUS
<1> HIDE DEF S
<1>6. Walked(n, Links) \subseteq S BY <1>2, <1>3, <1>4, WalkedLeast
<1>7. QED BY <1>5, <1>6

\* The invariant of the searchers: what they look for keeps its type, and nothing
\* that they passed held it.
Looked == value \in [Searchers -> Values] /\ SearchMissesNothing

LEMMA LookedStep ==
  ASSUME Locks, Locks', Memory, Looked, [Next]_vars
  PROVE  Looked'
<1> USE DEF Goes
<1>1. /\ Labels /\ Typed /\ value \in [Searchers -> Values]
      /\ \A r \in Searchers : r \in Threads /\ r \notin Inserters /\ r \notin Deleters
  BY Kinds DEF Locks, Memory, Looked, Threads
<1>2. value' \in [Searchers -> Values]
  <2>1. CASE \E s \in Searchers, v \in Values : value' = [value EXCEPT ![s] = v] BY <1>1, <2>1
  <2>2. CASE UNCHANGED value BY <1>1, <2>2
  <2>3. ASSUME NEW s \in Searchers, searcher(s)
        PROVE  UNCHANGED value \/ \E v \in Values : value' = [value EXCEPT ![s] = v]
    <3>1. unused \in Values BY SomeValue DEF unused
    <3>2. QED BY <2>3, <3>1 DEF searcher, WaitSearch, FindValue, Look, PostSearch, local
  <2>4. ASSUME NEW i \in Inserters, inserter(i) PROVE UNCHANGED value
    BY <2>4 DEF inserter, WaitInsert, LockInsert, NewNode, Walk, Link, Terminate, PostInsert, UnlockInsert, local
  <2>5. ASSUME NEW d \in Deleters, deleter(d) PROVE UNCHANGED value
    BY <2>5 DEF deleter, WaitSearchers, WaitInserters, LockDelete, Choose, Free, Unlink, DeleteHead,
       InitializeList, UnlockDelete, PostSearchers, PostInserters, local
  <2>6. CASE UNCHANGED vars BY <2>2, <2>6 DEF vars, local
  <2>7. QED BY <2>1, <2>2, <2>3, <2>4, <2>5, <2>6 DEF Next
<1>3. ASSUME NEW r \in Searchers, r \notin strayed'
      PROVE  (pc[r] = "look" /\ ptr[r] # NULL => \A n \in Passed(r) : data[n] # value[r])'
  <2> DEFINE Fine == pc[r] = "look" /\ ptr[r] # NULL => \A n \in Passed(r) : data[n] # value[r]
             Goal == \A n \in InList' : n # ptr'[r] /\ ptr'[r] \in Walked(n, Links') => data'[n] # value'[r]
  <2>1. r \notin strayed => Fine BY DEF Looked, SearchMissesNothing
  <2>2. SUFFICES ASSUME pc'[r] = "look", ptr'[r] # NULL PROVE Goal
    BY DEF Passed
  \* Threads that leave the list and r alone.
  <2>3. ASSUME UNCHANGED <<head, data>>, Links' = Links, r \notin strayed,
               pc'[r] = pc[r] /\ ptr'[r] = ptr[r] /\ value'[r] = value[r]
        PROVE  Goal
    <3>1. InList' = InList BY <2>3 DEF InList
    <3>2. QED BY <2>1, <2>2, <2>3, <3>1 DEF Passed
  <2>4. ASSUME UNCHANGED list, NEW t \in Threads, pc' = pc \/ \E l : pc' = [pc EXCEPT ![t] = l],
               t \in Inserters => pc[t] # "end" /\ pc'[t] # "end",
               \A i \in Inserters \ {t} : node'[i] = node[i]
        PROVE  Links' = Links /\ InList' = InList /\ UNCHANGED <<head, next, data, allocated>>
    <3>1. \A i \in Inserters : pc'[i] = "end" <=> pc[i] = "end" BY <1>1, <2>4 DEF Labels, Threads
    <3>2. QED BY <2>4, <3>1, LinksStay DEF list
  <2>5. ASSUME NEW t \in Threads, t # r, pc' = pc \/ \E l : pc' = [pc EXCEPT ![t] = l]
        PROVE  pc'[r] = pc[r]
    BY <1>1, <2>5 DEF Labels
  <2>6. ASSUME NEW t \in Threads, t # r, ptr' = ptr \/ \E q : ptr' = [ptr EXCEPT ![t] = q]
        PROVE  ptr'[r] = ptr[r]
    BY <1>1, <2>6 DEF Typed
  <2>7. ASSUME NEW s \in Searchers, searcher(s)
        PROVE  Links' = Links /\ InList' = InList /\ UNCHANGED <<head, next, data, allocated>>
    <3>1. UNCHANGED <<list, node>> /\ (pc' = pc \/ \E l : pc' = [pc EXCEPT ![s] = l])
      BY <2>7 DEF searcher, WaitSearch, FindValue, Look, PostSearch, local
    <3>2. QED BY <1>1, <2>4, <3>1
  <2>8. ASSUME NEW s \in Searchers, searcher(s), s # r PROVE Goal
    <3>1. Links' = Links /\ UNCHANGED <<head, data>> BY <2>7, <2>8
    <3>2. s \in Threads BY <1>1
    <3>3. \/ pc' = pc /\ \E q : ptr' = [ptr EXCEPT ![s] = q]
          \/ ptr' = ptr /\ \E l : pc' = [pc EXCEPT ![s] = l]
          \/ (\E l : pc' = [pc EXCEPT ![s] = l]) /\ \E q : ptr' = [ptr EXCEPT ![s] = q]
      BY <2>8 DEF searcher, WaitSearch, FindValue, Look, PostSearch, local
    <3>4. value'[r] = value[r] /\ r \notin strayed
      BY <1>1, <1>3, <2>8 DEF searcher, WaitSearch, FindValue, Look, PostSearch, local
    <3>5. pc'[r] = pc[r] /\ ptr'[r] = ptr[r] BY <2>5, <2>6, <2>8, <3>2, <3>3
    <3>6. QED BY <2>3, <3>1, <3>4, <3>5
  <2>9. CASE FindValue(r)
    <3>1. Links' = Links /\ InList' = InList BY <2>7, <2>9 DEF searcher
    <3>2. ptr'[r] = head BY <1>1, <2>9 DEF FindValue, Typed
    <3>3. \A d \in Deleters : pc[d] # "initialize" BY <2>9, SearcherAlone DEF FindValue
    <3>4. Chain BY <3>3 DEF Memory, Headless
    <3>5. QED BY <3>1, <3>2, <3>4, NothingBeforeHead
  <2>10. CASE Look(r)
    <3>1. Links' = Links /\ InList' = InList /\ data' = data BY <2>7, <2>10 DEF searcher
    <3>2. pc[r] = "look" /\ value' = value /\ r \notin strayed BY <1>3, <2>10 DEF Look
    <3>3. Chain /\ InList \subseteq allocated
      <4>1. \A d \in Deleters : pc[d] \notin {"initialize", "unlink"} BY <3>2, SearcherAlone
      <4>2. QED BY <4>1 DEF Memory, Headless, Unlinking
    <3>4. ptr[r] \in InList \cup {NULL} BY <3>2 DEF Memory, SearcherHolds
    <3>5. /\ ptr[r] \in Nodes /\ data[ptr[r]] # value[r] /\ ptr'[r] = next[ptr[r]]
          /\ Unset(ptr[r]) => next[ptr[r]] = NULL
      <4>1. ~Goes(r, "post") BY <1>1, <2>2 DEF Labels
      <4>2. ~(ptr[r] \notin allocated \cup {NULL}) BY <3>3, <3>4
      <4>3. QED BY <1>1, <1>3, <2>10, <4>1, <4>2 DEF Look, Typed
    <3>6. ptr[r] \in InList /\ ptr'[r] = Links[ptr[r]]
      BY <3>4, <3>5, NotNodes DEF Links
    <3>7. ASSUME NEW n \in InList, n # Links[ptr[r]], Links[ptr[r]] \in Walked(n, Links)
          PROVE  data[n] # value[r]
      <4>1. Links[ptr[r]] \in Nodes BY <3>7, WalkedInNodes
      <4>2. ptr[r] \in Walked(n, Links) BY <3>3, <3>6, <3>7, <4>1, OneNodeBefore
      <4>3. CASE n = ptr[r] BY <3>5, <4>3
      <4>4. CASE n # ptr[r]
        <5>1. n \in Passed(r) BY <3>7, <4>2, <4>4 DEF Passed
        <5>2. ptr[r] # NULL BY <3>5, NotNodes
        <5>3. QED BY <2>1, <3>2, <5>1, <5>2
      <4>5. QED BY <4>3, <4>4
    <3>8. QED BY <3>1, <3>2, <3>6, <3>7
  <2>11. ~WaitSearch(r) /\ ~PostSearch(r) BY <1>1, <2>2 DEF WaitSearch, PostSearch, Labels
  <2>12. ASSUME NEW i \in Inserters, inserter(i) PROVE Goal
    <3>1. i # r /\ i \in Threads BY Kinds DEF Threads
    <3>2. value' = value /\ strayed' = strayed
      BY <2>12 DEF inserter, WaitInsert, LockInsert, NewNode, Walk, Link, Terminate, PostInsert, UnlockInsert, local
    <3>3. /\ pc' = pc \/ \E l : pc' = [pc EXCEPT ![i] = l]
          /\ ptr' = ptr \/ \E q : ptr' = [ptr EXCEPT ![i] = q]
      BY <2>12 DEF inserter, WaitInsert, LockInsert, NewNode, Walk, Link, Terminate, PostInsert, UnlockInsert, local
    <3>4. pc'[r] = pc[r] /\ ptr'[r] = ptr[r] /\ value'[r] = value[r] /\ r \notin strayed
      <4>1. pc'[r] = pc[r] BY <2>5, <3>1, <3>3
      <4>2. ptr'[r] = ptr[r] BY <2>6, <3>1, <3>3
      <4>3. QED BY <1>3, <3>2, <4>1, <4>2
    <3>5. CASE WaitInsert(i) \/ LockInsert(i) \/ Walk(i) \/ PostInsert(i) \/ UnlockInsert(i)
      <4>1. /\ UNCHANGED list /\ node' = node /\ pc[i] # "end"
            /\ pc' = pc \/ \E l \in InserterLabels \ {"end"} : pc' = [pc EXCEPT ![i] = l]
        BY <3>5 DEF WaitInsert, LockInsert, Walk, PostInsert, UnlockInsert, local, InserterLabels
      <4>2. pc'[i] # "end" BY <1>1, <3>1, <4>1 DEF Labels
      <4>3. Links' = Links /\ UNCHANGED <<head, data>> BY <2>4, <3>1, <4>1, <4>2
      <4>4. QED BY <2>3, <3>4, <4>3
    <3>6. CASE NewNode(i)
      <4>1. InList' = InList /\ \A n \in InList : Links'[n] = Links[n] /\ data'[n] = data[n]
        BY <3>6, NewNodeLinks
      <4> SUFFICES ASSUME NEW n \in InList, n # ptr[r], ptr[r] \in Walked(n, Links')
                   PROVE  data[n] # value[r]
        BY <3>4, <4>1
      <4>2. \A m \in Walked(n, Links) : m \in InList BY WalkedOn DEF InList
      <4>3. Walked(n, Links') = Walked(n, Links)
        <5>1. \A m \in Walked(n, Links) : Links'[m] = Links[m] BY <4>1, <4>2
        <5>2. QED BY <5>1, WalkedSame
      <4>4. n \in Passed(r) BY <4>3 DEF Passed
      <4>5. QED BY <2>1, <2>2, <3>4, <4>4
    <3>7. CASE Link(i)
      <4> SUFFICES ASSUME NEW n \in InList', n # ptr[r], ptr[r] \in Walked(n, Links')
                   PROVE  data[n] # value[r]
        BY <3>4, <3>7 DEF Link
      <4>1. ptr[r] \in Nodes BY WalkedInNodes
      <4>2. ptr[r] \in InList BY <3>4, <4>1, NotNodes DEF Memory, SearcherHolds
      <4>3. n # node[i] BY <3>7, <4>2, LinkLinks
      <4>4. n \in InList BY <3>7, <4>3, LinkLinks
      <4>5. ptr[r] \in Walked(n, Links) BY <3>7, <4>2, <4>4, LinkLinks
      <4>6. n \in Passed(r) BY <4>4, <4>5 DEF Passed
      <4>7. QED BY <2>1, <2>2, <3>4, <4>6
    <3>8. CASE Terminate(i)
      <4>1. data' = data /\ head' = head BY <3>8 DEF Terminate
      <4>2. Links' = Links BY <3>8, TerminateLinks
      <4>3. QED BY <2>3, <3>4, <4>1, <4>2
    <3>9. QED BY <2>12, <3>5, <3>6, <3>7, <3>8 DEF inserter
  <2>13. ASSUME NEW d \in Deleters, deleter(d) PROVE Goal
    <3>1. d # r /\ d \in Threads /\ d \notin Inserters BY Kinds DEF Threads
    <3>2. /\ value' = value /\ strayed' = strayed
          /\ \E l : pc' = [pc EXCEPT ![d] = l]
          /\ ptr' = ptr \/ \E q : ptr' = [ptr EXCEPT ![d] = q]
      BY <2>13 DEF deleter, WaitSearchers, WaitInserters, LockDelete, Choose, Free, Unlink, DeleteHead,
         InitializeList, UnlockDelete, PostSearchers, PostInserters, local
    <3>3. pc'[r] = pc[r] /\ ptr'[r] = ptr[r] /\ value'[r] = value[r] /\ r \notin strayed
      <4>1. pc'[r] = pc[r] BY <2>5, <3>1, <3>2
      <4>2. ptr'[r] = ptr[r] BY <2>6, <3>1, <3>2
      <4>3. QED BY <1>3, <3>2, <4>1, <4>2
    <3>4. pc[d] \in {"wait", "post too"} BY <2>2, <3>3, SearcherAlone
    <3>5. UNCHANGED <<list, node>>
      BY <2>13, <3>4 DEF deleter, WaitSearchers, WaitInserters, LockDelete, Choose, Free, Unlink, DeleteHead,
         InitializeList, UnlockDelete, PostSearchers, PostInserters, local
    <3>6. Links' = Links /\ UNCHANGED <<head, data>> BY <2>4, <3>1, <3>2, <3>5
    <3>7. QED BY <2>3, <3>3, <3>6
  <2>14. CASE UNCHANGED vars
    <3>1. UNCHANGED <<head, next, data, pc, ptr, node, value, strayed>> BY <2>14 DEF vars, list, local
    <3>2. Links' = Links BY <3>1, LinksStay
    <3>3. QED BY <1>3, <2>3, <3>1, <3>2
  <2>15. QED BY <2>8, <2>9, <2>10, <2>11, <2>12, <2>13, <2>14 DEF Next, searcher
<1>4. QED BY <1>2, <1>3 DEF Looked, SearchMissesNothing

\* A search passes over no node that holds its value, whatever inserters append to
\* the list at the same time and whatever malloc leaves in their nodes, unless it
\* has followed what was left in one.
THEOREM NothingIsMissed == Spec => []SearchMissesNothing
<1>1. Init => Looked
  <2>1. unused \in Values BY SomeValue DEF unused
  <2>2. Init => \A s \in Searchers : pc[s] = "wait" BY DEF Init, Threads
  <2>3. QED BY <2>1, <2>2 DEF Init, Looked, SearchMissesNothing
<1>2. Locks /\ Locks' /\ Memory /\ Looked /\ [Next]_vars => Looked' BY LookedStep
<1>3. Looked => SearchMissesNothing BY DEF Looked
<1>4. QED BY <1>1, <1>2, <1>3, MemoryHolds, PTL DEF Spec
--------------------------------------------------------------------------------
(* Who waits for whom.                                                      *)

\* A thread is about to take a semaphore or a mutex.
ForSearch(t) == t \in Searchers \cup Deleters /\ pc[t] = "wait"
ForInsert(t) == \/ t \in Inserters /\ pc[t] = "wait"
                \/ t \in Deleters /\ pc[t] = "wait too"
ForMutex(t) == t \in Inserters \cup Deleters /\ pc[t] = "lock"
MutexOf(t) == IF t \in Inserters THEN inserterMutex ELSE deleterMutex

\* It finds it taken, and by whom.
Blocked(t) ==
  \/ ForSearch(t) /\ deleterSearcherSem = 0
  \/ ForInsert(t) /\ deleterInserterSem = 0
  \/ ForMutex(t) /\ MutexOf(t) # NULL

WaitsFor(t, u) ==
  \/ ForSearch(t) /\ deleterSearcherSem = 0 /\ HasSearch(u)
  \/ ForInsert(t) /\ deleterInserterSem = 0 /\ HasInsert(u)
  \/ ForMutex(t) /\ MutexOf(t) = u

\* What a thread is blocked by some thread has, and that thread is blocked by
\* others through two more threads at most: the waits never close to a circle.
WaitsEnd ==
  /\ \A t \in Threads : Blocked(t) => \E u \in Threads : WaitsFor(t, u)
  /\ \A t, u, v, w \in Threads : WaitsFor(t, u) /\ WaitsFor(u, v) /\ WaitsFor(v, w) => ~Blocked(w)

\* The waits end.  A deleter who waits for the inserters has the searchers'
\* semaphore, and the inserter who has the other one may wait for the mutex, which
\* is unlocked after that semaphore is posted; who unlocks waits for nothing.
LEMMA WhoIsBehind ==
  ASSUME Locks, Owned, NEW t \in Threads, NEW u \in Threads, WaitsFor(t, u)
  PROVE  /\ ForSearch(t) /\ Blocked(u) =>
              u \in Deleters /\ (ForInsert(u) \/ ForMutex(u))
         /\ ForInsert(t) /\ Blocked(u) => u \in Inserters /\ ForMutex(u)
         /\ ForMutex(t) => t \in Inserters /\ ~Blocked(u)
<1> USE Kinds, NotNodes DEF Locks, Labels, Owned, Threads, WaitsFor, Blocked, ForSearch, ForInsert, ForMutex,
      MutexOf, HasSearch, HasInsert, InsertOwning, DeleteOwning, SearcherLabels, InserterLabels, DeleterLabels
<1>1. CASE ForSearch(t) BY <1>1
<1>2. CASE ForInsert(t) BY <1>2 DEF InsertLock
<1>3. CASE ForMutex(t) BY <1>3 DEF InsertLock
<1>4. QED BY <1>1, <1>2, <1>3

\* No deadlock, for any number of searchers, inserters and deleters: who cannot go
\* on waits for a thread that has what it waits for, and of four threads of which
\* each waits for the next the last one is not waiting.
THEOREM NoDeadlock == Spec => []WaitsEnd
<1>1. Locks /\ Taken /\ Owned => WaitsEnd
  <2> SUFFICES ASSUME Locks, Taken, Owned PROVE WaitsEnd OBVIOUS
  <2>1. ASSUME NEW t \in Threads, Blocked(t) PROVE \E u \in Threads : WaitsFor(t, u)
    BY <2>1, Kinds DEF Blocked, WaitsFor, Taken, Owned, ForMutex, MutexOf, Threads
  <2>2. ASSUME NEW t \in Threads, NEW u \in Threads, NEW v \in Threads, NEW w \in Threads,
               WaitsFor(t, u), WaitsFor(u, v), WaitsFor(v, w)
        PROVE  ~Blocked(w)
    <3>1. Blocked(t) /\ Blocked(u) /\ Blocked(v)
      BY <2>2, NotNodes DEF Blocked, WaitsFor, Threads
    <3>2. (ForSearch(t) \/ ForInsert(t) \/ ForMutex(t)) /\ (ForSearch(u) \/ ForInsert(u) \/ ForMutex(u))
          /\ (ForSearch(v) \/ ForInsert(v) \/ ForMutex(v))
      BY <3>1 DEF Blocked
    <3>3. ~(ForInsert(v) /\ ForMutex(v)) /\ ~(ForSearch(v) /\ (ForInsert(v) \/ ForMutex(v)))
      BY Kinds DEF ForSearch, ForInsert, ForMutex
    <3>4. ForMutex(v)
      BY <2>2, <3>1, <3>2, <3>3, WhoIsBehind, Kinds DEF ForSearch, ForInsert, ForMutex
    <3>5. QED BY <2>2, <3>4, WhoIsBehind
  <2>3. QED BY <2>1, <2>2 DEF WaitsEnd
<1>2. QED BY <1>1, LocksHold, PTL
================================================================================
