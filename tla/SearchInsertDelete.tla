--------------------------- MODULE SearchInsertDelete --------------------------
(***************************************************************************)
(* Concurrency3/concurrency3.c: searchers, inserters and deleters share a  *)
(* singly linked list.  Two semaphores, both initialised to 1, and a mutex *)
(* for inserters and one for deleters guard it.  A step is one operation   *)
(* on the shared state; the sleep at the end of each loop changes nothing. *)
(***************************************************************************)
EXTENDS Naturals, FiniteSets

CONSTANTS
  Searchers, Inserters, Deleters,
  Nodes,     \* memory for struct node, as much as malloc has (a bound)
  Values,    \* what rand() % 6 gives
  NULL,
  Wild,      \* a pointer to nothing
  Garbage    \* what malloc may leave in the field next, besides its old value

Threads == Searchers \cup Inserters \cup Deleters

ASSUME Kinds == /\ Searchers \cap Inserters = {}
                /\ Searchers \cap Deleters = {}
                /\ Inserters \cap Deleters = {}
ASSUME NotNodes == /\ NULL \notin Nodes \cup Threads /\ Wild \notin Nodes /\ NULL # Wild
                   /\ Garbage \subseteq Nodes \cup {NULL, Wild}
ASSUME SomeValue == Values # {}

VARIABLES
  head, next, data,
  allocated,           \* nodes that malloc gave and free has not taken back
  deleterSearcherSem, deleterInserterSem,
  inserterMutex, deleterMutex,  \* their owners, or NULL
  pc,
  ptr,                 \* r, right, and temp of deleteFromLocation
  node,                \* temp of addToEnd, next of deleteFromLocation
  value,               \* what a searcher looks for
  strayed              \* history: searchers that have followed a link that was not set

list == <<head, next, data, allocated>>
sync == <<deleterSearcherSem, deleterInserterSem, inserterMutex, deleterMutex>>
local == <<ptr, node, value, strayed>>
vars == <<list, sync, pc, local>>

Pointers == Nodes \cup {NULL, Wild}

\* What a walk along the links from p meets: the least set that has p and the
\* node behind each of its nodes.
Walked(p, links) ==
  LET closed == {S \in SUBSET Nodes : (p \in Nodes => p \in S)
                                      /\ \A m \in S : links[m] \in Nodes => links[m] \in S}
  IN  {n \in Nodes : \A S \in closed : n \in S}

\* A node is linked before its own link is set: what malloc left there is not a link
\* of the list, although a searcher may follow it.
Unset(n) == \E i \in Inserters : pc[i] = "end" /\ node[i] = n
Links == [n \in Nodes |-> IF Unset(n) THEN NULL ELSE next[n]]

InList == Walked(head, Links)

\* Memory to which nobody who may change it has a pointer, whether freed or lost.
Available ==
  LET writers == Inserters \cup Deleters
  IN  Nodes \ (InList \cup {ptr[t] : t \in writers} \cup {node[t] : t \in writers})

\* The value of a searcher that does not search.
unused == CHOOSE v \in Values : TRUE

Goes(t, label) == pc' = [pc EXCEPT ![t] = label]

\* initializeList, before the threads are created.
Init ==
  /\ \E n \in Nodes, v \in Values :
       /\ head = n
       /\ data = [m \in Nodes |-> v]
       /\ allocated = {n}
  /\ next = [m \in Nodes |-> NULL]
  /\ deleterSearcherSem = 1 /\ deleterInserterSem = 1
  /\ inserterMutex = NULL /\ deleterMutex = NULL
  /\ pc = [t \in Threads |-> "wait"]
  /\ ptr = [t \in Threads |-> NULL]
  /\ node = [t \in Threads |-> NULL]
  /\ value = [s \in Searchers |-> unused]
  /\ strayed = {}
--------------------------------------------------------------------------------
(* searcher *)

WaitSearch(s) ==
  /\ pc[s] = "wait" /\ deleterSearcherSem > 0
  /\ deleterSearcherSem' = deleterSearcherSem - 1
  /\ Goes(s, "find")
  /\ UNCHANGED <<list, deleterInserterSem, inserterMutex, deleterMutex, local>>

\* Slip: the walk starts behind the head.
FindValueBehind(s) ==
  /\ pc[s] = "find"
  /\ \E v \in Values : value' = [value EXCEPT ![s] = v]
  /\ ptr' = [ptr EXCEPT ![s] = IF head \in Nodes THEN next[head] ELSE NULL]
  /\ Goes(s, "look")
  /\ UNCHANGED <<list, sync, node, strayed>>

FindValue(s) ==
  /\ pc[s] = "find"
  /\ \E v \in Values : value' = [value EXCEPT ![s] = v]
  /\ ptr' = [ptr EXCEPT ![s] = head]
  /\ Goes(s, "look")
  /\ UNCHANGED <<list, sync, node, strayed>>

\* Slip: without the break, a value that is found is looked at for ever.
LookOnAndOn(s) ==
  /\ pc[s] = "look"
  /\ \/ /\ ptr[s] \in Nodes
        /\ ptr' = [ptr EXCEPT ![s] = IF data[@] # value[s] THEN next[@] ELSE @]
        /\ UNCHANGED pc
     \/ /\ ptr[s] \notin Nodes
        /\ Goes(s, "post")
        /\ UNCHANGED ptr
  /\ UNCHANGED <<list, sync, node, value, strayed>>

\* Of memory that is not a node's anything may be read, if the program goes on.
Look(s) ==
  /\ pc[s] = "look"
  /\ \/ /\ ptr[s] \in allocated /\ data[ptr[s]] # value[s]
        /\ ptr' = [ptr EXCEPT ![s] = next[ptr[s]]]
        /\ strayed' = IF Unset(ptr[s]) /\ next[ptr[s]] # NULL THEN strayed \cup {s} ELSE strayed
        /\ UNCHANGED pc
     \/ /\ ptr[s] = NULL \/ (ptr[s] \in allocated /\ data[ptr[s]] = value[s])
        /\ Goes(s, "post")
        /\ UNCHANGED <<ptr, strayed>>
     \/ /\ ptr[s] \notin allocated \cup {NULL}
        /\ \/ Goes(s, "post") /\ UNCHANGED ptr
           \/ (\E p \in Pointers : ptr' = [ptr EXCEPT ![s] = p]) /\ UNCHANGED pc
        /\ UNCHANGED strayed
  /\ UNCHANGED <<list, sync, node, value>>

\* Slip: the other semaphore is posted.
PostSearchOther(s) ==
  /\ pc[s] = "post"
  /\ deleterInserterSem' = deleterInserterSem + 1
  /\ ptr' = [ptr EXCEPT ![s] = NULL]
  /\ value' = [value EXCEPT ![s] = unused]
  /\ strayed' = strayed \ {s}
  /\ Goes(s, "wait")
  /\ UNCHANGED <<list, deleterSearcherSem, inserterMutex, deleterMutex, node>>

PostSearch(s) ==
  /\ pc[s] = "post"
  /\ deleterSearcherSem' = deleterSearcherSem + 1
  /\ ptr' = [ptr EXCEPT ![s] = NULL]
  /\ value' = [value EXCEPT ![s] = unused]
  /\ strayed' = strayed \ {s}
  /\ Goes(s, "wait")
  /\ UNCHANGED <<list, deleterInserterSem, inserterMutex, deleterMutex, node>>
--------------------------------------------------------------------------------
(* inserter *)

\* Bound: an inserter begins only while there is memory for its node.
MemoryLeft == Cardinality(Available) > Cardinality({i \in Inserters : pc[i] \in {"lock", "malloc"}})

WaitInsert(i) ==
  /\ pc[i] = "wait" /\ deleterInserterSem > 0 /\ MemoryLeft
  /\ deleterInserterSem' = deleterInserterSem - 1
  /\ Goes(i, "lock")
  /\ UNCHANGED <<list, deleterSearcherSem, inserterMutex, deleterMutex, local>>

LockInsert(i) ==
  /\ pc[i] = "lock" /\ inserterMutex = NULL
  /\ inserterMutex' = i
  /\ Goes(i, "malloc")
  /\ UNCHANGED <<list, deleterSearcherSem, deleterInserterSem, deleterMutex, local>>

\* The field next of the new node is not set yet: it may still hold the link of a
\* node that was freed.
NewNode(i) ==
  /\ pc[i] = "malloc"
  /\ \E n \in Available, v \in Values :
       /\ allocated' = allocated \cup {n}
       /\ data' = [data EXCEPT ![n] = v]
       /\ \E g \in Garbage \cup {next[n]} : next' = [next EXCEPT ![n] = g]
       /\ node' = [node EXCEPT ![i] = n]
  /\ ptr' = [ptr EXCEPT ![i] = head]
  /\ Goes(i, "walk")
  /\ UNCHANGED <<head, sync, value, strayed>>

Walk(i) ==
  /\ pc[i] = "walk" /\ ptr[i] \in Nodes
  /\ \/ /\ next[ptr[i]] # NULL
        /\ ptr' = [ptr EXCEPT ![i] = next[ptr[i]]]
        /\ UNCHANGED pc
     \/ /\ next[ptr[i]] = NULL
        /\ Goes(i, "link")
        /\ UNCHANGED ptr
  /\ UNCHANGED <<list, sync, node, value, strayed>>

Link(i) ==
  /\ pc[i] = "link"
  /\ next' = [next EXCEPT ![ptr[i]] = node[i]]
  /\ Goes(i, "end")
  /\ UNCHANGED <<head, data, allocated, sync, local>>

Terminate(i) ==
  /\ pc[i] = "end"
  /\ next' = [next EXCEPT ![node[i]] = NULL]
  /\ ptr' = [ptr EXCEPT ![i] = NULL]
  /\ node' = [node EXCEPT ![i] = NULL]
  /\ Goes(i, "post")
  /\ UNCHANGED <<head, data, allocated, sync, value, strayed>>

PostInsert(i) ==
  /\ pc[i] = "post"
  /\ deleterInserterSem' = deleterInserterSem + 1
  /\ Goes(i, "unlock")
  /\ UNCHANGED <<list, deleterSearcherSem, inserterMutex, deleterMutex, local>>

UnlockInsert(i) ==
  /\ pc[i] = "unlock"
  /\ inserterMutex' = NULL
  /\ Goes(i, "wait")
  /\ UNCHANGED <<list, deleterSearcherSem, deleterInserterSem, deleterMutex, local>>
--------------------------------------------------------------------------------
(* deleter *)

\* Slips: the semaphore is looked at and not taken.
WaitSearchersGlance(d) ==
  /\ pc[d] = "wait" /\ deleterSearcherSem > 0
  /\ Goes(d, "wait too")
  /\ UNCHANGED <<list, sync, local>>

WaitInsertersGlance(d) ==
  /\ pc[d] = "wait too" /\ deleterInserterSem > 0
  /\ Goes(d, "lock")
  /\ UNCHANGED <<list, sync, local>>

WaitSearchers(d) ==
  /\ pc[d] = "wait" /\ deleterSearcherSem > 0
  /\ deleterSearcherSem' = deleterSearcherSem - 1
  /\ Goes(d, "wait too")
  /\ UNCHANGED <<list, deleterInserterSem, inserterMutex, deleterMutex, local>>

WaitInserters(d) ==
  /\ pc[d] = "wait too" /\ deleterInserterSem > 0
  /\ deleterInserterSem' = deleterInserterSem - 1
  /\ Goes(d, "lock")
  /\ UNCHANGED <<list, deleterSearcherSem, inserterMutex, deleterMutex, local>>

LockDelete(d) ==
  /\ pc[d] = "lock" /\ deleterMutex = NULL
  /\ deleterMutex' = d
  /\ Goes(d, "choose")
  /\ UNCHANGED <<list, deleterSearcherSem, deleterInserterSem, inserterMutex, local>>

\* rand() % sizeOfList(): index 0, or the index behind one of the other nodes.
Choose(d) ==
  /\ pc[d] = "choose" /\ head \in Nodes
  /\ \/ Goes(d, "delete head") /\ UNCHANGED ptr
     \/ \E n \in {m \in InList : next[m] \in Nodes} :
          /\ ptr' = [ptr EXCEPT ![d] = n]
          /\ Goes(d, "free")
  /\ UNCHANGED <<list, sync, node, value, strayed>>

\* The node is freed first and unlinked then.
Free(d) ==
  /\ pc[d] = "free"
  /\ LET victim == next[ptr[d]] IN
       /\ node' = [node EXCEPT ![d] = next[victim]]
       /\ allocated' = allocated \ {victim}
  /\ Goes(d, "unlink")
  /\ UNCHANGED <<head, next, data, sync, ptr, value, strayed>>

\* Slip: the node before it keeps its link.
UnlinkNothing(d) ==
  /\ pc[d] = "unlink"
  /\ ptr' = [ptr EXCEPT ![d] = NULL]
  /\ node' = [node EXCEPT ![d] = NULL]
  /\ Goes(d, "unlock")
  /\ UNCHANGED <<list, sync, value, strayed>>

\* Slip: the end of the list is put in place of the node.
UnlinkRest(d) ==
  /\ pc[d] = "unlink"
  /\ next' = [next EXCEPT ![ptr[d]] = NULL]
  /\ ptr' = [ptr EXCEPT ![d] = NULL]
  /\ node' = [node EXCEPT ![d] = NULL]
  /\ Goes(d, "unlock")
  /\ UNCHANGED <<head, data, allocated, sync, value, strayed>>

Unlink(d) ==
  /\ pc[d] = "unlink"
  /\ next' = [next EXCEPT ![ptr[d]] = node[d]]
  /\ ptr' = [ptr EXCEPT ![d] = NULL]
  /\ node' = [node EXCEPT ![d] = NULL]
  /\ Goes(d, "unlock")
  /\ UNCHANGED <<head, data, allocated, sync, value, strayed>>

DeleteHead(d) ==
  /\ pc[d] = "delete head"
  /\ head' = next[head]
  /\ allocated' = allocated \ {head}
  /\ Goes(d, "initialize")
  /\ UNCHANGED <<next, data, sync, local>>

\* initializeList: head points to a new node, and nothing to the rest.
InitializeList(d) ==
  /\ pc[d] = "initialize"
  /\ \E n \in Available, v \in Values :
       /\ head' = n
       /\ next' = [next EXCEPT ![n] = NULL]
       /\ data' = [data EXCEPT ![n] = v]
       /\ allocated' = allocated \cup {n}
  /\ Goes(d, "unlock")
  /\ UNCHANGED <<sync, local>>

UnlockDelete(d) ==
  /\ pc[d] = "unlock"
  /\ deleterMutex' = NULL
  /\ Goes(d, "post")
  /\ UNCHANGED <<list, deleterSearcherSem, deleterInserterSem, inserterMutex, local>>

PostSearchers(d) ==
  /\ pc[d] = "post"
  /\ deleterSearcherSem' = deleterSearcherSem + 1
  /\ Goes(d, "post too")
  /\ UNCHANGED <<list, deleterInserterSem, inserterMutex, deleterMutex, local>>

PostInserters(d) ==
  /\ pc[d] = "post too"
  /\ deleterInserterSem' = deleterInserterSem + 1
  /\ Goes(d, "wait")
  /\ UNCHANGED <<list, deleterSearcherSem, inserterMutex, deleterMutex, local>>
--------------------------------------------------------------------------------
searcher(s) == WaitSearch(s) \/ FindValue(s) \/ Look(s) \/ PostSearch(s)

inserter(i) ==
  \/ WaitInsert(i) \/ LockInsert(i) \/ NewNode(i) \/ Walk(i) \/ Link(i)
  \/ Terminate(i) \/ PostInsert(i) \/ UnlockInsert(i)

deleter(d) ==
  \/ WaitSearchers(d) \/ WaitInserters(d) \/ LockDelete(d) \/ Choose(d)
  \/ Free(d) \/ Unlink(d) \/ DeleteHead(d) \/ InitializeList(d)
  \/ UnlockDelete(d) \/ PostSearchers(d) \/ PostInserters(d)

Next == \/ \E s \in Searchers : searcher(s)
        \/ \E i \in Inserters : inserter(i)
        \/ \E d \in Deleters : deleter(d)

Spec == Init /\ [][Next]_vars

\* A semaphore or a mutex is given to each thread in turn: a thread that waits
\* competes with threads that sleep for seconds between two turns.
Fairness ==
  /\ \A s \in Searchers : WF_vars(searcher(s)) /\ SF_vars(WaitSearch(s))
  /\ \A i \in Inserters : WF_vars(inserter(i)) /\ SF_vars(WaitInsert(i)) /\ SF_vars(LockInsert(i))
  /\ \A d \in Deleters : WF_vars(deleter(d)) /\ SF_vars(WaitSearchers(d)) /\ SF_vars(WaitInserters(d))

FairSpec == Spec /\ Fairness
--------------------------------------------------------------------------------
(* Properties *)

SearcherLabels == {"wait", "find", "look", "post"}
InserterLabels == {"wait", "lock", "malloc", "walk", "link", "end", "post", "unlock"}
DeleterLabels == {"wait", "wait too", "lock", "choose", "free", "unlink", "delete head",
                  "initialize", "unlock", "post", "post too"}

\* The semaphores never count above one, and every variable keeps its type.
TypeOK ==
  /\ head \in Pointers /\ next \in [Nodes -> Pointers] /\ data \in [Nodes -> Values]
  /\ allocated \subseteq Nodes
  /\ deleterSearcherSem \in 0 .. 1 /\ deleterInserterSem \in 0 .. 1
  /\ inserterMutex \in Inserters \cup {NULL} /\ deleterMutex \in Deleters \cup {NULL}
  /\ \A s \in Searchers : pc[s] \in SearcherLabels
  /\ \A i \in Inserters : pc[i] \in InserterLabels
  /\ \A d \in Deleters : pc[d] \in DeleterLabels
  /\ ptr \in [Threads -> Pointers] /\ node \in [Threads -> Pointers]
  /\ value \in [Searchers -> Values]
  /\ strayed \subseteq Searchers

Searching(s) == pc[s] \in {"find", "look"}
Inserting(i) == pc[i] \in {"malloc", "walk", "link", "end"}
Deleting(d) == pc[d] \in {"choose", "free", "unlink", "delete head", "initialize"}

\* "only 1 of these can access the list at once" (concurrency3.c:11): while a
\* deleter is at work nobody else is; there is one inserter at a time (12), and,
\* because the semaphore of the searchers counts to one, one searcher.
Exclusion ==
  /\ \A d \in Deleters : Deleting(d) =>
       /\ \A s \in Searchers : ~Searching(s)
       /\ \A i \in Inserters : ~Inserting(i)
       /\ \A e \in Deleters \ {d} : ~Deleting(e)
  /\ \A i, j \in Inserters : Inserting(i) /\ Inserting(j) => i = j
  /\ \A r, s \in Searchers : Searching(r) /\ Searching(s) => r = s

\* No thread follows a pointer to memory that was freed or never given out, and
\* no searcher or inserter holds one, whatever malloc leaves in its memory: but for
\* the searchers that have strayed.
NoDanglingPointer ==
  /\ \A t \in (Searchers \ strayed) \cup Inserters : ptr[t] \in allocated \cup {NULL}
  /\ \A d \in Deleters : pc[d] = "free" => ptr[d] \in allocated /\ next[ptr[d]] \in allocated

\* Outside a deletion the list ends, and each node on it has its memory; so
\* sizeOfList() is not 0 when the deleter divides by it, nor does it follow a link
\* that is not set.
ListWhole ==
  /\ (\A d \in Deleters : pc[d] \notin {"unlink", "initialize"}) =>
       /\ head \in Nodes /\ InList \subseteq allocated
       /\ Cardinality({n \in InList : Links[n] = NULL}) = 1
       /\ \A m, n \in InList : Links[m] = Links[n] => m = n
  /\ (\E d \in Deleters : pc[d] = "choose") => \A n \in InList : ~Unset(n)

\* A search misses nothing: the nodes from head to where it stands hold other
\* values, insertions meanwhile or not, unless it has followed a link that was not
\* set, into what malloc left there.
Passed(s) == {n \in InList : n # ptr[s] /\ ptr[s] \in Walked(n, Links)}
SearchMissesNothing ==
  \A s \in Searchers \ strayed :
    pc[s] = "look" /\ ptr[s] # NULL => \A n \in Passed(s) : data[n] # value[s]

\* "remove items from somewhere in the list" (concurrency3.c:11): a deletion
\* takes one item, and no step loses others.
OneItemAtATime == [][Cardinality(InList \ InList') <= 1]_vars

\* What leaves the list has been freed, whoever has appended to it in between: a
\* deletion leaks no item, but for index 0, where initializeList forgets the rest.
LeaksOnlyWithHead ==
  [][InList \ InList' \subseteq Nodes \ allocated'
     \/ \E d \in Deleters : pc[d] = "initialize"]_vars

\* "can execute concurrenctly with each other" (concurrency3.c:10): a searcher
\* that is blocked is blocked by a deleter.
SearchersRunTogether ==
  \A s \in Searchers :
    pc[s] = "wait" /\ deleterSearcherSem = 0 =>
      \E d \in Deleters : pc[d] # "wait"

\* "1 insert can be running in parallel with any # of searches"
\* (concurrency3.c:12): a searcher never follows a link that is not set yet.
NobodyStrays == strayed = {}

\* Every thread that waits for its semaphores gets to the list, unless a searcher
\* strays: what it meets then may keep it, or end the program.
EveryoneGetsIn ==
  /\ \A s \in Searchers : pc[s] = "wait" ~> Searching(s) \/ strayed # {}
  /\ \A i \in Inserters : pc[i] = "wait" ~> Inserting(i) \/ strayed # {}
  /\ \A d \in Deleters : pc[d] = "wait" ~> Deleting(d) \/ strayed # {}
================================================================================
