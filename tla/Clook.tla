--------------------------------- MODULE Clook ---------------------------------
(***************************************************************************)
(* Project2/restOfFiles/sstf-iosched.c: the C-LOOK elevator.  A request    *)
(* is its start sector; a queue's list is a sequence of them.  The block   *)
(* layer serialises the callbacks of one queue by its queue_lock, so a     *)
(* callback is one step; diskhead is a global all queues share.            *)
(***************************************************************************)
EXTENDS Integers, Sequences, SequencesExt

CONSTANTS
  Queues,      \* request queues that use the elevator
  Sectors,     \* start sectors requests may have
  SectorSpan,  \* sector_t counts modulo this: 2^64
  IntSpan,     \* int counts modulo this: 2^32
  MaxQueued,   \* bound: MaxQueued[q] requests wait in q
  Merging      \* does the block layer merge waiting requests?

\* No disk has a sector 2^64 - 1, which is what diskhead = -1 compares as; sector_t
\* is no narrower than int.
ASSUME SectorNumbers ==
  /\ SectorSpan \in Nat \ {0}
  /\ Sectors \subseteq 0 .. SectorSpan - 2
  /\ IntSpan \in Nat \ {0} /\ IntSpan % 2 = 0 /\ IntSpan \div 2 <= SectorSpan
  /\ MaxQueued \in [Queues -> Nat]
  /\ Merging \in BOOLEAN

VARIABLES
  diskhead,  \* the int of the last dispatched sector, -1 at first
  queue,     \* queue[q]: sstf_data.queue, the waiting requests
  elevator,  \* elevator[q]: life cycle of the elevator of q
  served,    \* served[q]: where the head of q's own disk is
  astray,    \* history: whether, since q was last empty, something has happened
             \* that the insertion does not reckon with (see Strays)
  bug        \* a BUG_ON fired

vars == <<diskhead, queue, elevator, served, astray, bug>>

\* Conversions of C: sector_t to int, and int to sector_t in a comparison.
ToInt(s) ==
  LET low == s % IntSpan IN IF low < IntSpan \div 2 THEN low ELSE low - IntSpan
ToSector(i) == IF i < 0 THEN i + SectorSpan ELSE i
head == ToSector(diskhead)

Init ==
  /\ diskhead = -1
  /\ queue = [q \in Queues |-> <<>>]
  /\ elevator = [q \in Queues |-> "none"]
  /\ served = [q \in Queues |-> SectorSpan - 1]
  /\ astray = [q \in Queues |-> FALSE]
  /\ bug = FALSE

-------------------------------------------------------------------------------
\* Slips in the test the insertion stops at:
StopsAtLarger(rq, c) == IF rq > head THEN rq < c ELSE c < head /\ rq < c
StopsAtHead(rq, c) == IF rq > head THEN c < head \/ rq < c ELSE rq < c

\* The list walk of sstf_add_request stops in front of c.
StopsAt(rq, c) ==
  IF rq > head THEN c < head \/ rq < c
               ELSE c < head /\ rq < c

\* A slip: list_add for list_add_tail.
InsertFirst(q, rq) == queue' = [queue EXCEPT ![q] = <<rq>> \o @]

\* rq goes in front of the first entry the walk stops at, or to the end.
Insert(q, rq) ==
  \E i \in 1 .. Len(queue[q]) + 1 :
     /\ \A j \in 1 .. i - 1 : ~ StopsAt(rq, queue[q][j])
     /\ i <= Len(queue[q]) => StopsAt(rq, queue[q][i])
     /\ queue' = [queue EXCEPT ![q] = InsertAt(@, i, rq)]

\* q goes astray if happens, and is in order again when it is empty.
Strays(q, happens) == queue'[q] # <<>> /\ (astray[q] \/ happens)

\* A request at the head's own sector goes behind all others.
sstf_add_request(q, rq) ==
  /\ elevator[q] = "attached"
  /\ Len(queue[q]) < MaxQueued[q]
  /\ Insert(q, rq)
  /\ astray' = [astray EXCEPT ![q] = Strays(q, rq = head /\ ToSet(queue[q]) \ {head} # {})]
  /\ UNCHANGED <<diskhead, elevator, served, bug>>

\* elv_dispatch_sort hands the i-th request to the driver's list.
HandOver(q, i) ==
  /\ queue' = [queue EXCEPT ![q] = RemoveAt(@, i)]
  /\ served' = [served EXCEPT ![q] = queue[q][i]]

\* sstf_dispatch with a request to dispatch: it returns 1.  The head goes to a sector
\* of this disk, whatever the other disks' lists are sorted for, or to another one if
\* no int is that large.
sstf_dispatch(q) ==
  /\ elevator[q] \in {"attached", "draining"}
  /\ queue[q] # <<>>
  /\ HandOver(q, 1)
  /\ diskhead' = ToInt(queue[q][1])
  /\ astray' = [p \in Queues |-> Strays(p, head' # IF p = q THEN queue[q][1] ELSE head)]
  /\ UNCHANGED <<elevator, bug>>

\* A slip: the last request is taken for the empty list.
ReturnsZeroEarly(q) == Len(queue[q]) <= 1

DispatchReturnsZero(q) == queue[q] = <<>>

\* The request in front of the i-th, if there is one.
sstf_former_request(q, i) == IF i = 1 THEN {} ELSE {i - 1}

\* The block layer merges a request into the one in front that ends where it
\* starts (lengths are left out: any former request with a smaller start may).
\* Then it frees the request, which sstf_merged_requests has just handed to
\* the driver, without a word to diskhead.
sstf_merged_requests(q, i) ==
  /\ Merging
  /\ elevator[q] = "attached"
  /\ \E former \in sstf_former_request(q, i) : queue[q][former] < queue[q][i]
  /\ HandOver(q, i)
  /\ UNCHANGED <<diskhead, elevator, astray, bug>>

\* Both allocations succeed.
sstf_init_queue(q) ==
  /\ elevator[q] = "none"
  /\ elevator' = [elevator EXCEPT ![q] = "attached"]
  /\ queue' = [queue EXCEPT ![q] = <<>>]
  /\ UNCHANGED <<diskhead, served, astray, bug>>

\* -ENOMEM: what was allocated is given back.
InitQueueFails(q) == elevator[q] = "none" /\ UNCHANGED vars

\* The block layer stops adding and calls sstf_dispatch until it returns 0.
DrainBegins(q) ==
  /\ elevator[q] = "attached"
  /\ elevator' = [elevator EXCEPT ![q] = "draining"]
  /\ UNCHANGED <<diskhead, queue, served, astray, bug>>

DrainEnds(q) ==
  /\ elevator[q] = "draining"
  /\ DispatchReturnsZero(q)
  /\ elevator' = [elevator EXCEPT ![q] = "drained"]
  /\ UNCHANGED <<diskhead, queue, served, astray, bug>>

sstf_exit_queue(q) ==
  /\ elevator[q] = "drained"
  /\ bug' = (bug \/ queue[q] # <<>>)
  /\ elevator' = [elevator EXCEPT ![q] = "none"]
  /\ UNCHANGED <<diskhead, queue, served, astray>>

Next ==
  \E q \in Queues :
     \/ \E rq \in Sectors : sstf_add_request(q, rq)
     \/ sstf_dispatch(q)
     \/ \E i \in 1 .. Len(queue[q]) : sstf_merged_requests(q, i)
     \/ sstf_init_queue(q)
     \/ InitQueueFails(q)
     \/ DrainBegins(q)
     \/ DrainEnds(q)
     \/ sstf_exit_queue(q)

Spec == Init /\ [][Next]_vars

\* The driver asks for requests as long as there are any.
FairSpec == Spec /\ \A q \in Queues : WF_vars(sstf_dispatch(q))

-------------------------------------------------------------------------------
\* How far the head travels upwards from sector h, round the end, to s.
Ahead(h, s) == IF s >= h THEN s - h ELSE s - h + SectorSpan

TypeOK ==
  /\ diskhead \in - (IntSpan \div 2) .. (IntSpan \div 2) - 1
  /\ queue \in [Queues -> Seq(Sectors)]
  /\ elevator \in [Queues -> {"none", "attached", "draining", "drained"}]
  /\ served \in [Queues -> Sectors \cup {SectorSpan - 1}]
  /\ astray \in [Queues -> BOOLEAN]
  /\ bug \in BOOLEAN

\* A queue is in the order in which the head, moving up and wrapping round,
\* comes to the requests: the one-pass insertion sort against a moving head
\* is right, and merges leave it so.  Only three things put it out of order until
\* it is empty: another disk moves the head, a request at the head's own sector
\* comes in behind others, or a sector is dispatched that an int does not hold.
ElevatorOrder ==
  \A q \in Queues : ~astray[q] =>
    \A i, j \in DOMAIN queue[q] :
       i < j => Ahead(head, queue[q][i]) <= Ahead(head, queue[q][j])

\* When a dispatch moves diskhead, the sector that it hands to the driver is the
\* nearest of those that are waited for: of what stays behind in a queue that is in
\* order, nothing is passed over.
MovesToNearest ==
  [][\A q \in Queues :
        diskhead' # diskhead /\ queue'[q] # queue[q] /\ ~astray[q] =>
          \A i \in DOMAIN queue'[q] :
             ~ /\ Ahead(head, queue'[q][i]) > 0
               /\ Ahead(head, queue'[q][i]) < Ahead(head, served'[q])]_vars

\* CS444_Writeup2.tex:105: "The algorithm only scan for pending requests on
\* the queue in one direction".  A request that is handed to the driver is one
\* the head of this very disk reaches before every request that stays behind.
NeverPassesOver ==
  [][\A q \in Queues :
        served'[q] # served[q] =>
          \A i \in DOMAIN queue'[q] :
             ~ /\ Ahead(served[q], queue'[q][i]) > 0
               /\ Ahead(served[q], queue'[q][i]) < Ahead(served[q], served'[q])]_vars

\* BUG_ON(!list_empty(&nd->queue)) never fires: the drain loop trusts the
\* return value of sstf_dispatch.
NoBug == ~ bug

\* In a queue that stays in order, no request is overtaken for ever by requests that
\* come after it, whatever is merged in front of it: a sector that is waited for
\* without end is handed over without end.
Waits(q, s) == \E i \in DOMAIN queue[q] : queue[q][i] = s
HandsOver(q, s) == Len(queue'[q]) < Len(queue[q]) /\ served'[q] = s

WaitingIsServed ==
  \A q \in Queues, s \in Sectors :
     <>[](Waits(q, s) /\ ~astray[q]) => []<><<HandsOver(q, s)>>_vars

\* The same of a queue that has gone astray: what a scheduler would be asked for.
NobodyStarves ==
  \A q \in Queues, s \in Sectors : <>[]Waits(q, s) => []<><<HandsOver(q, s)>>_vars
================================================================================
