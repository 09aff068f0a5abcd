-------------------------------- MODULE SlobArena ------------------------------
(***************************************************************************)
(* The allocator of module Slob without the memory that its free lists are *)
(* threaded through: a page is the set of its free units, it is on a list  *)
(* or not, and a block is any run of free units that is long enough.  What *)
(* is left is how objects, pages, lists and the page allocator go together *)
(* while several threads call, and take and return pages outside the lock. *)
(***************************************************************************)
EXTENDS Integers

CONSTANTS Pages, PageUnits, Threads

VARIABLES
  objects,  \* what callers hold
  free,     \* free[p]: the free units of a page that is in use
  listed,   \* the pages on one of the lists
  taken,    \* pages that the page allocator has given out
  slab,     \* those that are cut into objects
  thread    \* what a thread does between two critical sections

vars == <<objects, free, listed, taken, slab, thread>>

Offsets == 0 .. PageUnits - 1

Objects == {o \in [page : Pages, at : Offsets, units : 1 .. PageUnits] :
              o.at + o.units <= PageUnits}

UnitsOf(o) == o.at .. o.at + o.units - 1

Idle == [step |-> "idle"]
Growing == [step |-> "grow"]
With(step, p) == [step |-> step, page |-> p]

Becomes(t, what) == thread' = [thread EXCEPT ![t] = what]

Init ==
  /\ objects = {}
  /\ free = [p \in Pages |-> {}]
  /\ listed = {} /\ taken = {} /\ slab = {}
  /\ thread = [t \in Threads |-> Idle]

--------------------------------------------------------------------------------
\* A page has room, and leaves its list when it is full.
Alloc(t, o) ==
  /\ thread[t] = Idle
  /\ o.page \in listed
  /\ UnitsOf(o) \subseteq free[o.page]
  /\ free' = [free EXCEPT ![o.page] = @ \ UnitsOf(o)]
  /\ listed' = IF free'[o.page] = {} THEN listed \ {o.page} ELSE listed
  /\ objects' = objects \cup {o}
  /\ UNCHANGED <<taken, slab, thread>>

\* No page has room, or those that have are not tried: the lock is dropped.
Grow(t) ==
  /\ thread[t] = Idle
  /\ Becomes(t, Growing)
  /\ UNCHANGED <<objects, free, listed, taken, slab>>

NoPage(t) ==
  /\ thread[t] = Growing
  /\ Becomes(t, Idle)
  /\ UNCHANGED <<objects, free, listed, taken, slab>>

TakePage(t, p) ==
  /\ thread[t] = Growing
  /\ p \notin taken
  /\ taken' = taken \cup {p}
  /\ slab' = slab \cup {p}
  /\ Becomes(t, With("install", p))
  /\ UNCHANGED <<objects, free, listed>>

Install(t, o) ==
  /\ thread[t] = With("install", o.page)
  /\ free' = [free EXCEPT ![o.page] = Offsets \ UnitsOf(o)]
  /\ listed' = IF free'[o.page] = {} THEN listed ELSE listed \cup {o.page}
  /\ objects' = objects \cup {o}
  /\ Becomes(t, Idle)
  /\ UNCHANGED <<taken, slab>>

\* An object that has a page of its own.
AllocPage(t, o) ==
  /\ thread[t] = Idle
  /\ o.page \notin taken
  /\ taken' = taken \cup {o.page}
  /\ objects' = objects \cup {o}
  /\ UNCHANGED <<free, listed, slab, thread>>

FreePage(t, o) ==
  /\ thread[t] = Idle
  /\ o.page \notin slab
  /\ taken' = taken \ {o.page}
  /\ objects' = objects \ {o}
  /\ UNCHANGED <<free, listed, slab, thread>>

\* The page stays, and is on a list from now on.
Free(t, o) ==
  /\ thread[t] = Idle
  /\ o.page \in slab
  /\ free[o.page] \cup UnitsOf(o) # Offsets
  /\ free' = [free EXCEPT ![o.page] = @ \cup UnitsOf(o)]
  /\ listed' = listed \cup {o.page}
  /\ objects' = objects \ {o}
  /\ UNCHANGED <<taken, slab, thread>>

\* The last object of a page: the page goes back after the lock is dropped.
FreeLast(t, o) ==
  /\ thread[t] = Idle
  /\ o.page \in slab
  /\ free[o.page] \cup UnitsOf(o) = Offsets
  /\ free' = [free EXCEPT ![o.page] = {}]
  /\ listed' = listed \ {o.page}
  /\ objects' = objects \ {o}
  /\ Becomes(t, With("release", o.page))
  /\ UNCHANGED <<taken, slab>>

Release(t, p) ==
  /\ thread[t] = With("release", p)
  /\ slab' = slab \ {p}
  /\ taken' = taken \ {p}
  /\ Becomes(t, Idle)
  /\ UNCHANGED <<objects, free, listed>>

Next ==
  \E t \in Threads :
    \/ Grow(t) \/ NoPage(t)
    \/ \E o \in Objects : Alloc(t, o) \/ Install(t, o) \/ AllocPage(t, o)
    \/ \E o \in objects : FreePage(t, o) \/ Free(t, o) \/ FreeLast(t, o)
    \/ \E p \in Pages : TakePage(t, p) \/ Release(t, p)

Spec == Init /\ [][Next]_vars

--------------------------------------------------------------------------------
InFlight == {p \in Pages : \E t \in Threads : thread[t] \in {With("install", p), With("release", p)}}
Settled == slab \ InFlight

\* Every variable keeps its type.
TypeOK ==
  /\ objects \subseteq Objects
  /\ free \in [Pages -> SUBSET Offsets]
  /\ listed \subseteq Pages /\ slab \subseteq taken /\ taken \subseteq Pages
  /\ thread \in [Threads -> {Idle, Growing} \cup [step : {"install", "release"}, page : Pages]]

\* The free units of a page are those that no object has, and so no object is
\* ever cut out of another: slob_free gives back what slob_alloc took.
FreeIsTheRest ==
  \A p \in Settled : \A u \in Offsets :
    u \in free[p] <=> ~ \E o \in objects : o.page = p /\ u \in UnitsOf(o)

\* "All partially free slob pages go on these lists" (slob.c:110), and no others:
\* not those that a thread is about to use or return.
ListedIffPartlyFree ==
  /\ listed = {p \in Settled : free[p] # {}}
  /\ \A p \in Settled : free[p] # Offsets

\* The page allocator has out exactly the pages with an object and those that
\* a thread is about to use or return: none leaks, none is used after it.
NoPageLeaks == taken = {o.page : o \in objects} \cup InFlight

\* Callers see a heap whose objects never share memory.
H == INSTANCE Heap
ImplementsHeap == H!Spec
================================================================================
