---------------------------------- MODULE Slob ---------------------------------
(***************************************************************************)
(* The SLOB allocator with kmalloc and the caches in front of it, called   *)
(* by several threads: Project4/A4NewFiles/slob.c (best fit) and           *)
(* Project4/A4OldFiles/slob.c (first fit), which differ in the search for  *)
(* a page.  What runs under slob_lock is one step; a thread is between two *)
(* such steps when it holds a page that it takes from, or returns to, the  *)
(* page allocator.  Sizes are in bytes unless they are called units.       *)
(***************************************************************************)
EXTENDS SlobPage, Sequences, SequencesExt

CONSTANTS
  Pages, Threads,
  BestFit,         \* TRUE: A4NewFiles, FALSE: A4OldFiles
  KmallocSizes,    \* sizes that callers ask kmalloc for
  KmallocAlign,    \* max(ARCH_KMALLOC_MINALIGN, ARCH_SLAB_MINALIGN)
  Caches,          \* the kmem_caches
  ObjectSize,      \* of a cache, before __kmem_cache_create
  CacheAlign,
  RcuCaches,       \* those with SLAB_DESTROY_BY_RCU
  RcuSize,         \* sizeof(struct slob_rcu)
  SLOB_BREAK1, SLOB_BREAK2

PAGE_SIZE == PageUnits * SLOB_UNIT

\* __kmem_cache_create leaves room for the footer.
CacheSize(c) == ObjectSize[c] + IF c \in RcuCaches THEN RcuSize ELSE 0

\* Allocations of more than one page are left out: the page allocator serves
\* them, and slob.c keeps nothing of them.
ASSUME SlobSizes ==
  /\ BestFit \in BOOLEAN
  /\ RcuCaches \subseteq Caches /\ "kmalloc" \notin Caches
  /\ KmallocAlign \in Nat \ {0} /\ KmallocAlign % SLOB_UNIT = 0
  /\ RcuSize \in Nat \ {0} /\ RcuSize % SLOB_UNIT = 0
  /\ KmallocSizes \subseteq 1 .. PAGE_SIZE
  /\ \A c \in Caches : /\ ObjectSize[c] \in Nat /\ CacheSize(c) \in 1 .. PAGE_SIZE
                       /\ CacheAlign[c] \in 0 .. PAGE_SIZE
  /\ SLOB_BREAK1 <= SLOB_BREAK2

VARIABLES
  page,     \* page[p]: units, freelist and memory of page p
  taken,    \* pages that the page allocator has given out
  slab,     \* those with PG_slab
  lists,    \* free_slob_small, free_slob_medium, free_slob_large
  live,     \* what callers hold, each by the object it was asked for
  waiting,  \* call_rcu'd objects, each with the place of its rcu_head
  thread    \* what a thread does between two critical sections

vars == <<page, taken, slab, lists, live, waiting, thread>>

kmalloc == "kmalloc"   \* as the cache of an object that kmalloc returned
ListNames == {"small", "medium", "large"}
Idle == [step |-> "idle"]

ListOf(size) == IF size < SLOB_BREAK1 THEN "small"
                ELSE IF size < SLOB_BREAK2 THEN "medium" ELSE "large"

slob_page_free(p) == \E l \in ListNames : p \in ToSet(lists[l])
set_slob_page_free(p, l) == lists' = [lists EXCEPT ![l] = <<p>> \o @]
clear_slob_page_free_flag_only(p) == lists   \* Slip: no list_del.
clear_slob_page_free(p) == [l \in ListNames |-> RemoveFirst(lists[l], p)]

Init == /\ page = [p \in Pages |-> JunkPage]
        /\ taken = {} /\ slab = {}
        /\ lists = [l \in ListNames |-> <<>>]
        /\ live = {} /\ waiting = {}
        /\ thread = [t \in Threads |-> Idle]
--------------------------------------------------------------------------------
(* Allocation *)

Request(size, align, cache) == [size |-> size, align |-> align, cache |-> cache]

\* A caller fills its object; kmalloc puts the size it was asked for in front.
Handed(pg, at, req) ==
  LET object == at .. at + SLOB_UNITS(req.size) - 1
      filled == [o \in Offsets |-> IF o \in object THEN Junk ELSE pg.mem[o]]
  IN  [pg EXCEPT !.mem = IF req.cache = kmalloc
                         THEN [filled EXCEPT ![at] = req.size - KmallocAlign]
                         ELSE filled]

Object(p, at, req) == [page |-> p, at |-> at, size |-> req.size, cache |-> req.cache]

\* Slip: the search ends at the first page with enough free units.
TriedFirst(l, req) ==
  LET enough == {i \in DOMAIN lists[l] : page[lists[l][i]].units >= SLOB_UNITS(req.size)}
  IN  IF enough = {} THEN {} ELSE {Min(enough)}

\* Slip: the comparison of the pages is turned round.
TriedMost(l, req) ==
  LET Units(i) == page[lists[l][i]].units
      enough   == {i \in DOMAIN lists[l] : Units(i) >= SLOB_UNITS(req.size)}
      most     == {i \in enough : \A j \in enough : Units(i) >= Units(j)}
  IN  IF enough # {} THEN {Min(most)} ELSE {}

\* The positions in a list at which slob_page_alloc is tried: the first of the
\* pages with the fewest units that are enough, or all that have enough.
Tried(l, req) ==
  LET Units(i) == page[lists[l][i]].units
      enough   == {i \in DOMAIN lists[l] : Units(i) >= SLOB_UNITS(req.size)}
      fewest   == {i \in enough : \A j \in enough : Units(i) <= Units(j)}
  IN  IF BestFit /\ enough # {} THEN {Min(fewest)} ELSE enough

Fits(p, req) == slob_page_alloc(page[p], req.size, req.align).block # NULL

\* The first-fit search starts next time where this one ended.
Rotated(list, i) ==
  IF ~BestFit /\ i \in 2 .. Len(list)
  THEN SubSeq(list, i, Len(list)) \o SubSeq(list, 1, i - 1) ELSE list

slob_alloc(t, req) ==
  LET l     == ListOf(req.size)
      found == {i \in Tried(l, req) : Fits(lists[l][i], req)}
  IN  /\ thread[t] = Idle
      /\ IF found = {}
         THEN /\ thread' = [thread EXCEPT ![t] = [step |-> "grow", req |-> req]]
              /\ UNCHANGED <<page, taken, slab, lists, live, waiting>>
         ELSE LET i == Min(found)
                  p == lists[l][i]
                  a == slob_page_alloc(page[p], req.size, req.align)
                  list == IF a.page.units = 0 THEN RemoveAt(lists[l], i) ELSE lists[l]
              IN  /\ page' = [page EXCEPT ![p] = Handed(a.page, a.block, req)]
                  /\ lists' = [lists EXCEPT ![l] = Rotated(list, i)]
                  /\ live' = live \cup {Object(p, a.block, req)}
                  /\ UNCHANGED <<taken, slab, waiting, thread>>

\* The page allocator may fail; a page it gives is marked before the lock is
\* taken again.
slob_new_pages(t) ==
  /\ thread[t].step = "grow"
  /\ \/ /\ thread' = [thread EXCEPT ![t] = Idle]
        /\ UNCHANGED <<page, taken, slab, lists, live, waiting>>
     \/ \E p \in Pages \ taken :
          /\ taken' = taken \cup {p}
          /\ slab' = slab \cup {p}
          /\ thread' = [thread EXCEPT ![t] =
                          [step |-> "install", req |-> thread[t].req, page |-> p]]
          /\ UNCHANGED <<page, lists, live, waiting>>

InstallPage(t) ==
  /\ thread[t].step = "install"
  /\ LET req == thread[t].req
         p   == thread[t].page
         a   == slob_page_alloc(FreshPage, req.size, req.align)
     IN  /\ a.block # NULL   \* BUG_ON(!b)
         /\ page' = [page EXCEPT ![p] = Handed(a.page, a.block, req)]
         /\ IF a.page.units = 0 THEN UNCHANGED lists
                                ELSE set_slob_page_free(p, ListOf(req.size))
         /\ live' = live \cup {Object(p, a.block, req)}
  /\ thread' = [thread EXCEPT ![t] = Idle]
  /\ UNCHANGED <<taken, slab, waiting>>

\* An object that is a page of its own.
PageAlloc(t, cache, size) ==
  /\ thread[t] = Idle
  /\ \E p \in Pages \ taken :
       /\ taken' = taken \cup {p}
       /\ live' = live \cup {Object(p, 0, Request(size, 0, cache))}
  /\ UNCHANGED <<page, slab, lists, waiting, thread>>

FitsWithoutHeader(size) == size < PAGE_SIZE   \* Slip: no room for the header.
FitsInAPage(size) == size < PAGE_SIZE - KmallocAlign

__do_kmalloc_node(t) ==
  \E size \in KmallocSizes :
    IF FitsInAPage(size)
    THEN slob_alloc(t, Request(size + KmallocAlign, KmallocAlign, kmalloc))
    ELSE PageAlloc(t, kmalloc, size)

slob_alloc_node(t) ==
  \E c \in Caches :
    IF CacheSize(c) < PAGE_SIZE
    THEN slob_alloc(t, Request(CacheSize(c), CacheAlign[c], c))
    ELSE PageAlloc(t, c, CacheSize(c))
--------------------------------------------------------------------------------
(* Release *)

\* The page goes back when the rest of it is free.
slob_free(t, p, b, size) ==
  LET units == SLOB_UNITS(size)
  IN  IF page[p].units + units = PageUnits
      THEN /\ lists' = clear_slob_page_free(p)
           /\ thread' = [thread EXCEPT ![t] = [step |-> "release", page |-> p]]
           /\ UNCHANGED <<page, taken, slab>>
      ELSE /\ IF slob_page_free(p)
              THEN /\ page' = [page EXCEPT ![p] = FreeIntoPartial(@, b, units)]
                   /\ UNCHANGED lists
              ELSE /\ page' = [page EXCEPT ![p] = FreeIntoFull(@, b, units)]
                   /\ set_slob_page_free(p, ListOf(size))
           /\ UNCHANGED <<taken, slab, thread>>

ReleasePage(t) ==
  /\ thread[t].step = "release"
  /\ LET p == thread[t].page IN
       /\ slab' = slab \ {p}
       /\ taken' = taken \ {p}
       /\ page' = [page EXCEPT ![p] = JunkPage]
  /\ thread' = [thread EXCEPT ![t] = Idle]
  /\ UNCHANGED <<lists, live, waiting>>

PageFree(p) == /\ taken' = taken \ {p}
               /\ UNCHANGED <<page, slab, lists, thread>>

\* The size comes from the header.
kfree(t) ==
  /\ thread[t] = Idle
  /\ \E o \in {o \in live : o.cache = kmalloc} :
       /\ live' = live \ {o}
       /\ IF o.page \in slab
          THEN slob_free(t, o.page, o.at, page[o.page].mem[o.at] + KmallocAlign)
          ELSE PageFree(o.page)
  /\ UNCHANGED waiting

__kmem_cache_free(t, p, b, size) ==
  IF size < PAGE_SIZE THEN slob_free(t, p, b, size) ELSE PageFree(p)

\* Slip: the units behind the object.
FooterBehind(b, size) == b + size \div SLOB_UNIT

\* The last units of an object of an RCU cache.
Footer(b, size) == b + (size - RcuSize) \div SLOB_UNIT

kmem_cache_free(t) ==
  /\ thread[t] = Idle
  /\ \E o \in {o \in live : o.cache # kmalloc} :
       /\ live' = live \ {o}
       /\ LET size == CacheSize(o.cache)
              foot == Footer(o.at, size)
          IN  IF o.cache \in RcuCaches
              THEN /\ page' = [page EXCEPT ![o.page].mem[foot] = size]
                   /\ waiting' = waiting \cup {[o |-> o, foot |-> foot]}
                   /\ UNCHANGED <<taken, slab, lists, thread>>
              ELSE /\ __kmem_cache_free(t, o.page, o.at, size)
                   /\ UNCHANGED waiting

\* After the grace period, from the footer alone.
kmem_rcu_free(t) ==
  /\ thread[t] = Idle
  /\ \E w \in waiting :
       LET size == page[w.o.page].mem[w.foot]
           b    == w.foot - (size - RcuSize) \div SLOB_UNIT
       IN  /\ waiting' = waiting \ {w}
           /\ __kmem_cache_free(t, w.o.page, b, size)
  /\ UNCHANGED live

Next == \E t \in Threads :
          \/ __do_kmalloc_node(t) \/ slob_alloc_node(t)
          \/ slob_new_pages(t) \/ InstallPage(t)
          \/ kfree(t) \/ kmem_cache_free(t) \/ kmem_rcu_free(t)
          \/ ReleasePage(t)

Spec == Init /\ [][Next]_vars
--------------------------------------------------------------------------------
(* Properties *)

Objects == [page : Pages, at : Offsets, size : 1 .. PAGE_SIZE, cache : Caches \cup {kmalloc}]
Requests == [size : 1 .. PAGE_SIZE - 1, align : 0 .. PAGE_SIZE, cache : Caches \cup {kmalloc}]

\* Every variable keeps its type: no count of free units below zero or above
\* the page, no list that holds anything but pages.
TypeOK ==
  /\ page \in [Pages -> [units : 0 .. PageUnits, freelist : 0 .. PageUnits,
                         mem : [Offsets -> - PageUnits .. PAGE_SIZE]]]
  /\ slab \subseteq taken /\ taken \subseteq Pages
  /\ \A l \in ListNames : lists[l] \in Seq(Pages)
  /\ live \subseteq Objects
  /\ waiting \subseteq [o : Objects, foot : Offsets]
  /\ \A t \in Threads :
       thread[t] \in {Idle} \cup [step : {"grow"}, req : Requests]
                    \cup [step : {"install"}, req : Requests, page : Pages]
                    \cup [step : {"release"}, page : Pages]

held == live \cup {w.o : w \in waiting}
InFlight == {thread[t].page : t \in {u \in Threads : thread[u].step \in {"install", "release"}}}
Settled == slab \ InFlight
HeldUnits(p) == UNION {o.at .. o.at + SLOB_UNITS(o.size) - 1 : o \in {x \in held : x.page = p}}

\* The units that the walk along the free list of a page visits.
FreeUnitsIn(pg) == UNION {f .. f + slob_units(pg.mem, f) - 1 : f \in FreeBlocks(pg)}

\* The walk along a page's free list visits exactly the units that no object
\* has, and sp->units counts them; no two free blocks touch (slob_free joins
\* them, the allocation splits them).
FreeListExact ==
  \A p \in Settled :
    LET pg == page[p] IN
    /\ FreeUnitsIn(pg) = Offsets \ HeldUnits(p)
    /\ pg.units = Cardinality(FreeUnitsIn(pg))
    /\ \A f, g \in FreeBlocks(pg) : f < g => f + slob_units(pg.mem, f) < g

\* "All partially free slob pages go on these lists" (slob.c:110), each on one
\* of them and once; a page with nothing free, or nothing else, is on none.
ListedIffPartlyFree ==
  \A p \in Pages :
    LET places == UNION {{l} \X {i \in DOMAIN lists[l] : lists[l][i] = p} : l \in ListNames}
    IN  Cardinality(places) =
          IF p \in Settled /\ page[p].units \in 1 .. PageUnits - 1 THEN 1 ELSE 0

\* What kfree and kmem_rcu_free read back is what kmalloc and kmem_cache_free
\* wrote: no other object, and no bookkeeping of the free list, went over it.
SizesIntact ==
  /\ \A o \in live :
       o.cache = kmalloc /\ o.page \in slab => page[o.page].mem[o.at] = o.size - KmallocAlign
  /\ \A w \in waiting : page[w.o.page].mem[w.foot] = w.o.size

\* The page allocator has out exactly the pages with an object and those that
\* a thread is about to use or return: none leaks, none is used after it.
NoPageLeaks == taken = {o.page : o \in held} \cup InFlight

\* No page is forgotten or in two places, at any time when slob_lock is free: the
\* page lists and the page allocator agree with what is in the pages.
PagesInPlace == ListedIffPartlyFree /\ NoPageLeaks

\* BUG_ON(!b), slob.c:408: a fresh page has room for what it was taken for.
NoBug ==
  \A t \in Threads :
    thread[t].step = "install" =>
      slob_page_alloc(FreshPage, thread[t].req.size, thread[t].req.align).block # NULL

\* What SlobArena sees of the state.
ArenaObjects == {[page |-> o.page, at |-> o.at, units |-> SLOB_UNITS(o.size)] : o \in held}
ArenaFree == [p \in Pages |-> IF p \in Settled THEN FreeUnitsIn(page[p]) ELSE {}]
ArenaListed == UNION {ToSet(lists[l]) : l \in ListNames}
ArenaThread == [t \in Threads |->
                  CASE thread[t].step = "idle" -> Idle
                    [] thread[t].step = "grow" -> [step |-> "grow"]
                    [] OTHER -> [step |-> thread[t].step, page |-> thread[t].page]]

\* The lists threaded through memory do what sets of free units would, and so keep
\* the promise to the callers: SlobArena implements Heap.
Arena == INSTANCE SlobArena WITH objects <- ArenaObjects, free <- ArenaFree,
                                 listed <- ArenaListed, thread <- ArenaThread
ImplementsArena == Arena!Spec

\* "Not enough space: must allocate a new page" (slob.c:392): a thread goes for
\* a new page only if no page on its list could have served it.
NoNeedlessGrowth ==
  [][\A t \in Threads :
       thread[t] = Idle /\ thread'[t].step = "grow" =>
         LET req == thread'[t].req IN
         \A p \in ToSet(lists[ListOf(req.size)]) : ~Fits(p, req)]_vars

\* "the smallest page that fits our need" (CS444_Writeup4.tex:104): an object
\* placed on a page already in use goes to the page with the fewest free units
\* of those on its list that could serve it.
SmallestPageServes ==
  [][\A o \in live' \ live :
       o.page \in Settled =>
         LET req == Request(o.size, IF o.cache = kmalloc THEN KmallocAlign
                                    ELSE CacheAlign[o.cache], o.cache)
         IN  \A p \in ToSet(lists[ListOf(o.size)]) :
               Fits(p, req) => page[o.page].units <= page[p].units]_vars
================================================================================
