------------------------------- MODULE SlobCounters ----------------------------
(***************************************************************************)
(* The two counters that the assignment adds to slob.c, beside the         *)
(* allocator of module Slob: availUnits, which sys_slob_free returns, and  *)
(* pageCount, from which sys_slob_used is computed.  availUnits is reset   *)
(* before slob_lock is taken, and pageCount changes after it is released:  *)
(* these steps interleave with those of other threads.                     *)
(***************************************************************************)
EXTENDS Slob

CONSTANT Garbage  \* what may lie where "sp->units" of the list head is read

ASSUME GarbageIsInt == Garbage # {} /\ Garbage \subseteq Int

VARIABLES
  availUnits,
  pageCount,
  counting  \* what a thread has to do with the counters

counters == <<availUnits, pageCount, counting>>
allVars == <<vars, counters>>

Not == [at |-> "no"]
Entered == [at |-> "entered"]
Reads(by) == [at |-> "reads", by |-> by]
Writes(by, read) == [at |-> "writes", by |-> by, read |-> read]

CInit == /\ Init
         /\ availUnits = 0 /\ pageCount = 0
         /\ counting = [t \in Threads |-> Not]

Becomes(t, what) == counting' = [counting EXCEPT ![t] = what]

SlobRequests ==
  {Request(size + KmallocAlign, KmallocAlign, kmalloc) : size \in {s \in KmallocSizes : FitsInAPage(s)}}
  \cup {Request(CacheSize(c), CacheAlign[c], c) : c \in {d \in Caches : CacheSize(d) < PAGE_SIZE}}

ResetUnits(t) ==
  /\ counting[t] = Not /\ thread[t] = Idle
  /\ availUnits' = 0
  /\ Becomes(t, Entered)
  /\ UNCHANGED <<vars, pageCount>>

UnitsOn(l, pg, ls) == MapThenSumSet(LAMBDA i : pg[ls[l][i]].units, DOMAIN ls[l])

\* The third loop has an empty body: what looks like its body runs once, on the
\* list head taken for a page.
CountedUnits(pg, ls) ==
  {UnitsOn("small", pg, ls) + UnitsOn("medium", pg, ls) + g : g \in Garbage}

Search(t) ==
  /\ counting[t] = Entered
  /\ \E req \in SlobRequests : slob_alloc(t, req)
  /\ \E n \in CountedUnits(page', lists') : availUnits' = availUnits + n
  /\ Becomes(t, Not)
  /\ UNCHANGED pageCount

Grow(t) == counting[t] = Not /\ slob_new_pages(t) /\ UNCHANGED counters

Install(t) == /\ counting[t] = Not
              /\ InstallPage(t)
              /\ Becomes(t, Reads(1))
              /\ UNCHANGED <<availUnits, pageCount>>

\* Slip: a page that goes back is not counted.
ReleaseUncounted(t) == counting[t] = Not /\ ReleasePage(t) /\ UNCHANGED counters

Release(t) == /\ counting[t] = Not
              /\ ReleasePage(t)
              /\ Becomes(t, Reads(-1))
              /\ UNCHANGED <<availUnits, pageCount>>

ReadCount(t) == /\ counting[t].at = "reads"
                /\ Becomes(t, Writes(counting[t].by, pageCount))
                /\ UNCHANGED <<vars, availUnits, pageCount>>

WriteCount(t) == /\ counting[t].at = "writes"
                 /\ pageCount' = counting[t].read + counting[t].by
                 /\ Becomes(t, Not)
                 /\ UNCHANGED <<vars, availUnits>>

\* Whole pages and all releases leave the counters alone.
Uncounted(t) ==
  /\ counting[t] = Not
  /\ \/ \E size \in KmallocSizes : ~FitsInAPage(size) /\ PageAlloc(t, kmalloc, size)
     \/ \E c \in Caches : CacheSize(c) >= PAGE_SIZE /\ PageAlloc(t, c, CacheSize(c))
     \/ kfree(t) \/ kmem_cache_free(t) \/ kmem_rcu_free(t)
  /\ UNCHANGED counters

CNext == \E t \in Threads :
           \/ ResetUnits(t) \/ Search(t) \/ Grow(t) \/ Install(t) \/ Release(t)
           \/ ReadCount(t) \/ WriteCount(t) \/ Uncounted(t)

\* The system calls that read the counters.
sys_slob_used == SLOB_UNITS(PAGE_SIZE) * pageCount
sys_slob_free == availUnits

CSpec == CInit /\ [][CNext]_allVars
--------------------------------------------------------------------------------
(* Properties *)

Quiet == \A t \in Threads : thread[t] = Idle /\ counting[t] = Not

\* "we must keep a running count of how many pages have been allocated for use"
\* (CS444_Writeup4.tex:106): with no call under way, sys_slob_used
\* returns the units of the pages that the allocator has.
PagesCounted == Quiet => sys_slob_used = PageUnits * Cardinality(slab)

FreeUnits == MapThenSumSet(LAMBDA l : UnitsOn(l, page, lists), ListNames)

\* "tells us how many memory units are available" (slob.c:729): with no call
\* under way, sys_slob_free returns the number of free units on all the lists.
UnitsCounted == Quiet => sys_slob_free = FreeUnits

\* "Observe the free memory in the "small" ... "medium" ... "large" list"
\* (slob.c:367-381): what a search leaves in availUnits is the number of free
\* units on the three lists at that moment.
SearchCountsUnits ==
  [][\A t \in Threads :
       counting[t] = Entered /\ counting'[t] = Not => availUnits' = FreeUnits']_allVars
================================================================================
