-------------------------------- MODULE SlobPage -------------------------------
(***************************************************************************)
(* One page of the SLOB allocator (Project4/A4NewFiles/slob.c): the free   *)
(* list is threaded through the free units themselves.  mem[o] is the s16  *)
(* at unit o of the page, an offset is a pointer into the page, and        *)
(* PageUnits is the pointer to its end.                                    *)
(***************************************************************************)
EXTENDS Integers, FiniteSetsExt

CONSTANTS
  PageUnits,  \* SLOB_UNITS(PAGE_SIZE)
  SLOB_UNIT   \* bytes of a unit: 2

ASSUME PageSizes == {PageUnits, SLOB_UNIT} \subseteq Nat \ {0}

SLOB_UNITS(size) == (size + SLOB_UNIT - 1) \div SLOB_UNIT

Offsets == 0 .. PageUnits - 1
NULL == -1

\* A block of one unit has room for the offset of the next block only, which
\* is stored with a minus sign.
set_slob(mem, s, size, next) ==
  IF size > 1 THEN [mem EXCEPT ![s] = size, ![s + 1] = next]
              ELSE [mem EXCEPT ![s] = - next]

slob_units(mem, s) == IF mem[s] > 0 THEN mem[s] ELSE 1
slob_next(mem, s) == IF mem[s] < 0 THEN - mem[s] ELSE mem[s + 1]

\* The walk along the free list, as the set of the blocks it visits.  A link
\* that leads back or out of the page ends it: slob_last is the regular end.
FreeBlocks(pg) ==
  LET from[o \in 0 .. PageUnits] ==
        IF o = PageUnits THEN {}
        ELSE {o} \cup IF slob_next(pg.mem, o) \in o + 1 .. PageUnits
                      THEN from[slob_next(pg.mem, o)] ELSE {}
  IN  from[pg.freelist]

BlocksBefore(pg, o) == {f \in FreeBlocks(pg) : f < o}

\* The free list with the link that led to a block replaced: sp->freelist for
\* the first one, otherwise the link of the block before it.
Relink(pg, prevs, next) ==
  IF prevs = {} THEN [pg EXCEPT !.freelist = next]
  ELSE LET prev == Max(prevs) IN
       [pg EXCEPT !.mem = set_slob(@, prev, slob_units(@, prev), next)]

AlignUp(o, align) ==
  IF align = 0 THEN o
  ELSE (((o * SLOB_UNIT + align - 1) \div align) * align) \div SLOB_UNIT

RoomAt(pg, units, align) ==
  {f \in FreeBlocks(pg) :
     slob_units(pg.mem, f) >= units + AlignUp(f, align) - f}

\* The part of a block in front of the aligned address becomes a block.
SplitHead(pg, f, at) ==
  IF at = f THEN pg
  ELSE LET m == pg.mem IN
       [pg EXCEPT !.mem =
          set_slob(set_slob(m, at, slob_units(m, f) - (at - f), slob_next(m, f)),
                   f, at - f, at)]

\* Slip: the remaining block starts one unit early.
UnlinkEarly(pg, at, units) ==
  LET avail == slob_units(pg.mem, at)
      next  == slob_next(pg.mem, at)
      rest  == at + units - 1
  IN  IF avail = units
      THEN Relink(pg, BlocksBefore(pg, at), next)
      ELSE LET linked == Relink(pg, BlocksBefore(pg, at), rest) IN
           [linked EXCEPT !.mem = set_slob(@, rest, avail - units + 1, next)]

\* Takes the first units of the free block at out of the list.
Unlink(pg, at, units) ==
  LET avail == slob_units(pg.mem, at)
      next  == slob_next(pg.mem, at)
      rest  == at + units
  IN  IF avail = units
      THEN Relink(pg, BlocksBefore(pg, at), next)
      ELSE LET linked == Relink(pg, BlocksBefore(pg, at), rest) IN
           [linked EXCEPT !.mem = set_slob(@, rest, avail - units, next)]

\* Slip: bytes are subtracted from units.
slob_page_alloc_bytes(pg, size, align) ==
  LET units == SLOB_UNITS(size)
      rooms == RoomAt(pg, units, align)
  IN  IF rooms = {} THEN [block |-> NULL, page |-> pg]
      ELSE LET f  == Min(rooms)
               at == AlignUp(f, align)
               p  == Unlink(SplitHead(pg, f, at), at, units)
           IN  [block |-> at, page |-> [p EXCEPT !.units = @ - size]]

\* First fit within the page: the block and the page after, or NULL.
slob_page_alloc(pg, size, align) ==
  LET units == SLOB_UNITS(size)
      rooms == RoomAt(pg, units, align)
  IN  IF rooms = {} THEN [block |-> NULL, page |-> pg]
      ELSE LET f  == Min(rooms)
               at == AlignUp(f, align)
               p  == Unlink(SplitHead(pg, f, at), at, units)
           IN  [block |-> at, page |-> [p EXCEPT !.units = @ - units]]

\* What slob_free does to a page that had no free unit.
FreeIntoFull(pg, b, units) ==
  [pg EXCEPT !.units = units, !.freelist = b,
             !.mem = set_slob(@, b, units, PageUnits)]

\* Slip: sp->units is not raised.
FreeAtFrontUncounted(pg, b, units) ==
  [pg EXCEPT !.freelist = b,
             !.mem = IF b + units = pg.freelist
                     THEN set_slob(@, b, units + slob_units(@, pg.freelist),
                                   slob_next(@, pg.freelist))
                     ELSE set_slob(@, b, units, pg.freelist)]

\* In front of the first free block.
FreeAtFront(pg, b, units) ==
  LET first  == pg.freelist
      merges == b + units = first
  IN  [pg EXCEPT
         !.units = @ + units,
         !.freelist = b,
         !.mem = IF merges THEN set_slob(@, b, units + slob_units(@, first),
                                         slob_next(@, first))
                           ELSE set_slob(@, b, units, first)]

\* Slip: the block is not joined with the one before it.
FreeBehindUnjoined(pg, b, units) ==
  LET prev  == Max(BlocksBefore(pg, b))
      next  == slob_next(pg.mem, prev)
      m     == pg.mem
      withB == IF next # PageUnits /\ b + units = next
               THEN set_slob(m, b, units + slob_units(m, next), slob_next(m, next))
               ELSE set_slob(m, b, units, next)
  IN  [pg EXCEPT !.units = @ + units,
                 !.mem = set_slob(withB, prev, slob_units(withB, prev), b)]

\* Behind the last free block prev with an offset below b: first b is joined
\* with the block after it, then prev with b.
FreeBehind(pg, b, units) ==
  LET prev  == Max(BlocksBefore(pg, b))
      next  == slob_next(pg.mem, prev)
      m     == pg.mem
      withB == IF next # PageUnits /\ b + units = next
               THEN set_slob(m, b, units + slob_units(m, next), slob_next(m, next))
               ELSE set_slob(m, b, units, next)
      joins == prev + slob_units(withB, prev) = b
  IN  [pg EXCEPT
         !.units = @ + units,
         !.mem = IF joins
                 THEN set_slob(withB, prev,
                               slob_units(withB, b) + slob_units(withB, prev),
                               slob_next(withB, b))
                 ELSE set_slob(withB, prev, slob_units(withB, prev), b)]

\* What slob_free does to a partially free page.
FreeIntoPartial(pg, b, units) ==
  IF b < pg.freelist THEN FreeAtFront(pg, b, units) ELSE FreeBehind(pg, b, units)

\* What memory holds that the allocator has not written: to a walk that strays
\* into it, a block as long as the page.
Junk == PageUnits
JunkPage == [units |-> 0, freelist |-> PageUnits, mem |-> [o \in Offsets |-> Junk]]

\* A page that slob_new_pages has just returned: one free block.
FreshPage ==
  [units |-> PageUnits, freelist |-> 0,
   mem |-> set_slob(JunkPage.mem, 0, PageUnits, PageUnits)]
================================================================================
