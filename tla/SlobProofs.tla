------------------------------- MODULE SlobProofs ------------------------------
(***************************************************************************)
(* The SLOB allocator, for pages of any size, any threads, sizes,          *)
(* alignments and caches.  First one page: its free list is threaded       *)
(* through the free units, and slob_page_alloc and slob_free keep it in    *)
(* order, joined and counted.  Then the allocator: its invariant, that     *)
(* every step is one of SlobArena, and what follows for callers, for the   *)
(* searches and for the counters.                                          *)
(***************************************************************************)
EXTENDS SlobCounters, FiniteSetTheorems, TLAPS

--------------------------------------------------------------------------------
(* A page: the free list threaded through its units *)

\* What an s16 of the page holds: a link, the size of a free block, or what a
\* caller or kmalloc has written.
Shorts == - PageUnits .. PageUnits * SLOB_UNIT
\* The units of a page.
Memories == [Offsets -> Shorts]

\* A free block at s of the given size whose link leads behind it.
IsBlock(s, size, next) ==
  /\ s \in Offsets
  /\ size \in 1 .. PageUnits - s
  /\ next \in s + size .. PageUnits

\* The constants of a page.
LEMMA Sizes ==
  /\ PageUnits \in Nat \ {0} /\ SLOB_UNIT \in Nat \ {0}
  /\ PageUnits * SLOB_UNIT \in Nat /\ PageUnits <= PageUnits * SLOB_UNIT
<1>1. PageUnits \in Nat \ {0} /\ SLOB_UNIT \in Nat \ {0} BY PageSizes
<1>2. \A m, n \in Nat \ {0} : m * n \in Nat /\ m <= m * n OBVIOUS
<1>3. QED BY <1>1, <1>2

\* Links and sizes fit where they are written.
LEMMA ShortsAre == \A n \in Int : - PageUnits <= n /\ n <= PageUnits => n \in Shorts
<1>1. PageUnits \in Nat /\ PageUnits * SLOB_UNIT \in Nat /\ PageUnits <= PageUnits * SLOB_UNIT
  BY Sizes
<1> DEFINE bytes == PageUnits * SLOB_UNIT
<1> HIDE DEF bytes
<1>2. PageUnits \in Nat /\ bytes \in Nat /\ PageUnits <= bytes BY <1>1 DEF bytes
<1>3. \A n \in Int : - PageUnits <= n /\ n <= PageUnits => n \in - PageUnits .. bytes BY <1>2
<1>4. QED BY <1>3 DEF Shorts, bytes

\* A block and its link are in the page.
LEMMA BlockFacts ==
  ASSUME NEW s, NEW size, NEW next, IsBlock(s, size, next)
  PROVE  /\ s \in Nat /\ size \in Nat \ {0} /\ next \in Nat \ {0}
         /\ size > 1 => s + 1 \in Offsets
         /\ s \in Offsets /\ s # s + 1
         /\ size \in Shorts /\ next \in Shorts /\ - next \in Shorts
<1>1. /\ s \in Nat /\ size \in Nat \ {0} /\ next \in Nat \ {0}
      /\ size > 1 => s + 1 \in Offsets
      /\ s \in Offsets /\ s # s + 1
      /\ size <= PageUnits /\ next <= PageUnits /\ PageUnits \in Nat
  BY Sizes DEF IsBlock, Offsets
<1>2. QED BY <1>1, ShortsAre

\* What set_slob writes into the block at s.
Cell(mem, s, size, next) ==
  /\ IsBlock(s, size, next)
  /\ size > 1 => mem[s] = size /\ mem[s + 1] = next
  /\ size = 1 => mem[s] = - next

\* What was written so is read so.
LEMMA CellReads ==
  ASSUME NEW mem, NEW s, NEW size, NEW next, Cell(mem, s, size, next)
  PROVE  slob_units(mem, s) = size /\ slob_next(mem, s) = next
<1>1. s \in Nat /\ size \in Nat \ {0} /\ next \in Nat \ {0} BY BlockFacts DEF Cell
<1>2. CASE size > 1 BY <1>1, <1>2 DEF Cell, slob_units, slob_next
<1>3. CASE size = 1 BY <1>1, <1>3 DEF Cell, slob_units, slob_next
<1>4. QED BY <1>1, <1>2, <1>3

\* And set_slob writes it so, and nothing outside the block.
LEMMA CellWritten ==
  ASSUME NEW mem \in Memories, NEW s, NEW size, NEW next, IsBlock(s, size, next)
  PROVE  Cell(set_slob(mem, s, size, next), s, size, next)
<1>1. s \in Nat /\ size \in Nat \ {0} /\ next \in Nat \ {0} /\ s \in Offsets BY BlockFacts
<1>2. CASE size > 1
  <2>1. s + 1 \in Offsets /\ s # s + 1 BY <1>2, BlockFacts
  <2>2. set_slob(mem, s, size, next) = [mem EXCEPT ![s] = size, ![s + 1] = next]
    BY <1>2 DEF set_slob
  <2>3. /\ set_slob(mem, s, size, next)[s] = size
        /\ set_slob(mem, s, size, next)[s + 1] = next
    BY <1>1, <2>1, <2>2 DEF Memories
  <2>4. QED BY <1>2, <2>3 DEF Cell
<1>3. CASE size = 1
  <2>1. set_slob(mem, s, size, next) = [mem EXCEPT ![s] = - next] BY <1>3 DEF set_slob
  <2>2. set_slob(mem, s, size, next)[s] = - next BY <1>1, <2>1 DEF Memories
  <2>3. QED BY <1>3, <2>2 DEF Cell
<1>4. QED BY <1>1, <1>2, <1>3

\* set_slob, slob_units and slob_next agree on a block: it has the size and the
\* successor that it was given.
THEOREM SetSlobRoundTrip ==
  ASSUME NEW mem \in Memories, NEW s, NEW size, NEW next, IsBlock(s, size, next)
  PROVE  /\ slob_units(set_slob(mem, s, size, next), s) = size
         /\ slob_next(set_slob(mem, s, size, next), s) = next
<1>1. Cell(set_slob(mem, s, size, next), s, size, next) BY CellWritten
<1>2. QED BY ONLY <1>1, CellReads

\* set_slob writes nothing outside the block: the objects and the other free
\* blocks of the page keep what they hold.
THEOREM SetSlobStaysInside ==
  ASSUME NEW mem \in Memories, NEW s, NEW size, NEW next, IsBlock(s, size, next)
  PROVE  /\ set_slob(mem, s, size, next) \in Memories
         /\ \A o \in Offsets \ (s .. s + size - 1) : set_slob(mem, s, size, next)[o] = mem[o]
<1>1. s \in Nat /\ size \in Nat \ {0} /\ next \in Nat \ {0} /\ s \in Offsets
      /\ size \in Shorts /\ next \in Shorts /\ - next \in Shorts
  BY BlockFacts
<1>2. CASE size > 1
  <2>1. set_slob(mem, s, size, next) = [[mem EXCEPT ![s] = size] EXCEPT ![s + 1] = next]
    BY <1>2 DEF set_slob
  <2>2. s \in s .. s + size - 1 /\ s + 1 \in s .. s + size - 1 BY <1>1, <1>2
  <2>3. set_slob(mem, s, size, next) \in Memories BY <1>1, <2>1 DEF Memories
  <2>4. ASSUME NEW o \in Offsets \ (s .. s + size - 1)
        PROVE  set_slob(mem, s, size, next)[o] = mem[o]
    <3>1. o # s /\ o # s + 1 BY <2>2
    <3>2. QED BY <2>1, <3>1 DEF Memories
  <2>5. QED BY <2>3, <2>4
<1>3. CASE ~(size > 1)
  <2>1. set_slob(mem, s, size, next) = [mem EXCEPT ![s] = - next] BY <1>3 DEF set_slob
  <2>2. s \in s .. s + size - 1 BY <1>1
  <2>3. set_slob(mem, s, size, next) \in Memories BY <1>1, <2>1 DEF Memories
  <2>4. QED BY <2>1, <2>2, <2>3 DEF Memories
<1>4. QED BY <1>2, <1>3

\* A block that nothing was written into.
LEMMA CellKept ==
  ASSUME NEW mem, NEW mem2, NEW s, NEW size, NEW next, Cell(mem, s, size, next),
         \A o \in s .. s + size - 1 : mem2[o] = mem[o]
  PROVE  Cell(mem2, s, size, next)
<1>1. s \in Nat /\ size \in Nat \ {0} BY BlockFacts DEF Cell
<1>2. s \in s .. s + size - 1 /\ (size > 1 => s + 1 \in s .. s + size - 1) BY <1>1
<1>3. QED BY <1>1, <1>2 DEF Cell

--------------------------------------------------------------------------------
\* The least and the greatest offset of a set.
LEMMA MinOf ==
  ASSUME NEW S \in SUBSET Nat, S # {}
  PROVE  Min(S) \in S /\ \A o \in S : Min(S) <= o
<1>1. PICK x \in S : \A y \in S : <<y, x>> \notin OpToRel(<, Nat)
  BY WFMin, NatLessThanWellFounded
<1>2. \A y \in S : x <= y
  <2> SUFFICES ASSUME NEW y \in S, y < x PROVE FALSE OBVIOUS
  <2>1. <<y, x>> \in OpToRel(<, Nat) BY DEF OpToRel
  <2>2. QED BY <1>1, <2>1
<1>3. QED BY <1>2 DEF Min

\* And the greatest.
LEMMA MaxOf ==
  ASSUME NEW S \in SUBSET Nat, S # {}, NEW n \in Nat, \A o \in S : o <= n
  PROVE  Max(S) \in S /\ \A o \in S : o <= Max(S)
<1> DEFINE T == {k \in Nat : n - k \in S}
<1>1. T # {}
  <2>1. PICK o \in S : TRUE OBVIOUS
  <2>2. n - o \in T BY <2>1
  <2>3. QED BY <2>2
<1>2. T \in SUBSET Nat OBVIOUS
<1> HIDE DEF T
<1>3. PICK x \in T : \A y \in T : <<y, x>> \notin OpToRel(<, Nat)
  BY <1>1, <1>2, WFMin, NatLessThanWellFounded
<1>4. \A y \in T : x <= y
  <2> SUFFICES ASSUME NEW y \in T, y < x PROVE FALSE BY <1>2
  <2>1. <<y, x>> \in OpToRel(<, Nat) BY <1>2 DEF OpToRel
  <2>2. QED BY <1>3, <2>1
<1>5. n - x \in S /\ \A o \in S : o <= n - x
  <2>1. n - x \in S BY DEF T
  <2>2. ASSUME NEW o \in S PROVE o <= n - x
    <3>1. n - o \in T BY DEF T
    <3>2. x \in Nat BY DEF T
    <3>3. QED BY <1>4, <3>1, <3>2
  <2>3. QED BY <2>1, <2>2
<1>6. QED BY <1>5 DEF Max

--------------------------------------------------------------------------------
(* The free list as the set B of the blocks on it. *)

\* n is the first block of B from o on, or the end of the page.
IsNext(B, o, n) ==
  /\ n \in B \cup {PageUnits} /\ o <= n
  /\ \A g \in B : o <= g => n <= g

\* The size and the link of a block.
Size(pg, s) == slob_units(pg.mem, s)
Link(pg, s) == slob_next(pg.mem, s)

\* The list goes through the blocks of B, in the order of the page, and no block
\* reaches into the next one.
Linked(pg, B) ==
  /\ pg.mem \in Memories /\ B \subseteq Offsets
  /\ IsNext(B, 0, pg.freelist)
  /\ \A s \in B : Cell(pg.mem, s, Size(pg, s), Link(pg, s)) /\ IsNext(B, s + 1, Link(pg, s))

\* The units of the blocks.
Covered(pg, B) == UNION {s .. s + Size(pg, s) - 1 : s \in B}

\* No two blocks touch.
Separate(pg, B) == \A f, g \in B : f < g => f + Size(pg, f) < g

\* A block on an ordered list is in the page.
LEMMA InPage ==
  ASSUME NEW pg, NEW B, Linked(pg, B), NEW s \in B
  PROVE  /\ s \in Offsets /\ s \in Nat /\ Size(pg, s) \in Nat \ {0} /\ Link(pg, s) \in Nat \ {0}
         /\ s + Size(pg, s) <= Link(pg, s) /\ Link(pg, s) <= PageUnits
         /\ \A g \in B : g \in Nat /\ (s < g => Link(pg, s) <= g)
<1>1. Cell(pg.mem, s, Size(pg, s), Link(pg, s)) /\ IsNext(B, s + 1, Link(pg, s)) /\ B \subseteq Offsets
  BY DEF Linked
<1>2. IsBlock(s, Size(pg, s), Link(pg, s)) BY <1>1 DEF Cell
<1>3. PageUnits \in Nat BY Sizes
<1>4. s \in Nat /\ Size(pg, s) \in Nat \ {0} /\ Link(pg, s) \in Nat \ {0} BY <1>2, BlockFacts
<1>5. s + Size(pg, s) <= Link(pg, s) /\ Link(pg, s) <= PageUnits BY <1>2, <1>3, <1>4 DEF IsBlock
<1>6. \A g \in B : g \in Nat /\ (s < g => Link(pg, s) <= g)
  BY <1>1, <1>3, <1>4 DEF IsNext, Offsets
<1>7. QED BY <1>1, <1>4, <1>5, <1>6

\* Of two blocks one ends before the other begins.
LEMMA BlocksApart ==
  ASSUME NEW pg, NEW B, Linked(pg, B), NEW f \in B, NEW g \in B, f < g
  PROVE  f + Size(pg, f) <= g
BY InPage

\* The walk along the links of a page is defined, wherever they lead: it is the
\* least set that holds the block it starts at, and with a block the next one.
LEMMA WalkExists ==
  ASSUME NEW next
  PROVE  \E from : from = [o \in 0 .. PageUnits |->
           IF o = PageUnits THEN {}
           ELSE {o} \cup IF next[o] \in o + 1 .. PageUnits THEN from[next[o]] ELSE {}]
<1> DEFINE N == PageUnits
           Closed(S) == \A s \in S : next[s] \in s + 1 .. N - 1 => next[s] \in S
           Holding(o) == {S \in SUBSET Offsets : Closed(S) /\ (o # N => o \in S)}
           from == [o \in 0 .. N |-> {u \in Offsets : \A S \in Holding(o) : u \in S}]
           step(o) == IF o = N THEN {}
                      ELSE {o} \cup IF next[o] \in o + 1 .. N THEN from[next[o]] ELSE {}
<1>1. N \in Nat /\ Offsets = 0 .. N - 1 BY Sizes DEF Offsets
<1>2. \A o \in 0 .. N : from[o] \subseteq Offsets /\ Closed(from[o]) /\ (o # N => o \in from[o])
  <2> SUFFICES ASSUME NEW o \in 0 .. N
               PROVE  from[o] \subseteq Offsets /\ Closed(from[o]) /\ (o # N => o \in from[o])
    OBVIOUS
  <2>1. from[o] = {u \in Offsets : \A S \in Holding(o) : u \in S} OBVIOUS
  <2>2. o # N => o \in from[o] BY <1>1, <2>1
  <2>3. ASSUME NEW s \in from[o], next[s] \in s + 1 .. N - 1 PROVE next[s] \in from[o]
    <3>1. next[s] \in Offsets BY <1>1, <2>1, <2>3
    <3>2. \A S \in Holding(o) : next[s] \in S BY <2>1, <2>3
    <3>3. QED BY <2>1, <3>1, <3>2
  <2>4. QED BY <2>1, <2>2, <2>3
<1>3. \A o \in 0 .. N : \A S \in Holding(o) : from[o] \subseteq S OBVIOUS
<1> HIDE DEF from
<1>4. ASSUME NEW o \in 0 .. N PROVE from[o] = step(o)
  <2>1. CASE o = N
    <3>1. {} \in Holding(o) BY <2>1
    <3>2. from[o] \subseteq {} BY <1>3, <3>1
    <3>3. QED BY <2>1, <3>2
  <2>2. CASE o # N /\ next[o] \in o + 1 .. N
    <3> DEFINE n == next[o]
               S == {o} \cup from[n]
    <3>1. n \in 0 .. N /\ o \in Offsets BY <1>1, <2>2
    <3> HIDE DEF n
    <3>2. S \subseteq Offsets BY <1>2, <3>1
    <3>3. Closed(S)
      <4>1. next[o] \in o + 1 .. N - 1 => next[o] \in S BY <1>1, <1>2, <3>1 DEF n
      <4>2. \A s \in from[n] : next[s] \in s + 1 .. N - 1 => next[s] \in S BY <1>2, <3>1
      <4>3. QED BY <4>1, <4>2
    <3>4. from[o] \subseteq S
      <4>1. S \in Holding(o) BY <3>2, <3>3
      <4> HIDE DEF S
      <4>2. QED BY <1>3, <4>1
    <3>5. o \in from[o] BY <1>2, <2>2
    <3>6. from[o] \in Holding(n)
      <4>1. from[o] \in SUBSET Offsets /\ Closed(from[o]) BY <1>2
      <4>2. n # N => n \in from[o]
        <5>1. n # N => next[o] \in o + 1 .. N - 1 BY <1>1, <2>2 DEF n
        <5>2. QED BY <3>5, <4>1, <5>1 DEF n
      <4>3. QED BY <4>1, <4>2
    <3>7. from[n] \subseteq from[o] BY <1>3, <3>1, <3>6
    <3>8. from[o] = {o} \cup from[n] BY <3>4, <3>5, <3>7
    <3>9. QED BY <2>2, <3>8 DEF n
  <2>3. CASE o # N /\ next[o] \notin o + 1 .. N
    <3>1. {o} \in Holding(o)
      <4>1. {o} \subseteq Offsets BY <1>1, <2>3
      <4>2. Closed({o}) BY <1>1, <2>3
      <4>3. QED BY <4>1, <4>2
    <3>2. from[o] \subseteq {o} /\ o \in from[o] BY <1>2, <1>3, <2>3, <3>1
    <3>3. QED BY <2>3, <3>2
  <2>4. QED BY <2>1, <2>2, <2>3
<1>5. from = [o \in 0 .. N |-> from[o]] BY DEF from
<1>6. from = [o \in 0 .. N |-> step(o)] BY <1>4, <1>5
<1>7. QED BY <1>6

\* It visits the blocks of B, and ends.
LEMMA Walk ==
  ASSUME NEW pg, NEW B, Linked(pg, B)
  PROVE  FreeBlocks(pg) = B
<1> DEFINE next == [o \in 0 .. PageUnits |-> slob_next(pg.mem, o)]
           walk == CHOOSE from : from = [o \in 0 .. PageUnits |->
                     IF o = PageUnits THEN {}
                     ELSE {o} \cup IF slob_next(pg.mem, o) \in o + 1 .. PageUnits
                                   THEN from[slob_next(pg.mem, o)] ELSE {}]
           step(o) == IF o = PageUnits THEN {}
                      ELSE {o} \cup IF Link(pg, o) \in o + 1 .. PageUnits
                                    THEN walk[Link(pg, o)] ELSE {}
           bad == {o \in B \cup {PageUnits} : walk[o] # {f \in B : o <= f}}
<1>1. FreeBlocks(pg) = walk[pg.freelist] BY DEF FreeBlocks
<1>2. walk = [o \in 0 .. PageUnits |-> step(o)]
  <2>1. PICK from : from = [o \in 0 .. PageUnits |->
           IF o = PageUnits THEN {}
           ELSE {o} \cup IF next[o] \in o + 1 .. PageUnits THEN from[next[o]] ELSE {}]
    BY WalkExists
  <2>2. \A o \in 0 .. PageUnits : next[o] = slob_next(pg.mem, o) OBVIOUS
  <2> HIDE DEF next
  <2>3. from = [o \in 0 .. PageUnits |->
                     IF o = PageUnits THEN {}
                     ELSE {o} \cup IF slob_next(pg.mem, o) \in o + 1 .. PageUnits
                                   THEN from[slob_next(pg.mem, o)] ELSE {}]
    BY <2>1, <2>2
  <2>4. QED BY <2>3 DEF Link
<1> HIDE DEF walk
<1>3. PageUnits \in Nat /\ B \subseteq Offsets /\ Offsets \subseteq Nat
      /\ \A o \in Offsets : o < PageUnits
  BY Sizes DEF Linked, Offsets
<1>4. \A o \in 0 .. PageUnits : walk[o] = step(o) BY <1>2
<1>5. bad = {}
  <2> SUFFICES ASSUME bad # {} PROVE FALSE OBVIOUS
  <2>0. \A o \in B \cup {PageUnits} : o \in Nat /\ o <= PageUnits /\ o \in 0 .. PageUnits
    <3>1. \A o \in B : o \in Nat /\ o < PageUnits BY <1>3
    <3>2. ASSUME NEW o \in B \cup {PageUnits} PROVE o \in Nat /\ o <= PageUnits BY <1>3, <3>1
    <3>3. QED BY <1>3, <3>2
  <2>1. bad \in SUBSET Nat /\ \A o \in bad : o <= PageUnits BY <2>0
  <2>2. PICK o \in bad : \A b \in bad : b <= o
    <3> HIDE DEF bad
    <3>1. QED BY <1>3, <2>1, MaxOf
  <2>3. CASE o = PageUnits
    <3>1. walk[o] = {} BY <2>0, <1>4, <2>3
    <3>2. \A f \in B : f \in Nat /\ f < PageUnits BY <1>3
    <3>5. \A f \in B : ~ (o <= f) BY <1>3, <2>3, <3>2
    <3>4. {f \in B : o <= f} = {} BY <3>5
    <3>3. QED BY <3>1, <3>4
  <2>4. CASE o # PageUnits
    <3>1. o \in B BY <2>4
    <3> DEFINE n == Link(pg, o)
    <3>2. n \in o + 1 .. PageUnits /\ n \in B \cup {PageUnits} /\ o \in 0 .. PageUnits
      <4>1. IsNext(B, o + 1, n) BY <3>1 DEF Linked
      <4>2. n \in Nat /\ n <= PageUnits /\ o \in Nat BY <3>1, InPage
      <4> HIDE DEF n
      <4>3. QED BY <1>3, <2>0, <4>1, <4>2 DEF IsNext
    <3>3. walk[o] = {o} \cup walk[n] BY <1>4, <2>4, <3>2
    <3>4. n \notin bad BY <1>3, <2>1, <2>2, <3>2
    <3>5. walk[n] = {f \in B : n <= f} BY <3>2, <3>4
    <3>6. \A f \in B : o <= f <=> f = o \/ n <= f
      BY <1>3, <3>1, <3>2, InPage
    <3>7. {f \in B : o <= f} = {o} \cup {f \in B : n <= f} BY <3>1, <3>6
    <3>8. QED BY <3>3, <3>5, <3>7
  <2>5. QED BY <2>3, <2>4
<1>6. pg.freelist \in B \cup {PageUnits} /\ \A f \in B : pg.freelist <= f
  BY <1>3 DEF Linked, IsNext
<1>7. walk[pg.freelist] = {f \in B : pg.freelist <= f} BY <1>5, <1>6
<1>8. QED BY <1>1, <1>6, <1>7

\* What struct slob_page and the page hold.
PageRecords == [units : 0 .. PageUnits, freelist : 0 .. PageUnits, mem : Memories]

\* The last block in front of b, if there is one, is that which leads to the next.
LEMMA Before ==
  ASSUME NEW pg, NEW B, Linked(pg, B), NEW o \in Nat, BlocksBefore(pg, o) # {}
  PROVE  LET prev == Max(BlocksBefore(pg, o)) IN
         /\ prev \in B /\ prev < o
         /\ \A f \in B : f < o => f <= prev
         /\ o <= PageUnits => o <= Link(pg, prev)
<1> DEFINE prev == Max(BlocksBefore(pg, o))
<1>1. BlocksBefore(pg, o) = {f \in B : f < o} BY Walk DEF BlocksBefore
<1>2. \A f \in B : f \in Nat BY InPage
<1>3. BlocksBefore(pg, o) \in SUBSET Nat /\ \A f \in BlocksBefore(pg, o) : f <= o
  <2>1. \A f \in BlocksBefore(pg, o) : f \in B /\ f < o BY <1>1
  <2>2. ASSUME NEW f \in BlocksBefore(pg, o) PROVE f \in Nat /\ f <= o
    <3>1. f \in Nat /\ f < o BY <1>2, <2>1
    <3>2. QED BY <3>1
  <2>3. QED BY <2>2
<1>4. prev \in BlocksBefore(pg, o) /\ \A f \in BlocksBefore(pg, o) : f <= prev BY <1>3, MaxOf
<1> HIDE DEF prev
<1>5. prev \in B /\ prev < o /\ \A f \in B : f < o => f <= prev BY <1>1, <1>4
<1>6. IsNext(B, prev + 1, Link(pg, prev)) BY <1>5 DEF Linked
<1>7. o <= PageUnits => o <= Link(pg, prev)
  <2> SUFFICES ASSUME o <= PageUnits, Link(pg, prev) < o PROVE FALSE BY <1>5, InPage
  <2>1. Link(pg, prev) \in B \cup {PageUnits} /\ prev + 1 <= Link(pg, prev) BY <1>6 DEF IsNext
  <2>2. Link(pg, prev) \in B BY <2>1, Sizes
  <2>3. Link(pg, prev) <= prev BY <1>5, <2>2
  <2>4. Link(pg, prev) \in Nat /\ prev \in Nat BY <1>5, InPage
  <2>5. QED BY <2>1, <2>3, <2>4
<1>8. QED BY <1>5, <1>7 DEF prev

\* What lies behind prev is now next, whether prev is a block or the page itself.
LEMMA Relinks ==
  ASSUME NEW pg \in PageRecords, NEW B, Linked(pg, B), NEW prevs \in SUBSET B, NEW prev,
         prevs # {} => prev \in B /\ prev = Max(prevs),
         NEW next \in 0 .. PageUnits, prevs # {} => prev + Size(pg, prev) <= next
  PROVE  LET after == Relink(pg, prevs, next) IN
         /\ after \in PageRecords /\ after.units = pg.units
         /\ prevs = {} => after.freelist = next /\ after.mem = pg.mem
         /\ prevs # {} => /\ after.freelist = pg.freelist
                          /\ Cell(after.mem, prev, Size(pg, prev), next)
                          /\ \A o \in Offsets \ (prev .. prev + Size(pg, prev) - 1) :
                               after.mem[o] = pg.mem[o]
<1> DEFINE after == Relink(pg, prevs, next)
<1>1. CASE prevs = {}
  <2>1. after = [pg EXCEPT !.freelist = next] BY <1>1 DEF Relink
  <2>2. after \in PageRecords /\ after.units = pg.units /\ after.freelist = next /\ after.mem = pg.mem
    BY <2>1 DEF PageRecords
  <2>3. QED BY <1>1, <2>2
<1>2. CASE prevs # {}
  <2> DEFINE m == set_slob(pg.mem, prev, Size(pg, prev), next)
  <2>1. after = [pg EXCEPT !.mem = m] BY <1>2 DEF Relink, Size, PageRecords
  <2>2. IsBlock(prev, Size(pg, prev), next)
    <3>1. /\ prev \in Offsets /\ prev \in Nat /\ Size(pg, prev) \in Nat \ {0}
          /\ prev + Size(pg, prev) <= PageUnits
      BY <1>2, InPage, Sizes
    <3>2. next \in Nat /\ next <= PageUnits /\ PageUnits \in Nat BY Sizes
    <3>3. QED BY <1>2, <3>1, <3>2 DEF IsBlock
  <2>3. pg.mem \in Memories BY DEF PageRecords
  <2>4. m \in Memories /\ Cell(m, prev, Size(pg, prev), next)
        /\ \A o \in Offsets \ (prev .. prev + Size(pg, prev) - 1) : m[o] = pg.mem[o]
    BY <2>2, <2>3, CellWritten, SetSlobStaysInside
  <2> HIDE DEF m
  <2>5. after \in PageRecords /\ after.units = pg.units /\ after.freelist = pg.freelist /\ after.mem = m
    BY <2>1, <2>4 DEF PageRecords
  <2>6. QED BY <1>2, <2>4, <2>5
<1>3. QED BY <1>1, <1>2

\* Blocks that are put on a list one by one: what Linked asks of each.
LEMMA LinkedBy ==
  ASSUME NEW pg, NEW B, pg.mem \in Memories, B \subseteq Offsets, IsNext(B, 0, pg.freelist),
         NEW size, NEW next,
         \A s \in B : Cell(pg.mem, s, size[s], next[s]) /\ IsNext(B, s + 1, next[s])
  PROVE  Linked(pg, B) /\ \A s \in B : Size(pg, s) = size[s]
<1>1. \A s \in B : Size(pg, s) = size[s] /\ Link(pg, s) = next[s] BY CellReads DEF Size, Link
<1>2. QED BY <1>1 DEF Linked

\* A block has lost its first units, or all.
Unlinked(pg, B, at, units, after) ==
  LET avail == Size(pg, at)
      left  == IF units = avail THEN B \ {at} ELSE (B \ {at}) \cup {at + units}
  IN  /\ after \in PageRecords /\ after.units = pg.units
      /\ Linked(after, left)
      /\ \A s \in B \ {at} : Size(after, s) = Size(pg, s)
      /\ units # avail => Size(after, at + units) = avail - units
      /\ \A o \in Offsets \ Covered(pg, B) : after.mem[o] = pg.mem[o]

\* Unlink does that, and the list stays in order.
LEMMA Unlinks ==
  ASSUME NEW pg \in PageRecords, NEW B, Linked(pg, B), NEW at \in B, NEW units \in 1 .. Size(pg, at)
  PROVE  Unlinked(pg, B, at, units, Unlink(pg, at, units))
<1> DEFINE after == Unlink(pg, at, units)
           avail == Size(pg, at)
           next  == Link(pg, at)
           rest  == at + units
           whole == units = avail
           left  == IF whole THEN B \ {at} ELSE (B \ {at}) \cup {rest}
           prevs == BlocksBefore(pg, at)
           prev  == Max(prevs)
           to    == IF whole THEN next ELSE rest
           linked == Relink(pg, prevs, to)
<1>1. /\ at \in Nat /\ at \in Offsets /\ avail \in Nat \ {0} /\ next \in Nat /\ at + avail <= next
      /\ next <= PageUnits /\ PageUnits \in Nat /\ units \in Nat \ {0} /\ units <= avail
      /\ rest \in Nat /\ (~whole => units < avail /\ rest < at + avail)
  BY InPage, Sizes
<1>2. prevs # {} => /\ prev \in B /\ prev < at /\ \A f \in B : f < at => f <= prev
                    /\ at <= Link(pg, prev) /\ prev + Size(pg, prev) <= at
  <2>1. at <= PageUnits BY <1>1
  <2> HIDE DEF prevs, avail, next, whole
  <2>2. prevs # {} => /\ prev \in B /\ prev < at /\ \A f \in B : f < at => f <= prev
                      /\ at <= Link(pg, prev)
    BY <1>1, <2>1, Before DEF prevs
  <2>3. QED BY <2>2, BlocksApart
<1>3. prevs = {f \in B : f < at} BY Walk DEF BlocksBefore
<1> HIDE DEF avail, next, whole, prev, prevs
<1>4. to \in 0 .. PageUnits /\ (prevs # {} => prev + Size(pg, prev) <= to)
  <2>1. CASE whole
    <3>1. to = next BY <2>1
    <3>2. prevs # {} => prev \in Nat /\ Size(pg, prev) \in Nat BY <1>2, InPage
    <3>3. QED BY <1>1, <1>2, <3>1, <3>2
  <2>2. CASE ~whole
    <3>1. to = rest BY <2>2
    <3>2. prevs # {} => prev \in Nat /\ Size(pg, prev) \in Nat BY <1>2, InPage
    <3>3. QED BY <1>1, <1>2, <2>2, <3>1, <3>2
  <2>3. QED BY <2>1, <2>2
<1> HIDE DEF to, linked, rest
<1>5. /\ linked \in PageRecords /\ linked.units = pg.units
      /\ prevs = {} => linked.freelist = to /\ linked.mem = pg.mem
      /\ prevs # {} => /\ linked.freelist = pg.freelist
                       /\ Cell(linked.mem, prev, Size(pg, prev), to)
                       /\ \A o \in Offsets \ (prev .. prev + Size(pg, prev) - 1) :
                            linked.mem[o] = pg.mem[o]
  <2>1. prevs \in SUBSET B BY <1>3
  <2>2. prevs # {} => prev = Max(prevs) BY DEF prev
  <2>3. QED BY <1>2, <1>4, <2>1, <2>2, Relinks DEF linked
<1> DEFINE m == set_slob(linked.mem, rest, avail - units, next)
<1>6. after = IF whole THEN linked ELSE [linked EXCEPT !.mem = m]
  BY <1>5 DEF Unlink, whole, avail, next, rest, to, prevs, linked, PageRecords, Size, Link
<1>7. ~whole => /\ IsBlock(rest, avail - units, next) /\ rest \in Offsets
                /\ rest \in Nat /\ avail - units \in Nat \ {0}
                /\ rest + (avail - units) = at + avail
  <2> SUFFICES ASSUME ~whole
               PROVE  /\ IsBlock(rest, avail - units, next) /\ rest \in Offsets
                      /\ rest \in Nat /\ avail - units \in Nat \ {0}
                      /\ rest + (avail - units) = at + avail
    OBVIOUS
  <2>1. rest = at + units /\ rest \in Nat BY <1>1 DEF rest
  <2>2. avail - units \in Nat \ {0} /\ rest + (avail - units) = at + avail BY <1>1, <2>1
  <2>3. rest \in Offsets BY <1>1, <2>1 DEF Offsets
  <2>4. avail - units \in 1 .. PageUnits - rest BY <1>1, <2>1, <2>2
  <2>5. next \in rest + (avail - units) .. PageUnits BY <1>1, <2>2
  <2>6. QED BY <2>1, <2>2, <2>3, <2>4, <2>5 DEF IsBlock
<1>8. ~whole => /\ m \in Memories /\ Cell(m, rest, avail - units, next)
                /\ \A o \in Offsets \ (rest .. at + avail - 1) : m[o] = linked.mem[o]
  <2> SUFFICES ASSUME ~whole
               PROVE  /\ m \in Memories /\ Cell(m, rest, avail - units, next)
                      /\ \A o \in Offsets \ (rest .. at + avail - 1) : m[o] = linked.mem[o]
    OBVIOUS
  <2>1. linked.mem \in Memories BY <1>5 DEF PageRecords
  <2>2. IsBlock(rest, avail - units, next) /\ rest + (avail - units) = at + avail BY <1>7
  <2> DEFINE size == avail - units
  <2>3. IsBlock(rest, size, next) /\ m = set_slob(linked.mem, rest, size, next) BY <2>2
  <2> HIDE DEF size, m
  <2>4. /\ m \in Memories /\ Cell(m, rest, size, next)
        /\ \A o \in Offsets \ (rest .. rest + size - 1) : m[o] = linked.mem[o]
    BY ONLY <2>1, <2>3, CellWritten, SetSlobStaysInside
  <2>5. rest + size - 1 = at + avail - 1 BY <1>1, <1>7 DEF size
  <2>6. m \in Memories /\ Cell(m, rest, avail - units, next) BY <2>4 DEF size
  <2>7. \A o \in Offsets \ (rest .. at + avail - 1) : m[o] = linked.mem[o] BY <2>4, <2>5
  <2>8. QED BY <2>6, <2>7
<1> HIDE DEF m, after
<1>9. /\ after \in PageRecords /\ after.units = pg.units /\ after.freelist = linked.freelist
      /\ after.mem \in Memories
      /\ whole => after.mem = linked.mem
      /\ ~whole => after.mem = m
  BY <1>5, <1>6, <1>8 DEF PageRecords
<1>10. \A o \in Offsets : o \notin at .. at + avail - 1 => after.mem[o] = linked.mem[o]
  <2>1. CASE whole BY <1>9, <2>1
  <2>2. CASE ~whole
    <3>1. \A o \in Offsets : o \in rest .. at + avail - 1 => o \in at .. at + avail - 1
      BY <1>1 DEF Offsets, rest
    <3>2. QED BY <1>8, <1>9, <2>2, <3>1
  <2>3. QED BY <2>1, <2>2
<1>11. \A o \in Offsets \ Covered(pg, B) : after.mem[o] = pg.mem[o]
  <2> SUFFICES ASSUME NEW o \in Offsets \ Covered(pg, B) PROVE after.mem[o] = pg.mem[o] OBVIOUS
  <2>1. o \notin at .. at + avail - 1 BY DEF Covered, avail
  <2>2. prevs # {} => o \notin prev .. prev + Size(pg, prev) - 1 BY <1>2 DEF Covered
  <2>3. QED BY <1>5, <1>10, <2>1, <2>2
<1> DEFINE sizes == [s \in left |-> IF s \in B THEN Size(pg, s) ELSE avail - units]
           links == [s \in left |-> IF prevs # {} /\ s = prev THEN to
                                    ELSE IF s \in B THEN Link(pg, s) ELSE next]
<1>12. ASSUME NEW s \in B, s # at, ~(prevs # {} /\ s = prev)
       PROVE  Cell(after.mem, s, Size(pg, s), Link(pg, s)) /\ IsNext(left, s + 1, Link(pg, s))
  <2>1. /\ s \in Nat /\ Size(pg, s) \in Nat \ {0} /\ s + Size(pg, s) <= PageUnits
        /\ Cell(pg.mem, s, Size(pg, s), Link(pg, s)) /\ IsNext(B, s + 1, Link(pg, s))
    <3>1. /\ s \in Nat /\ Size(pg, s) \in Nat \ {0} /\ s + Size(pg, s) <= Link(pg, s)
          /\ Link(pg, s) <= PageUnits /\ PageUnits \in Nat /\ Link(pg, s) \in Nat
      BY InPage, Sizes
    <3>2. s + Size(pg, s) <= PageUnits BY ONLY <3>1
    <3>3. Cell(pg.mem, s, Size(pg, s), Link(pg, s)) /\ IsNext(B, s + 1, Link(pg, s)) BY DEF Linked
    <3>4. QED BY <3>1, <3>2, <3>3
  <2>2. ASSUME NEW f \in B, s # f, NEW o \in s .. s + Size(pg, s) - 1
        PROVE  o \notin f .. f + Size(pg, f) - 1
    <3>1. s < f \/ f < s BY <2>2, InPage
    <3>2. s < f => s + Size(pg, s) <= f BY BlocksApart
    <3>3. f < s => f + Size(pg, f) <= s BY BlocksApart
    <3>4. f \in Nat /\ Size(pg, f) \in Nat BY InPage
    <3>5. QED BY <2>1, <2>2, <3>1, <3>2, <3>3, <3>4
  <2>3. ASSUME NEW o \in s .. s + Size(pg, s) - 1 PROVE after.mem[o] = pg.mem[o]
    <3>1. o \in Offsets BY <2>1, Sizes DEF Offsets
    <3>2. o \notin at .. at + avail - 1 BY <1>12, <2>2 DEF avail
    <3>3. prevs # {} => o \notin prev .. prev + Size(pg, prev) - 1 BY <1>2, <1>12, <2>2
    <3>4. QED BY <1>5, <1>10, <3>1, <3>2, <3>3
  <2>4. Cell(after.mem, s, Size(pg, s), Link(pg, s)) BY <2>1, <2>3, CellKept
  <2>5. /\ Link(pg, s) \in B \cup {PageUnits} /\ s + 1 <= Link(pg, s) /\ Link(pg, s) \in Nat
        /\ \A g \in B : s + 1 <= g => Link(pg, s) <= g
    BY <2>1, InPage DEF IsNext
  <2>6. Link(pg, s) # at
    <3> SUFFICES ASSUME Link(pg, s) = at PROVE FALSE OBVIOUS
    <3>1. s < at BY <1>1, <2>1, <2>5
    <3>2. prevs # {} /\ s <= prev /\ prev \in Nat BY <1>2, <1>3, <3>1, InPage
    <3>3. s < prev BY <1>12, <2>1, <3>2
    <3>4. at <= prev BY <1>2, <2>1, <2>5, <3>2, <3>3
    <3>5. QED BY <1>1, <1>2, <3>2, <3>4
  <2>7. ~whole /\ s + 1 <= rest => Link(pg, s) <= rest
    <3> SUFFICES ASSUME ~whole, s + 1 <= rest PROVE Link(pg, s) <= rest OBVIOUS
    <3>1. ~(at < s) BY <1>1, <2>1, BlocksApart DEF avail, rest
    <3>2. s + 1 <= at BY <1>1, <1>12, <2>1, <3>1
    <3>3. QED BY <1>1, <2>5, <3>2 DEF rest
  <2>8. IsNext(left, s + 1, Link(pg, s)) BY <2>5, <2>6, <2>7 DEF IsNext
  <2>9. QED BY <2>4, <2>8
<1>13. ASSUME prevs # {}
       PROVE  Cell(after.mem, prev, Size(pg, prev), to) /\ IsNext(left, prev + 1, to)
  <2>1. /\ prev \in Nat /\ Size(pg, prev) \in Nat \ {0} /\ prev + Size(pg, prev) <= at
        /\ prev + Size(pg, prev) <= PageUnits
    BY <1>2, <1>13, InPage, Sizes
  <2>2. ASSUME NEW o \in prev .. prev + Size(pg, prev) - 1 PROVE after.mem[o] = linked.mem[o]
    <3>1. o \in Offsets /\ o \notin at .. at + avail - 1 BY <1>1, <2>1 DEF Offsets
    <3>2. QED BY <1>10, <3>1
  <2>3. Cell(after.mem, prev, Size(pg, prev), to) BY <1>5, <1>13, <2>2, CellKept
  <2>4. to \in left \cup {PageUnits} /\ prev + 1 <= to
    <3>1. CASE whole
      <4>1. to = next BY <3>1 DEF to
      <4>2. IsNext(B, at + 1, next) BY DEF Linked, next
      <4>3. next \in B \cup {PageUnits} /\ next # at BY <1>1, <4>2 DEF IsNext
      <4>4. QED BY <1>1, <2>1, <3>1, <4>1, <4>3
    <3>2. CASE ~whole BY <1>1, <2>1, <3>2 DEF to, rest
    <3>3. QED BY <3>1, <3>2
  <2>5. ASSUME NEW g \in left, prev + 1 <= g PROVE to <= g
    <3>1. CASE g \in B
      <4>1. at < g
        <5>1. g # at BY <1>1, <3>1, <2>5 DEF rest
        <5>2. ~(g < at) BY <1>2, <1>13, <2>1, <2>5, <3>1, InPage
        <5>3. QED BY <1>1, <3>1, <5>1, <5>2, InPage
      <4>2. next <= g /\ g \in Nat BY <3>1, <4>1, InPage DEF next
      <4>3. QED BY <1>1, <4>2 DEF to, rest
    <3>2. CASE g \notin B
      <4>1. ~whole /\ g = rest BY <3>2
      <4>2. QED BY <1>1, <4>1 DEF to
    <3>3. QED BY <3>1, <3>2
  <2>6. IsNext(left, prev + 1, to) BY <2>4, <2>5 DEF IsNext
  <2>7. QED BY <2>3, <2>6
<1>14. ASSUME ~whole
       PROVE  Cell(after.mem, rest, avail - units, next) /\ IsNext(left, rest + 1, next)
  <2>1. Cell(after.mem, rest, avail - units, next) BY <1>8, <1>9, <1>14
  <2>2. IsNext(B, at + 1, next) BY DEF Linked, next
  <2>3. next \in left \cup {PageUnits} BY <1>1, <2>2 DEF IsNext
  <2>4. ASSUME NEW g \in left, rest + 1 <= g PROVE next <= g
    <3>1. g \in B BY <1>1, <2>4
    <3>2. at + 1 <= g BY <1>1, <2>4, <3>1, InPage DEF rest
    <3>3. QED BY <2>2, <3>1, <3>2 DEF IsNext
  <2>5. rest + 1 <= next BY <1>1, <1>14
  <2>6. QED BY <2>1, <2>3, <2>4, <2>5 DEF IsNext
<1>15. IsNext(left, 0, after.freelist)
  <2>1. IsNext(B, 0, pg.freelist) BY DEF Linked
  <2>2. CASE prevs = {}
    <3>1. after.freelist = to BY <1>5, <1>9, <2>2
    <3>2. \A g \in B : at <= g /\ g \in Nat BY <1>1, <1>3, <2>2, InPage
    <3>3. IsNext(B, at + 1, next) BY DEF Linked, next
    <3>4. \A g \in B \ {at} : next <= g BY <1>1, <3>2, InPage DEF next
    <3>5. CASE whole
      <4>1. to = next /\ next # at BY <1>1, <3>5 DEF to
      <4>2. QED BY <1>1, <3>1, <3>3, <3>4, <3>5, <4>1 DEF IsNext
    <3>6. CASE ~whole
      <4>1. to = rest BY <3>6 DEF to
      <4>2. \A g \in left : rest <= g BY <1>1, <3>2, <3>4, <3>6
      <4>3. QED BY <1>1, <3>1, <3>6, <4>1, <4>2 DEF IsNext
    <3>7. QED BY <3>5, <3>6
  <2>3. CASE prevs # {}
    <3>1. after.freelist = pg.freelist BY <1>5, <1>9, <2>3
    <3>2. pg.freelist <= prev /\ pg.freelist \in B \cup {PageUnits}
      BY <1>2, <2>1, <2>3, InPage DEF IsNext
    <3>3. pg.freelist # at /\ pg.freelist \in B BY <1>1, <1>2, <2>3, <3>2, InPage
    <3>4. pg.freelist <= at BY <1>1, <2>1 DEF IsNext
    <3>5. \A g \in left : pg.freelist <= g
      <4>1. \A g \in B : pg.freelist <= g BY <2>1, InPage DEF IsNext
      <4>2. ~whole => pg.freelist <= rest BY <1>1, <3>3, <3>4, InPage DEF rest
      <4>3. QED BY <4>1, <4>2
    <3>6. 0 <= pg.freelist BY <2>1 DEF IsNext
    <3>7. QED BY <3>1, <3>3, <3>5, <3>6 DEF IsNext
  <2>4. QED BY <2>2, <2>3
<1>16. /\ \A s \in left : s \in B => s # at /\ sizes[s] = Size(pg, s)
       /\ \A s \in left : s \notin B => ~whole /\ s = rest /\ sizes[s] = avail - units
  BY <1>1 DEF rest
<1>17. left \subseteq Offsets BY <1>7 DEF Linked
<1>18. Linked(after, left) /\ \A s \in left : Size(after, s) = sizes[s]
  <2>1. ASSUME NEW s \in left
        PROVE  Cell(after.mem, s, sizes[s], links[s]) /\ IsNext(left, s + 1, links[s])
    <3>1. CASE s \in B /\ ~(prevs # {} /\ s = prev)
      <4>1. links[s] = Link(pg, s) BY <3>1
      <4>2. QED BY <1>12, <1>16, <3>1, <4>1
    <3>2. CASE prevs # {} /\ s = prev
      <4>1. links[s] = to /\ s \in B BY <1>2, <3>2
      <4>2. QED BY <1>13, <1>16, <3>2, <4>1
    <3>3. CASE s \notin B
      <4>1. links[s] = next BY <1>2, <3>3
      <4>2. QED BY <1>14, <1>16, <3>3, <4>1
    <3>4. QED BY <3>1, <3>2, <3>3
  <2> HIDE DEF sizes, links, left
  <2>2. /\ after.mem \in Memories /\ left \subseteq Offsets /\ IsNext(left, 0, after.freelist)
        /\ \A s \in left : Cell(after.mem, s, sizes[s], links[s]) /\ IsNext(left, s + 1, links[s])
    BY <1>9, <1>15, <1>17, <2>1
  <2>3. QED BY ONLY <2>2, LinkedBy
<1>19. ~whole => rest \in left /\ rest \notin B
  <2> SUFFICES ASSUME ~whole PROVE rest \notin B OBVIOUS
  <2>1. ASSUME rest \in B, at < rest PROVE at + avail <= rest BY <2>1, BlocksApart DEF avail
  <2>2. QED BY <1>1, <2>1 DEF rest
<1>20. /\ \A s \in B \ {at} : Size(after, s) = Size(pg, s)
       /\ ~whole => Size(after, rest) = avail - units
  BY <1>16, <1>18, <1>19
<1>21. QED BY <1>9, <1>11, <1>18, <1>20 DEF Unlinked, after, avail, whole, rest

\* The front of a block has become a block of its own.
Halved(pg, B, f, at, after) ==
  /\ after \in PageRecords /\ after.units = pg.units
  /\ Linked(after, B \cup {at})
  /\ \A s \in B \ {f} : Size(after, s) = Size(pg, s)
  /\ Size(after, f) = at - f /\ Size(after, at) = f + Size(pg, f) - at
  /\ \A o \in Offsets \ Covered(pg, B) : after.mem[o] = pg.mem[o]

\* And the list stays in order, with one block more.
LEMMA Splits ==
  ASSUME NEW pg \in PageRecords, NEW B, Linked(pg, B), NEW f \in B, NEW at \in Nat,
         f < at, at < f + Size(pg, f)
  PROVE  Halved(pg, B, f, at, SplitHead(pg, f, at))
<1> DEFINE after == SplitHead(pg, f, at)
           avail == Size(pg, f)
           next  == Link(pg, f)
           size  == f + avail - at
           front == at - f
           m1    == set_slob(pg.mem, at, size, next)
           m2    == set_slob(m1, f, front, at)
           blocks == B \cup {at}
<1>1. /\ f \in Nat /\ f \in Offsets /\ avail \in Nat \ {0} /\ next \in Nat /\ f + avail <= next
      /\ next <= PageUnits /\ PageUnits \in Nat
  BY InPage, Sizes
<1>2. /\ size \in Nat \ {0} /\ front \in Nat \ {0} /\ at + size = f + avail /\ f + front = at
  BY <1>1
<1>3. after = [pg EXCEPT !.mem = m2]
  <2>1. avail - (at - f) = size BY <1>1
  <2>2. QED BY <1>1, <2>1 DEF SplitHead, Size, Link
<1> HIDE DEF avail, next, size, front, after
<1>4. IsBlock(at, size, next) /\ IsBlock(f, front, at)
  <2>1. at \in Offsets /\ size \in 1 .. PageUnits - at /\ next \in at + size .. PageUnits
    BY <1>1, <1>2 DEF Offsets
  <2>2. f \in Offsets /\ front \in 1 .. PageUnits - f /\ at \in f + front .. PageUnits
    BY <1>1, <1>2 DEF Offsets
  <2>3. QED BY <2>1, <2>2 DEF IsBlock
<1>5. /\ m1 \in Memories /\ Cell(m1, at, size, next)
      /\ \A o \in Offsets \ (at .. at + size - 1) : m1[o] = pg.mem[o]
  <2>1. pg.mem \in Memories BY DEF PageRecords
  <2> HIDE DEF m1
  <2>2. m1 = set_slob(pg.mem, at, size, next) BY DEF m1
  <2>3. QED BY ONLY <1>4, <2>1, <2>2, CellWritten, SetSlobStaysInside
<1> HIDE DEF m1
<1>6. /\ m2 \in Memories /\ Cell(m2, f, front, at)
      /\ \A o \in Offsets \ (f .. f + front - 1) : m2[o] = m1[o]
  <2> HIDE DEF m2
  <2>2. m2 = set_slob(m1, f, front, at) BY DEF m2
  <2>3. QED BY ONLY <1>4, <1>5, <2>2, CellWritten, SetSlobStaysInside
<1> HIDE DEF m2
<1>7. /\ after \in PageRecords /\ after.units = pg.units /\ after.freelist = pg.freelist
      /\ after.mem = m2
  BY <1>3, <1>6 DEF PageRecords
<1>8. Cell(m2, at, size, next)
  <2>1. \A o \in at .. at + size - 1 : o \in Offsets /\ o \notin f .. f + front - 1
    BY <1>1, <1>2 DEF Offsets
  <2>2. QED BY <1>5, <1>6, <2>1, CellKept
<1>9. \A o \in Offsets : o \notin f .. f + avail - 1 => m2[o] = pg.mem[o]
  <2> SUFFICES ASSUME NEW o \in Offsets, o \notin f .. f + avail - 1 PROVE m2[o] = pg.mem[o] OBVIOUS
  <2>1. o \notin f .. f + front - 1 /\ o \notin at .. at + size - 1 BY <1>1, <1>2 DEF Offsets
  <2>2. QED BY <1>5, <1>6, <2>1
<1>10. \A o \in Offsets \ Covered(pg, B) : after.mem[o] = pg.mem[o]
  <2>1. \A o \in Offsets \ Covered(pg, B) : o \notin f .. f + avail - 1 BY DEF Covered, avail
  <2>2. QED BY <1>7, <1>9, <2>1
<1>11. at \notin B
  <2> SUFFICES ASSUME at \in B PROVE FALSE OBVIOUS
  <2>1. f + avail <= at BY BlocksApart DEF avail
  <2>2. QED BY <1>1, <2>1 DEF avail
<1>12. ASSUME NEW s \in B, s # f
       PROVE  Cell(m2, s, Size(pg, s), Link(pg, s)) /\ IsNext(blocks, s + 1, Link(pg, s))
  <2>1. /\ s \in Nat /\ Size(pg, s) \in Nat \ {0} /\ s + Size(pg, s) <= PageUnits
    <3>1. /\ s \in Nat /\ Size(pg, s) \in Nat \ {0} /\ s + Size(pg, s) <= Link(pg, s)
          /\ Link(pg, s) <= PageUnits /\ PageUnits \in Nat /\ Link(pg, s) \in Nat
      BY InPage, Sizes
    <3>2. QED BY ONLY <3>1
  <2>2. (s < f /\ s + Size(pg, s) <= f) \/ (f < s /\ f + avail <= s)
    BY <1>1, <1>12, <2>1, BlocksApart DEF avail
  <2>3. \A o \in s .. s + Size(pg, s) - 1 : o \in Offsets /\ o \notin f .. f + avail - 1
    BY <1>1, <2>1, <2>2 DEF Offsets
  <2>4. Cell(pg.mem, s, Size(pg, s), Link(pg, s)) /\ IsNext(B, s + 1, Link(pg, s)) BY DEF Linked
  <2>5. Cell(m2, s, Size(pg, s), Link(pg, s)) BY <1>9, <2>3, <2>4, CellKept
  <2>6. s + 1 <= at => Link(pg, s) <= at
    <3> SUFFICES ASSUME s + 1 <= at PROVE Link(pg, s) <= at OBVIOUS
    <3>1. s + 1 <= f BY <1>1, <2>1, <2>2 DEF avail
    <3>2. Link(pg, s) <= f /\ Link(pg, s) \in Nat BY <2>4, <3>1, InPage DEF IsNext
    <3>3. QED BY <1>1, <3>2
  <2>7. QED BY <2>4, <2>5, <2>6 DEF IsNext
<1>13. IsNext(B, f + 1, next) BY DEF Linked, next
<1>14. IsNext(blocks, f + 1, at)
  <2>1. \A g \in B : f + 1 <= g => at <= g
    <3> SUFFICES ASSUME NEW g \in B, f + 1 <= g PROVE at <= g OBVIOUS
    <3>1. next <= g /\ g \in Nat BY <1>13, InPage DEF IsNext
    <3>2. QED BY <1>1, <3>1 DEF avail
  <2>2. QED BY <1>1, <2>1 DEF IsNext
<1>15. IsNext(blocks, at + 1, next)
  <2>1. \A g \in B : at + 1 <= g => next <= g BY <1>1, <1>13, InPage DEF IsNext
  <2>2. next \in blocks \cup {PageUnits} /\ at + 1 <= next BY <1>1, <1>2, <1>13 DEF IsNext
  <2>3. QED BY <1>1, <2>1, <2>2 DEF IsNext
<1>16. IsNext(blocks, 0, pg.freelist)
  <2>1. IsNext(B, 0, pg.freelist) BY DEF Linked
  <2>2. pg.freelist <= f /\ pg.freelist \in Nat BY <1>1, <2>1, InPage DEF IsNext
  <2>3. QED BY <1>1, <2>1, <2>2 DEF IsNext
<1> DEFINE sizes == [s \in blocks |-> IF s = f THEN front ELSE IF s = at THEN size ELSE Size(pg, s)]
           links == [s \in blocks |-> IF s = f THEN at ELSE IF s = at THEN next ELSE Link(pg, s)]
<1>17. Linked(after, blocks) /\ \A s \in blocks : Size(after, s) = sizes[s]
  <2>1. ASSUME NEW s \in blocks
        PROVE  Cell(m2, s, sizes[s], links[s]) /\ IsNext(blocks, s + 1, links[s])
    <3>1. CASE s = f
      <4>1. sizes[s] = front /\ links[s] = at BY <3>1
      <4>2. QED BY <1>6, <1>14, <3>1, <4>1
    <3>2. CASE s = at
      <4>1. sizes[s] = size /\ links[s] = next BY <1>1, <3>2
      <4>2. QED BY <1>8, <1>15, <3>2, <4>1
    <3>3. CASE s # f /\ s # at
      <4>1. sizes[s] = Size(pg, s) /\ links[s] = Link(pg, s) /\ s \in B BY <3>3
      <4>2. QED BY <1>12, <3>3, <4>1
    <3>4. QED BY <3>1, <3>2, <3>3
  <2>2. blocks \subseteq Offsets BY <1>4 DEF Linked, IsBlock
  <2> HIDE DEF sizes, links, blocks
  <2>3. /\ after.mem \in Memories /\ blocks \subseteq Offsets /\ IsNext(blocks, 0, after.freelist)
        /\ \A s \in blocks : Cell(after.mem, s, sizes[s], links[s]) /\ IsNext(blocks, s + 1, links[s])
    BY <1>6, <1>7, <1>16, <2>1, <2>2
  <2>4. QED BY ONLY <2>3, LinkedBy
<1>18. /\ \A s \in B \ {f} : Size(after, s) = Size(pg, s)
       /\ Size(after, f) = front /\ Size(after, at) = size
  BY <1>1, <1>11, <1>17
<1>19. QED BY <1>7, <1>10, <1>17, <1>18 DEF Halved, after, size, front, avail

\* A block that nothing was written into stays where it is.
LEMMA LinkedKept ==
  ASSUME NEW pg, NEW B, Linked(pg, B), NEW after, after.mem \in Memories,
         after.freelist = pg.freelist, \A o \in Covered(pg, B) : after.mem[o] = pg.mem[o]
  PROVE  /\ Linked(after, B) /\ \A s \in B : Size(after, s) = Size(pg, s)
         /\ Covered(after, B) = Covered(pg, B)
         /\ Separate(pg, B) => Separate(after, B)
<1> DEFINE sizes == [s \in B |-> Size(pg, s)]
           links == [s \in B |-> Link(pg, s)]
<1>1. ASSUME NEW s \in B
      PROVE  Cell(after.mem, s, sizes[s], links[s]) /\ IsNext(B, s + 1, links[s])
  <2>1. Cell(pg.mem, s, Size(pg, s), Link(pg, s)) /\ IsNext(B, s + 1, Link(pg, s)) BY DEF Linked
  <2>2. \A o \in s .. s + Size(pg, s) - 1 : o \in Covered(pg, B) BY DEF Covered
  <2>3. Cell(after.mem, s, Size(pg, s), Link(pg, s)) BY <2>1, <2>2, CellKept
  <2>4. QED BY <2>1, <2>3
<1>2. /\ after.mem \in Memories /\ B \subseteq Offsets /\ IsNext(B, 0, after.freelist)
  BY DEF Linked
<1>3. \A s \in B : sizes[s] = Size(pg, s) OBVIOUS
<1> HIDE DEF sizes, links
<1>4. Linked(after, B) /\ \A s \in B : Size(after, s) = sizes[s] BY ONLY <1>1, <1>2, LinkedBy
<1>5. \A s \in B : Size(after, s) = Size(pg, s) BY <1>3, <1>4
<1>6. Covered(after, B) = Covered(pg, B) BY <1>5 DEF Covered
<1>7. QED BY <1>4, <1>5, <1>6 DEF Separate

\* What \div is.
LEMMA Division ==
  ASSUME NEW a \in Nat, NEW d \in Nat \ {0}
  PROVE  a \div d \in Nat /\ (a \div d) * d <= a /\ a < (a \div d) * d + d
OBVIOUS

\* And what it is not less than.
LEMMA DivisionBelow ==
  ASSUME NEW a \in Nat, NEW d \in Nat \ {0}, NEW n \in Nat, n * d <= a
  PROVE  n <= a \div d
OBVIOUS

\* Aligning leads forward.
LEMMA AlignsUp ==
  ASSUME NEW o \in Nat, NEW align \in Nat
  PROVE  AlignUp(o, align) \in Nat /\ o <= AlignUp(o, align)
<1>1. CASE align = 0 BY <1>1 DEF AlignUp
<1>2. CASE align # 0
  <2> DEFINE x == o * SLOB_UNIT
             n == (x + align - 1) \div align
             y == n * align
  <2>1. SLOB_UNIT \in Nat \ {0} BY Sizes
  <2>2. x \in Nat BY <2>1
  <2> HIDE DEF x
  <2>3. x + align - 1 \in Nat /\ align \in Nat \ {0} BY <1>2, <2>2
  <2>4. n \in Nat /\ x + align - 1 < n * align + align BY <2>3, Division
  <2> HIDE DEF n
  <2>5. y \in Nat BY <2>3, <2>4
  <2>6. x <= y BY <2>2, <2>3, <2>4, <2>5
  <2> HIDE DEF y
  <2>7. o <= y \div SLOB_UNIT BY <2>1, <2>5, <2>6, DivisionBelow DEF x
  <2>8. y \div SLOB_UNIT \in Nat BY <2>1, <2>5, Division
  <2>9. AlignUp(o, align) = y \div SLOB_UNIT BY <1>2 DEF AlignUp, x, y, n
  <2>10. QED BY <2>7, <2>8, <2>9
<1>3. QED BY <1>1, <1>2

\* The start of a page is aligned to everything.
LEMMA AlignsZero == ASSUME NEW align \in Nat PROVE AlignUp(0, align) = 0
<1>1. CASE align = 0 BY <1>1 DEF AlignUp
<1>2. CASE align # 0
  <2>1. (align - 1) \div align = 0
    <3>1. align - 1 \in Nat /\ align \in Nat \ {0} BY <1>2
    <3> DEFINE n == (align - 1) \div align
    <3>2. n \in Nat /\ n * align <= align - 1 BY <3>1, Division
    <3> HIDE DEF n
    <3>3. ~(n >= 1) BY <3>1, <3>2
    <3>4. n = 0 BY <3>2, <3>3
    <3>5. QED BY <3>4 DEF n
  <2>2. 0 * SLOB_UNIT + align - 1 = align - 1 BY Sizes
  <2>3. AlignUp(0, align) = (((align - 1) \div align) * align) \div SLOB_UNIT
    BY <1>2, <2>2 DEF AlignUp
  <2>4. AlignUp(0, align) = 0 \div SLOB_UNIT BY <2>1, <2>3
  <2>5. 0 \div SLOB_UNIT = 0 BY Sizes
  <2>6. QED BY <2>4, <2>5
<1>3. QED BY <1>1, <1>2

\* An object less than a page has units, and no more than the page.
LEMMA UnitsAre ==
  ASSUME NEW size \in Nat \ {0}
  PROVE  /\ SLOB_UNITS(size) \in Nat \ {0}
         /\ size <= PageUnits * SLOB_UNIT => SLOB_UNITS(size) <= PageUnits
<1>1. SLOB_UNIT \in Nat \ {0} /\ PageUnits \in Nat /\ PageUnits * SLOB_UNIT \in Nat BY Sizes
<1> DEFINE n == SLOB_UNITS(size)
<1>2. n \in Nat /\ n * SLOB_UNIT <= size + SLOB_UNIT - 1 /\ size + SLOB_UNIT - 1 < n * SLOB_UNIT + SLOB_UNIT
  <2>1. size + SLOB_UNIT - 1 \in Nat BY <1>1
  <2>2. QED BY <1>1, <2>1, Division DEF SLOB_UNITS
<1> HIDE DEF n
<1>3. n # 0 BY <1>1, <1>2
<1>4. size <= PageUnits * SLOB_UNIT => n <= PageUnits
  <2> SUFFICES ASSUME size <= PageUnits * SLOB_UNIT, PageUnits + 1 <= n PROVE FALSE BY <1>1, <1>2
  <2>1. (PageUnits + 1) * SLOB_UNIT <= n * SLOB_UNIT BY <1>1, <1>2
  <2>2. (PageUnits + 1) * SLOB_UNIT = PageUnits * SLOB_UNIT + SLOB_UNIT BY <1>1
  <2>3. QED BY <1>1, <1>2, <2>1, <2>2
<1>5. QED BY <1>2, <1>3, <1>4 DEF n

--------------------------------------------------------------------------------
\* The units from b on.
Run(b, units) == b .. b + units - 1

\* The free list of a page is in order, its blocks do not touch, and sp->units
\* counts their units.
FreeUnitsOf(pg) == Covered(pg, FreeBlocks(pg))

\* The free list of a page is in order.
Exact(pg) ==
  /\ pg \in PageRecords
  /\ Linked(pg, FreeBlocks(pg)) /\ Separate(pg, FreeBlocks(pg))
  /\ pg.units = Cardinality(FreeUnitsOf(pg))

\* The units of the blocks are in the page, and there are as many as the sizes say.
LEMMA CoveredFacts ==
  ASSUME NEW pg, NEW B, Linked(pg, B)
  PROVE  /\ Covered(pg, B) \subseteq Offsets
         /\ IsFiniteSet(Covered(pg, B)) /\ Cardinality(Covered(pg, B)) \in 0 .. PageUnits
<1>1. ASSUME NEW s \in B, NEW o \in s .. s + Size(pg, s) - 1 PROVE o \in Offsets
  <2>1. /\ s \in Nat /\ Size(pg, s) \in Nat \ {0} /\ s + Size(pg, s) <= Link(pg, s)
        /\ Link(pg, s) <= PageUnits /\ PageUnits \in Nat /\ Link(pg, s) \in Nat
    BY InPage, Sizes
  <2>2. QED BY <2>1 DEF Offsets
<1>2. Covered(pg, B) \subseteq Offsets BY <1>1 DEF Covered
<1>3. IsFiniteSet(Offsets) /\ Cardinality(Offsets) = PageUnits
  <2>1. 0 \in Int /\ PageUnits - 1 \in Int /\ ~(0 > PageUnits - 1) /\ PageUnits - 1 - 0 + 1 = PageUnits BY Sizes
  <2>2. IsFiniteSet(0 .. PageUnits - 1) /\ Cardinality(0 .. PageUnits - 1) = PageUnits
    BY <2>1, FS_Interval
  <2>3. QED BY <2>2 DEF Offsets
<1>4. IsFiniteSet(Covered(pg, B)) /\ Cardinality(Covered(pg, B)) <= PageUnits
  BY <1>2, <1>3, FS_Subset
<1>5. Cardinality(Covered(pg, B)) \in Nat BY <1>4, FS_CardinalityType
<1>6. QED BY <1>2, <1>4, <1>5, Sizes

\* A run has as many units as it says.
LEMMA RunCounts ==
  ASSUME NEW b \in Nat, NEW units \in Nat
  PROVE  IsFiniteSet(Run(b, units)) /\ Cardinality(Run(b, units)) = units
<1>1. b \in Int /\ b + units - 1 \in Int OBVIOUS
<1>2. IsFiniteSet(Run(b, units)) /\ Cardinality(Run(b, units)) = IF b > b + units - 1 THEN 0 ELSE b + units - 1 - b + 1
  BY <1>1, FS_Interval DEF Run
<1>3. QED BY <1>2

\* What a page is once its blocks are known.
LEMMA ExactBy ==
  ASSUME NEW pg, NEW B, Linked(pg, B), Separate(pg, B), pg.units = Cardinality(Covered(pg, B)),
         pg = [units |-> pg.units, freelist |-> pg.freelist, mem |-> pg.mem]
  PROVE  Exact(pg) /\ FreeUnitsOf(pg) = Covered(pg, B)
<1>1. FreeBlocks(pg) = B BY Walk
<1>2. pg.units \in 0 .. PageUnits BY CoveredFacts
<1>3. pg.mem \in Memories BY DEF Linked
<1>4. pg.freelist \in 0 .. PageUnits
  <2>1. IsNext(B, 0, pg.freelist) BY DEF Linked
  <2>2. \A o \in B : o \in 0 .. PageUnits BY Sizes DEF Linked, Offsets
  <2>3. QED BY <2>1, <2>2, Sizes DEF IsNext
<1>5. pg \in PageRecords BY <1>2, <1>3, <1>4 DEF PageRecords
<1>6. QED BY <1>1, <1>5 DEF Exact, FreeUnitsOf

\* slob_page_alloc, when it has room: a run of free units is taken, and what was
\* free besides stays free.
THEOREM Allocates ==
  ASSUME NEW pg, Exact(pg), NEW size \in Nat \ {0}, NEW align \in Nat,
         slob_page_alloc(pg, size, align).block # NULL
  PROVE  LET a     == slob_page_alloc(pg, size, align)
             units == SLOB_UNITS(size)
         IN  /\ a.block \in Nat /\ Run(a.block, units) \subseteq FreeUnitsOf(pg)
             /\ Exact(a.page)
             /\ FreeUnitsOf(a.page) = FreeUnitsOf(pg) \ Run(a.block, units)
             /\ a.page.units = pg.units - units
             /\ \A o \in Offsets \ FreeUnitsOf(pg) : a.page.mem[o] = pg.mem[o]
<1> DEFINE units == SLOB_UNITS(size)
           B     == FreeBlocks(pg)
           rooms == RoomAt(pg, units, align)
           f     == Min(rooms)
           at    == AlignUp(f, align)
           whole == Size(pg, f)
           split == SplitHead(pg, f, at)
           p     == Unlink(split, at, units)
           after == [p EXCEPT !.units = @ - units]
           a     == slob_page_alloc(pg, size, align)
<1>1. rooms # {} /\ a.block = at /\ a.page = after
  <2>1. rooms # {} BY DEF slob_page_alloc
  <2>2. a = [block |-> at, page |-> after] BY <2>1 DEF slob_page_alloc
  <2>3. QED BY <2>1, <2>2
<1>2. units \in Nat \ {0} BY UnitsAre
<1>3. pg \in PageRecords /\ Linked(pg, B) /\ Separate(pg, B) /\ pg.units = Cardinality(Covered(pg, B))
  BY DEF Exact, FreeUnitsOf
<1> HIDE DEF a, units, B
<1>4. rooms = {s \in B : Size(pg, s) >= units + AlignUp(s, align) - s} BY DEF RoomAt, Size, B
<1>5. f \in B /\ Size(pg, f) >= units + at - f
  <2>1. \A s \in B : s \in Nat BY <1>3, InPage
  <2>2. rooms \in SUBSET Nat BY <1>4, <2>1
  <2> HIDE DEF rooms
  <2>3. f \in rooms BY <1>1, <2>2, MinOf
  <2>4. QED BY <1>4, <2>3
<1> HIDE DEF rooms, f
<1>6. f \in Nat /\ whole \in Nat \ {0} BY <1>3, <1>5, InPage
<1>7. at \in Nat /\ f <= at BY <1>6, AlignsUp
<1> HIDE DEF at, whole
<1>8. at + units <= f + whole /\ at < f + whole BY <1>2, <1>5, <1>6, <1>7 DEF whole
<1>9. /\ split \in PageRecords /\ split.units = pg.units /\ Linked(split, B \cup {at})
      /\ \A s \in B \ {f} : Size(split, s) = Size(pg, s)
      /\ at # f => Size(split, f) = at - f
      /\ Size(split, at) = f + whole - at
      /\ \A o \in Offsets \ Covered(pg, B) : split.mem[o] = pg.mem[o]
  <2>1. CASE at = f
    <3>1. split = pg BY <2>1 DEF SplitHead
    <3>2. B \cup {at} = B BY <1>5, <2>1
    <3>3. f + whole - at = whole BY <1>6, <2>1
    <3>4. Linked(split, B \cup {at}) /\ split \in PageRecords BY <1>3, <3>1, <3>2
    <3>5. Size(split, at) = f + whole - at BY <2>1, <3>1, <3>3 DEF whole
    <3>6. QED BY <2>1, <3>1, <3>4, <3>5
  <2>2. CASE at # f
    <3>1. f < at BY <1>6, <1>7, <2>2
    <3>2. f < at /\ at < f + Size(pg, f) BY <1>8, <3>1 DEF whole
    <3>3. Halved(pg, B, f, at, split) BY <1>3, <1>5, <1>7, <3>2, Splits
    <3>4. QED BY <2>2, <3>3 DEF Halved, whole
  <2>3. QED BY <2>1, <2>2
<1> HIDE DEF split
<1>10. ASSUME NEW s \in B, s # f
       PROVE  /\ s \in Nat /\ Size(pg, s) \in Nat \ {0} /\ s # at
              /\ (s < f /\ s + Size(pg, s) < f) \/ (f < s /\ f + whole < s)
  <2>1. s \in Nat /\ Size(pg, s) \in Nat \ {0} BY <1>3, InPage
  <2>2. (s < f /\ s + Size(pg, s) < f) \/ (f < s /\ f + whole < s)
    BY <1>3, <1>5, <1>6, <1>10, <2>1 DEF Separate, whole
  <2>3. QED BY <1>6, <1>7, <1>8, <2>1, <2>2
<1>11. Covered(split, B \cup {at}) = Covered(pg, B)
  <2>1. ASSUME NEW o, o \in Covered(split, B \cup {at}) PROVE o \in Covered(pg, B)
    <3>1. PICK s \in B \cup {at} : o \in s .. s + Size(split, s) - 1 BY <2>1 DEF Covered
    <3>2. CASE s = f \/ s = at
      <4>1. o \in f .. f + whole - 1 BY <1>6, <1>7, <1>8, <1>9, <3>1, <3>2
      <4>2. QED BY <1>5, <4>1 DEF Covered, whole
    <3>3. CASE s # f /\ s # at BY <1>9, <3>1, <3>3 DEF Covered
    <3>4. QED BY <3>2, <3>3
  <2>2. ASSUME NEW o, o \in Covered(pg, B) PROVE o \in Covered(split, B \cup {at})
    <3>1. PICK s \in B : o \in s .. s + Size(pg, s) - 1 BY <2>2 DEF Covered
    <3>2. CASE s = f
      <4>1. o \in f .. f + whole - 1 BY <3>1, <3>2 DEF whole
      <4>2. o \in at .. at + (f + whole - at) - 1 \/ (at # f /\ o \in f .. f + (at - f) - 1)
        BY <1>6, <1>7, <1>8, <4>1
      <4>3. QED BY <1>5, <1>9, <4>2 DEF Covered
    <3>3. CASE s # f BY <1>9, <3>1, <3>3 DEF Covered
    <3>4. QED BY <3>2, <3>3
  <2>3. QED BY <2>1, <2>2
<1> DEFINE B1   == B \cup {at}
           all  == units = Size(split, at)
           left == IF all THEN B1 \ {at} ELSE (B1 \ {at}) \cup {at + units}
<1>12. /\ p \in PageRecords /\ p.units = pg.units
       /\ Linked(p, left)
       /\ \A s \in B1 \ {at} : Size(p, s) = Size(split, s)
       /\ units # Size(split, at) => Size(p, at + units) = Size(split, at) - units
       /\ \A o \in Offsets \ Covered(split, B1) : p.mem[o] = split.mem[o]
  <2>1. units \in 1 .. Size(split, at) BY <1>2, <1>6, <1>7, <1>8, <1>9
  <2>2. at \in B1 /\ split \in PageRecords /\ Linked(split, B1) BY <1>9
  <2> HIDE DEF B1
  <2>3. Unlinked(split, B1, at, units, p) BY <2>1, <2>2, Unlinks
  <2>4. QED BY <1>9, <2>3 DEF Unlinked
<1> HIDE DEF p
<1>13. /\ after.mem = p.mem /\ after.freelist = p.freelist /\ after.units = pg.units - units
       /\ after = [units |-> after.units, freelist |-> after.freelist, mem |-> after.mem]
  BY <1>12 DEF PageRecords
<1> HIDE DEF after
<1>14. Linked(after, left) /\ \A s \in left : Size(after, s) = Size(p, s)
  <2>1. after.mem \in Memories BY <1>12, <1>13 DEF PageRecords
  <2> HIDE DEF left
  <2>2. QED BY <1>12, <1>13, <2>1, LinkedKept
<1>15. \A o \in Offsets \ Covered(pg, B) : after.mem[o] = pg.mem[o]
  BY <1>9, <1>11, <1>12, <1>13
<1> DEFINE rest == at + units
<1>16. /\ \A s \in left : \/ s \in B /\ s # f /\ Size(after, s) = Size(pg, s)
                          \/ s = f /\ f # at /\ Size(after, s) = at - f
                          \/ s = rest /\ rest < f + whole /\ Size(after, s) = f + whole - rest
       /\ \A s \in B : s # f => s \in left
       /\ f # at => f \in left
       /\ rest < f + whole => rest \in left
  <2>1. all <=> rest = f + whole BY <1>2, <1>6, <1>7, <1>9
  <2>2. \A s \in B : s # f => s \in left BY <1>10
  <2>3. f # at => f \in left BY <1>5
  <2>4. rest < f + whole => rest \in left BY <1>2, <1>6, <1>7, <2>1
  <2>5. ASSUME NEW s \in left
        PROVE  \/ s \in B /\ s # f /\ Size(after, s) = Size(pg, s)
               \/ s = f /\ f # at /\ Size(after, s) = at - f
               \/ s = rest /\ rest < f + whole /\ Size(after, s) = f + whole - rest
    <3>0. Size(after, s) = Size(p, s) BY <1>14
    <3>1. CASE s \in B1 \ {at} /\ s # f BY <1>9, <1>12, <3>0, <3>1
    <3>2. CASE s \in B1 \ {at} /\ s = f BY <1>9, <1>12, <3>0, <3>2
    <3>3. CASE s \notin B1 \ {at}
      <4>1. ~all /\ s = rest BY <3>3
      <4>2. Size(p, s) = Size(split, at) - units BY <1>12, <4>1
      <4>3. rest < f + whole /\ f + whole - rest = Size(split, at) - units
        BY <1>2, <1>6, <1>7, <1>8, <1>9, <2>1, <4>1
      <4>4. QED BY <3>0, <4>1, <4>2, <4>3
    <3>4. QED BY <3>1, <3>2, <3>3
  <2>6. QED BY <2>2, <2>3, <2>4, <2>5
<1>17. rest \in Nat /\ rest <= f + whole BY <1>2, <1>7, <1>8
<1> HIDE DEF rest, left
<1>18. Separate(after, left)
  <2> SUFFICES ASSUME NEW g \in left, NEW h \in left, g < h PROVE g + Size(after, g) < h
    BY DEF Separate
  <2>1. CASE g \in B /\ g # f /\ Size(after, g) = Size(pg, g)
    <3>1. CASE h \in B /\ h # f BY <1>3, <2>1, <3>1 DEF Separate
    <3>2. CASE h = f BY <1>10, <1>6, <2>1, <3>2
    <3>3. CASE h = rest BY <1>2, <1>6, <1>7, <1>10, <1>17, <2>1, <3>3 DEF rest
    <3>4. QED BY <1>16, <3>1, <3>2, <3>3
  <2>2. CASE g = f /\ f # at /\ Size(after, g) = at - f
    <3>1. CASE h \in B /\ h # f BY <1>6, <1>7, <1>8, <1>10, <2>2, <3>1
    <3>2. CASE h = rest BY <1>2, <1>6, <1>7, <2>2, <3>2 DEF rest
    <3>3. QED BY <1>6, <1>16, <2>2, <3>1, <3>2
  <2>3. CASE g = rest /\ rest < f + whole /\ Size(after, g) = f + whole - rest
    <3>1. CASE h \in B /\ h # f BY <1>2, <1>6, <1>7, <1>10, <1>17, <2>3, <3>1 DEF rest
    <3>2. CASE h = f BY <1>2, <1>6, <1>7, <2>3, <3>2 DEF rest
    <3>3. QED BY <1>16, <1>17, <2>3, <3>1, <3>2
  <2>4. QED BY <1>16, <2>1, <2>2, <2>3
<1>19. Run(at, units) \subseteq Covered(pg, B)
  <2>1. \A o \in Run(at, units) : o \in f .. f + whole - 1 BY <1>2, <1>6, <1>7, <1>8 DEF Run
  <2>2. QED BY <1>5, <2>1 DEF Covered, whole
<1>20. Covered(after, left) = Covered(pg, B) \ Run(at, units)
  <2>1. ASSUME NEW o, o \in Covered(after, left)
        PROVE  o \in Covered(pg, B) /\ o \notin Run(at, units)
    <3>1. PICK s \in left : o \in s .. s + Size(after, s) - 1 BY <2>1 DEF Covered
    <3>2. CASE s \in B /\ s # f /\ Size(after, s) = Size(pg, s)
      <4>1. o \in Covered(pg, B) BY <3>1, <3>2 DEF Covered
      <4>2. o \notin Run(at, units) BY <1>2, <1>6, <1>7, <1>8, <1>10, <3>1, <3>2 DEF Run
      <4>3. QED BY <4>1, <4>2
    <3>3. CASE s = f /\ f # at /\ Size(after, s) = at - f
      <4>1. o \in f .. f + whole - 1 BY <1>6, <1>7, <1>8, <3>1, <3>3
      <4>2. o \notin Run(at, units) BY <1>2, <1>6, <1>7, <3>1, <3>3 DEF Run
      <4>3. QED BY <1>5, <4>1, <4>2 DEF Covered, whole
    <3>4. CASE s = rest /\ rest < f + whole /\ Size(after, s) = f + whole - rest
      <4>1. o \in f .. f + whole - 1 BY <1>2, <1>6, <1>7, <1>17, <3>1, <3>4 DEF rest
      <4>2. o \notin Run(at, units) BY <1>2, <1>6, <1>7, <1>17, <3>1, <3>4 DEF Run, rest
      <4>3. QED BY <1>5, <4>1, <4>2 DEF Covered, whole
    <3>5. QED BY <1>16, <3>2, <3>3, <3>4
  <2>2. ASSUME NEW o, o \in Covered(pg, B), o \notin Run(at, units) PROVE o \in Covered(after, left)
    <3>1. PICK s \in B : o \in s .. s + Size(pg, s) - 1 BY <2>2 DEF Covered
    <3>2. CASE s = f
      <4>1. o \in f .. f + whole - 1 BY <3>1, <3>2 DEF whole
      <4>2. \/ f # at /\ o \in f .. f + (at - f) - 1
            \/ rest < f + whole /\ o \in rest .. rest + (f + whole - rest) - 1
        BY <1>2, <1>6, <1>7, <1>17, <2>2, <4>1 DEF Run, rest
      <4>3. f # at => Size(after, f) = at - f
        BY <1>2, <1>6, <1>7, <1>16 DEF rest
      <4>4. rest < f + whole => Size(after, rest) = f + whole - rest
        BY <1>2, <1>6, <1>7, <1>10, <1>16, <1>17 DEF rest
      <4>5. QED BY <1>16, <4>2, <4>3, <4>4 DEF Covered
    <3>3. CASE s # f
      <4>1. s \in left /\ Size(after, s) = Size(pg, s)
        BY <1>2, <1>6, <1>7, <1>8, <1>10, <1>16, <1>17, <3>3 DEF rest
      <4>2. QED BY <3>1, <4>1 DEF Covered
    <3>4. QED BY <3>2, <3>3
  <2>3. QED BY <2>1, <2>2
<1>21. after.units = Cardinality(Covered(after, left))
  <2>1. IsFiniteSet(Covered(pg, B)) BY <1>3, CoveredFacts
  <2>2. Cardinality(Covered(after, left)) = Cardinality(Covered(pg, B)) - Cardinality(Covered(pg, B) \cap Run(at, units))
    BY <1>20, <2>1, FS_Difference
  <2>3. Covered(pg, B) \cap Run(at, units) = Run(at, units) BY <1>19
  <2>4. Cardinality(Run(at, units)) = units BY <1>2, <1>7, RunCounts
  <2>5. QED BY <1>3, <1>13, <2>2, <2>3, <2>4
<1>22. Exact(after) /\ FreeUnitsOf(after) = Covered(after, left)
  BY <1>13, <1>14, <1>18, <1>21, ExactBy
<1>23. FreeUnitsOf(pg) = Covered(pg, B) BY DEF FreeUnitsOf, B
<1>24. QED BY <1>1, <1>7, <1>13, <1>15, <1>19, <1>20, <1>22, <1>23 DEF a, units

\* A place for a block between the free blocks: lead is {prev}, the block in front
\* of it, or empty, and next the first block behind it or the end of the page.
Hole(pg, B, b, units, lead, prev, next) ==
  /\ Linked(pg, B) /\ Separate(pg, B)
  /\ b \in Nat /\ units \in Nat \ {0} /\ b + units <= PageUnits
  /\ \A s \in B : (s < b /\ s + Size(pg, s) <= b) \/ b + units <= s
  /\ lead \subseteq B /\ lead \subseteq {prev}
  /\ \A s \in lead : s < b
  /\ \A g \in B : g < b => \E s \in lead : g <= s
  /\ next \in B \cup {PageUnits} /\ b + units <= next
  /\ \A g \in B : b < g => next <= g

\* The block touches the one in front of it, and the one behind it.
Joins(pg, b, lead) == \E s \in lead : s + Size(pg, s) = b
Touches(B, b, units, next) == next \in B /\ b + units = next
\* What the new block is part of: its offset, its end, and where its link leads.
NewHead(pg, b, lead, prev) == IF Joins(pg, b, lead) THEN prev ELSE b
NewEnd(pg, B, b, units, next) == IF Touches(B, b, units, next) THEN next + Size(pg, next) ELSE b + units
Beyond(pg, B, b, units, next) == IF Touches(B, b, units, next) THEN Link(pg, next) ELSE next

\* The block has been put there, as one block with those that it touches.
Filled(pg, B, b, units, lead, prev, next, after) ==
  LET head == NewHead(pg, b, lead, prev)
      tail == NewEnd(pg, B, b, units, next)
  IN  /\ after.mem \in Memories
      /\ Cell(after.mem, head, tail - head, Beyond(pg, B, b, units, next))
      /\ \A s \in lead : s # head => Cell(after.mem, s, Size(pg, s), b)
      /\ \A o \in Offsets : o \notin head .. tail - 1 /\ (\A s \in lead : o \notin s .. s + Size(pg, s) - 1)
                              => after.mem[o] = pg.mem[o]
      /\ after.freelist = IF lead = {} THEN b ELSE pg.freelist

\* The free list after is in order, and has the units of the block besides.
Joined(pg, B, b, units, after) ==
  \E new : /\ Linked(after, new) /\ Separate(after, new)
           /\ Covered(after, new) = Covered(pg, B) \cup Run(b, units)

\* A list with a hole filled so is in order, and has the units of the block besides.
LEMMA Rejoins ==
  ASSUME NEW pg, NEW B, NEW b, NEW units, NEW lead, NEW prev, NEW next, NEW after,
         Hole(pg, B, b, units, lead, prev, next),
         Filled(pg, B, b, units, lead, prev, next, after)
  PROVE  Joined(pg, B, b, units, after)
<1> DEFINE head == NewHead(pg, b, lead, prev)
           tail == NewEnd(pg, B, b, units, next)
           beyond == Beyond(pg, B, b, units, next)
           touches == Touches(B, b, units, next)
           new == {s \in B : ~(touches /\ s = next)} \cup {head}
           sizes == [s \in new |-> IF s = head THEN tail - head ELSE Size(pg, s)]
           links == [s \in new |-> IF s = head THEN beyond
                                   ELSE IF s \in lead THEN b ELSE Link(pg, s)]
<1>1. /\ Linked(pg, B) /\ Separate(pg, B)
      /\ b \in Nat /\ units \in Nat \ {0} /\ b + units <= PageUnits /\ PageUnits \in Nat
      /\ \A s \in B : s # b /\ s \in Nat /\ Size(pg, s) \in Nat \ {0} /\ s + Size(pg, s) <= PageUnits
      /\ \A s \in B : s < b => s + Size(pg, s) <= b
      /\ \A s \in B : b < s => b + units <= s
  <2>1. /\ Linked(pg, B) /\ Separate(pg, B)
        /\ b \in Nat /\ units \in Nat \ {0} /\ b + units <= PageUnits /\ PageUnits \in Nat
        /\ \A s \in B : (s < b /\ s + Size(pg, s) <= b) \/ b + units <= s
    BY Sizes DEF Hole
  <2>2. ASSUME NEW s \in B
        PROVE  /\ s # b /\ s \in Nat /\ Size(pg, s) \in Nat \ {0} /\ s + Size(pg, s) <= PageUnits
               /\ s < b => s + Size(pg, s) <= b
               /\ b < s => b + units <= s
    <3>1. /\ s \in Nat /\ Size(pg, s) \in Nat \ {0} /\ s + Size(pg, s) <= Link(pg, s)
          /\ Link(pg, s) <= PageUnits /\ Link(pg, s) \in Nat
      BY <2>1, InPage
    <3>2. (s < b /\ s + Size(pg, s) <= b) \/ b + units <= s BY <2>1
    <3>3. QED BY ONLY <2>1, <3>1, <3>2
  <2>3. QED BY <2>1, <2>2
<1>2. /\ lead \subseteq B /\ lead \subseteq {prev} /\ \A s \in lead : s < b
      /\ \A g \in B : g < b => \E s \in lead : g <= s
      /\ next \in B \cup {PageUnits} /\ b + units <= next /\ next \in Nat
      /\ \A g \in B : b < g => next <= g
  BY <1>1 DEF Hole
<1>3. \/ head = b /\ \A s \in lead : s + Size(pg, s) < b
      \/ head \in lead /\ head + Size(pg, head) = b
  <2>1. CASE Joins(pg, b, lead) BY <1>2, <2>1 DEF Joins, NewHead
  <2>2. CASE ~Joins(pg, b, lead)
    <3>1. head = b BY <2>2 DEF NewHead
    <3>2. \A s \in lead : s + Size(pg, s) < b BY <1>1, <1>2, <2>2 DEF Joins
    <3>3. QED BY <3>1, <3>2
  <2>3. QED BY <2>1, <2>2
<1>4. \/ touches /\ next \in B /\ b + units = next /\ tail = next + Size(pg, next) /\ beyond = Link(pg, next)
      \/ ~touches /\ tail = b + units /\ beyond = next /\ (next \in B => b + units < next)
  BY <1>1, <1>2 DEF Touches, NewEnd, Beyond
<1>5. /\ after.mem \in Memories
      /\ Cell(after.mem, head, tail - head, beyond)
      /\ \A s \in lead : s # head => Cell(after.mem, s, Size(pg, s), b)
      /\ \A o \in Offsets : o \notin head .. tail - 1 /\ (\A s \in lead : o \notin s .. s + Size(pg, s) - 1)
                              => after.mem[o] = pg.mem[o]
      /\ after.freelist = IF lead = {} THEN b ELSE pg.freelist
  BY DEF Filled
<1> HIDE DEF head, tail, beyond, touches
<1>6. /\ head \in Nat /\ head <= b /\ tail \in Nat /\ b + units <= tail /\ tail <= PageUnits
      /\ tail - head \in Nat \ {0} /\ \A l \in lead : l <= head
  <2>1. head \in Nat /\ head <= b /\ \A l \in lead : l <= head
    <3>1. CASE head = b BY <1>1, <1>2, <3>1
    <3>2. CASE head \in lead
      <4>1. head \in B /\ head \in Nat /\ head < b BY <1>1, <1>2, <3>2
      <4>2. \A l \in lead : l = head BY <1>2, <3>2
      <4>3. QED BY <1>1, <4>1, <4>2
    <3>3. QED BY <1>3, <3>1, <3>2
  <2>2. tail \in Nat /\ b + units <= tail /\ tail <= PageUnits
    <3>1. CASE touches BY <1>1, <1>4, <3>1
    <3>2. CASE ~touches BY <1>1, <1>4, <3>2
    <3>3. QED BY <3>1, <3>2
  <2>3. QED BY <1>1, <2>1, <2>2
\* A block that stays as it is lies in front of the new one or behind it.
<1>7. ASSUME NEW s \in B, s # head, ~(touches /\ s = next)
      PROVE  s \in Nat /\ Size(pg, s) \in Nat \ {0} /\ ((s < head /\ s + Size(pg, s) < head) \/ tail < s)
  <2>1. s \in Nat /\ Size(pg, s) \in Nat \ {0} /\ s # b BY <1>1
  <2>2. CASE b < s
    <3>1. next <= s /\ next \in B BY <1>1, <1>2, <2>1, <2>2
    <3>2. CASE touches
      <4>1. next < s BY <1>2, <1>7, <2>1, <3>1, <3>2
      <4>2. next + Size(pg, next) < s BY <1>1, <3>1, <4>1 DEF Separate
      <4>3. QED BY <1>4, <2>1, <3>2, <4>2
    <3>3. CASE ~touches BY <1>1, <1>2, <1>4, <2>1, <3>1, <3>3
    <3>4. QED BY <3>2, <3>3
  <2>3. CASE s < b
    <3>1. PICK l \in lead : s <= l BY <1>2, <2>3
    <3>2. l \in B /\ l \in Nat /\ Size(pg, l) \in Nat \ {0} BY <1>1, <1>2
    <3>3. CASE head = b /\ \A x \in lead : x + Size(pg, x) < b
      <4>1. s = l \/ s + Size(pg, s) < l BY <1>1, <2>1, <3>1, <3>2 DEF Separate
      <4>2. l + Size(pg, l) < b BY <3>3
      <4>3. QED BY <1>1, <2>1, <2>3, <3>2, <3>3, <4>1, <4>2
    <3>4. CASE head \in lead
      <4>1. l = head BY <1>2, <3>4
      <4>2. s < l BY <1>7, <2>1, <3>1, <3>2, <4>1
      <4>3. s + Size(pg, s) < l BY <1>1, <3>2, <4>2 DEF Separate
      <4>4. QED BY <2>1, <4>1, <4>2, <4>3
    <3>5. QED BY <1>3, <3>3, <3>4
  <2>4. QED BY <1>1, <2>1, <2>2, <2>3
<1>8. beyond \in new \cup {PageUnits} /\ head + 1 <= beyond /\ \A g \in new : head + 1 <= g => beyond <= g
  <2>1. CASE touches
    <3>1. next \in B /\ beyond = Link(pg, next) /\ b + units = next BY <1>4, <2>1
    <3>2. IsNext(B, next + 1, beyond) BY <1>1, <3>1 DEF Linked
    <3>3. beyond \in B \cup {PageUnits} /\ next + 1 <= beyond /\ beyond \in Nat
      BY <1>1, <3>1, <3>2 DEF IsNext
    <3>4. ASSUME NEW g \in new, head + 1 <= g PROVE beyond <= g
      <4>1. g # head BY <1>6, <3>4
      <4>2. g \in B /\ g # next BY <2>1, <4>1
      <4>3. g \in Nat /\ tail < g BY <1>6, <1>7, <2>1, <3>4, <4>1, <4>2
      <4>4. next + 1 <= g BY <1>1, <1>4, <1>6, <2>1, <3>1, <4>3
      <4>5. QED BY <3>2, <4>2, <4>4 DEF IsNext
    <3>5. beyond # next BY <1>2, <3>3
    <3>6. QED BY <1>1, <1>6, <3>1, <3>3, <3>4, <3>5
  <2>2. CASE ~touches
    <3>1. beyond = next BY <1>4, <2>2
    <3>2. ASSUME NEW g \in new, head + 1 <= g PROVE next <= g
      <4>1. g # head BY <1>6, <3>2
      <4>2. g \in B BY <4>1
      <4>3. g \in Nat /\ tail < g BY <1>6, <1>7, <2>2, <3>2, <4>1, <4>2
      <4>4. QED BY <1>1, <1>2, <1>6, <4>2, <4>3
    <3>3. QED BY <1>1, <1>2, <1>6, <2>2, <3>1, <3>2
  <2>3. QED BY <2>1, <2>2
<1>9. ASSUME NEW s \in lead, s # head
      PROVE  Cell(after.mem, s, Size(pg, s), b) /\ IsNext(new, s + 1, b)
  <2>1. head = b BY <1>2, <1>3, <1>9
  <2>2. s + 1 <= b /\ s \in B /\ s \in Nat BY <1>1, <1>2
  <2>3. ASSUME NEW g \in new, s + 1 <= g PROVE b <= g
    <3>1. CASE g \in B
      <4>1. ~(g < b)
        <5> SUFFICES ASSUME g < b PROVE FALSE OBVIOUS
        <5>1. g <= s BY <1>2, <3>1
        <5>2. QED BY <1>1, <2>2, <2>3, <3>1, <5>1
      <4>2. QED BY <1>1, <3>1, <4>1
    <3>2. CASE g = head BY <1>1, <2>1, <3>2
    <3>3. QED BY <3>1, <3>2
  <2>4. QED BY <1>5, <1>9, <2>1, <2>2, <2>3 DEF IsNext
<1>10. ASSUME NEW s \in B, s # head, ~(touches /\ s = next), s \notin lead
       PROVE  Cell(after.mem, s, Size(pg, s), Link(pg, s)) /\ IsNext(new, s + 1, Link(pg, s))
  <2>1. s \in Nat /\ Size(pg, s) \in Nat \ {0} /\ ((s < head /\ s + Size(pg, s) < head) \/ tail < s)
        /\ s + Size(pg, s) <= PageUnits
    BY <1>1, <1>7, <1>10
  <2>2. \A l \in lead : l \in B /\ l \in Nat /\ Size(pg, l) \in Nat \ {0} /\ l # s
                        /\ (l < s => l + Size(pg, l) <= s) /\ (s < l => s + Size(pg, s) <= l)
    BY <1>1, <1>2, <1>10, BlocksApart
  <2>3. ASSUME NEW o \in s .. s + Size(pg, s) - 1 PROVE after.mem[o] = pg.mem[o]
    <3>1. o \in Offsets /\ o \in Nat BY <1>1, <2>1 DEF Offsets
    <3>2. o \notin head .. tail - 1 BY <1>6, <2>1
    <3>3. ASSUME NEW l \in lead PROVE o \notin l .. l + Size(pg, l) - 1
      <4>1. /\ l \in Nat /\ Size(pg, l) \in Nat /\ l # s
            /\ l < s => l + Size(pg, l) <= s
            /\ s < l => s + Size(pg, s) <= l
        BY <2>2
      <4>2. QED BY <2>1, <4>1
    <3>4. QED BY <1>5, <3>1, <3>2, <3>3
  <2>4. Cell(pg.mem, s, Size(pg, s), Link(pg, s)) /\ IsNext(B, s + 1, Link(pg, s)) BY <1>1 DEF Linked
  <2>5. Cell(after.mem, s, Size(pg, s), Link(pg, s)) BY <2>3, <2>4, CellKept
  <2> DEFINE n == Link(pg, s)
  <2>6. n \in B \cup {PageUnits} /\ s + 1 <= n /\ n \in Nat /\ (\A g \in B : s + 1 <= g => n <= g)
    BY <1>1, <2>4 DEF IsNext
  <2> HIDE DEF n
  <2>7. ~(touches /\ n = next)
    <3> SUFFICES ASSUME touches, n = next PROVE FALSE OBVIOUS
    <3>1. next \in B /\ b + units = next BY <1>4
    <3>2. s < b
      <4>1. s < next BY <1>2, <2>1, <2>6
      <4>2. QED BY <1>1, <2>1, <3>1, <4>1
    <3>3. PICK l \in lead : s <= l BY <1>2, <3>2
    <3>4. l \in B /\ l < b /\ l \in Nat /\ s < l BY <1>1, <1>2, <2>1, <2>2, <3>3
    <3>5. n <= l BY <2>1, <2>6, <3>4
    <3>6. QED BY <1>1, <2>6, <3>1, <3>4, <3>5
  <2>8. s + 1 <= head => n <= head
    <3> SUFFICES ASSUME s + 1 <= head PROVE n <= head OBVIOUS
    <3>1. PICK l \in lead : s <= l BY <1>1, <1>2, <1>6, <2>1
    <3>2. l \in B /\ l < b /\ l \in Nat /\ s < l BY <1>1, <1>2, <2>1, <2>2, <3>1
    <3>3. n <= l BY <2>1, <2>6, <3>2
    <3>4. l <= head BY <1>6
    <3>5. QED BY <1>6, <2>6, <3>2, <3>3, <3>4
  <2>9. n \in new \cup {PageUnits} BY <2>6, <2>7
  <2>10. \A g \in new : s + 1 <= g => n <= g BY <2>6, <2>8
  <2>11. IsNext(new, s + 1, n) BY <2>6, <2>9, <2>10 DEF IsNext
  <2>12. QED BY <2>5, <2>11 DEF n
<1>11. IsNext(new, 0, after.freelist)
  <2>1. IsNext(B, 0, pg.freelist) BY <1>1 DEF Linked
  <2>2. CASE lead = {}
    <3>1. after.freelist = b /\ head = b BY <1>3, <1>5, <2>2
    <3>2. \A g \in B : b <= g BY <1>1, <1>2, <2>2
    <3>3. QED BY <1>1, <3>1, <3>2 DEF IsNext
  <2>3. CASE lead # {}
    <3>1. after.freelist = pg.freelist BY <1>5, <2>3
    <3>2. PICK l \in lead : TRUE BY <2>3
    <3>3. l \in B /\ l \in Nat /\ l < b BY <1>1, <1>2, <3>2
    <3> DEFINE f == pg.freelist
    <3> HIDE DEF f
    <3>4. f \in B \cup {PageUnits} /\ f \in Nat /\ f <= l /\ \A g \in B : f <= g
      <4>1. IsNext(B, 0, f) BY <2>1 DEF f
      <4>2. f \in B \cup {PageUnits} /\ \A g \in B : f <= g BY <1>1, <4>1 DEF IsNext
      <4>3. f \in Nat BY <1>1, <4>2
      <4>4. QED BY <3>3, <4>2, <4>3
    <3>5. f \in B /\ f < b BY <1>1, <3>3, <3>4
    <3>6. ~(touches /\ f = next) BY <1>1, <1>2, <3>4, <3>5
    <3>7. f <= head BY <1>6, <3>3, <3>4
    <3>8. IsNext(new, 0, f) BY <3>4, <3>5, <3>6, <3>7 DEF IsNext
    <3>9. QED BY <3>1, <3>8 DEF f
  <2>4. QED BY <2>2, <2>3
<1>12. new \subseteq Offsets
  <2>1. head \in Offsets BY <1>1, <1>6 DEF Offsets
  <2>2. B \subseteq Offsets BY <1>1 DEF Linked
  <2>3. QED BY <2>1, <2>2
<1>13. Linked(after, new) /\ \A s \in new : Size(after, s) = sizes[s]
  <2>1. ASSUME NEW s \in new
        PROVE  Cell(after.mem, s, sizes[s], links[s]) /\ IsNext(new, s + 1, links[s])
    <3>1. CASE s = head
      <4>1. sizes[s] = tail - head /\ links[s] = beyond BY <3>1
      <4>2. IsNext(new, head + 1, beyond) BY <1>8 DEF IsNext
      <4>3. QED BY <1>5, <3>1, <4>1, <4>2
    <3>2. CASE s # head /\ s \in lead
      <4>1. sizes[s] = Size(pg, s) /\ links[s] = b BY <3>2
      <4>2. QED BY <1>9, <3>2, <4>1
    <3>3. CASE s # head /\ s \notin lead
      <4>1. sizes[s] = Size(pg, s) /\ links[s] = Link(pg, s) BY <3>3
      <4>2. s \in B /\ ~(touches /\ s = next) BY <3>3
      <4>3. QED BY <1>10, <3>3, <4>1, <4>2
    <3>4. QED BY <3>1, <3>2, <3>3
  <2> HIDE DEF sizes, links, new
  <2>2. after.mem \in Memories BY <1>5
  <2>3. QED BY ONLY <1>11, <1>12, <2>1, <2>2, LinkedBy
<1>14. /\ Size(after, head) = tail - head
       /\ \A s \in new : s # head => s \in B /\ ~(touches /\ s = next) /\ Size(after, s) = Size(pg, s)
  BY <1>13
<1>15. Separate(after, new)
  <2> SUFFICES ASSUME NEW f \in new, NEW g \in new, f < g PROVE f + Size(after, f) < g
    BY DEF Separate
  <2>1. CASE f = head
    <3>1. g # head /\ g \in B /\ ~(touches /\ g = next) BY <1>6, <1>14, <2>1
    <3>2. g \in Nat /\ tail < g BY <1>6, <1>7, <2>1, <3>1
    <3>3. QED BY <1>6, <1>14, <2>1, <3>2
  <2>2. CASE f # head /\ g = head
    <3>1. f \in B /\ ~(touches /\ f = next) /\ Size(after, f) = Size(pg, f) BY <1>14, <2>2
    <3>2. QED BY <1>6, <1>7, <2>2, <3>1
  <2>3. CASE f # head /\ g # head
    <3>1. f \in B /\ g \in B /\ Size(after, f) = Size(pg, f) BY <1>14, <2>3
    <3>2. QED BY <1>1, <3>1 DEF Separate
  <2>4. QED BY <2>1, <2>2, <2>3
<1>16. \A o : o \in head .. tail - 1 => o \in Covered(pg, B) \cup Run(b, units)
  <2> SUFFICES ASSUME NEW o \in head .. tail - 1, o \notin Run(b, units) PROVE o \in Covered(pg, B)
    OBVIOUS
  <2>1. o \in Nat /\ (o < b \/ b + units <= o) BY <1>1, <1>6 DEF Run
  <2>2. CASE o < b
    <3>0. head # b BY <1>1, <2>1, <2>2
    <3>1. head \in B /\ head + Size(pg, head) = b BY <1>2, <1>3, <3>0
    <3>2. o \in head .. head + Size(pg, head) - 1 BY <1>1, <1>6, <2>1, <2>2, <3>1
    <3>3. QED BY <3>1, <3>2 DEF Covered
  <2>3. CASE b + units <= o
    <3>1. touches /\ next \in B /\ b + units = next /\ tail = next + Size(pg, next)
      BY <1>1, <1>4, <1>6, <2>1, <2>3
    <3>2. o \in next .. next + Size(pg, next) - 1 BY <1>1, <1>6, <2>1, <2>3, <3>1
    <3>3. QED BY <3>1, <3>2 DEF Covered
  <2>4. QED BY <2>1, <2>2, <2>3
<1>17. Covered(after, new) = Covered(pg, B) \cup Run(b, units)
  <2>1. ASSUME NEW o, o \in Covered(after, new) PROVE o \in Covered(pg, B) \cup Run(b, units)
    <3>1. PICK s \in new : o \in s .. s + Size(after, s) - 1 BY <2>1 DEF Covered
    <3>2. CASE s = head
      <4>1. o \in head .. tail - 1 BY <1>6, <1>14, <3>1, <3>2
      <4>2. QED BY <1>16, <4>1
    <3>3. CASE s # head BY <1>14, <3>1, <3>3 DEF Covered
    <3>4. QED BY <3>2, <3>3
  <2>2. \A o : o \in head .. tail - 1 => o \in Covered(after, new)
    <3>1. head + (tail - head) - 1 = tail - 1 BY <1>6
    <3>2. QED BY <1>14, <3>1 DEF Covered
  <2>3. ASSUME NEW o, o \in Covered(pg, B) PROVE o \in Covered(after, new)
    <3>1. PICK s \in B : o \in s .. s + Size(pg, s) - 1 BY <2>3 DEF Covered
    <3>2. CASE s = head
      <4>1. head + Size(pg, head) = b BY <1>1, <1>3, <3>2
      <4>2. o \in head .. tail - 1 BY <1>1, <1>6, <3>1, <3>2, <4>1
      <4>3. QED BY <2>2, <4>2
    <3>3. CASE s # head /\ touches /\ s = next
      <4>1. tail = next + Size(pg, next) BY <1>4, <3>3
      <4>2. o \in head .. tail - 1 BY <1>1, <1>2, <1>6, <3>1, <3>3, <4>1
      <4>3. QED BY <2>2, <4>2
    <3>4. CASE s # head /\ ~(touches /\ s = next)
      <4>1. s \in new /\ Size(after, s) = Size(pg, s) BY <1>14, <3>4
      <4>2. QED BY <3>1, <4>1 DEF Covered
    <3>5. QED BY <3>2, <3>3, <3>4
  <2>4. ASSUME NEW o, o \in Run(b, units) PROVE o \in Covered(after, new)
    <3>1. o \in head .. tail - 1 BY <1>1, <1>6, <2>4 DEF Run
    <3>2. QED BY <2>2, <3>1
  <2>5. QED BY <2>1, <2>3, <2>4
<1>18. QED BY <1>13, <1>15, <1>17 DEF Joined

\* What a free list that has one more block in a hole looks like in memory, as the
\* three writes of slob_free make it.
LEMMA HoleFacts ==
  ASSUME NEW pg, NEW B, NEW b, NEW units, NEW lead, NEW prev, NEW next,
         Hole(pg, B, b, units, lead, prev, next)
  PROVE  /\ b \in Nat /\ units \in Nat \ {0} /\ b \in Offsets
         /\ NewEnd(pg, B, b, units, next) \in Nat /\ b + units <= NewEnd(pg, B, b, units, next)
         /\ Beyond(pg, B, b, units, next) \in Nat
         /\ IsBlock(b, NewEnd(pg, B, b, units, next) - b, Beyond(pg, B, b, units, next))
         /\ lead # {} => /\ lead = {prev} /\ prev \in B /\ prev \in Nat /\ prev \in Offsets /\ prev < b
                         /\ Size(pg, prev) \in Nat \ {0} /\ prev + Size(pg, prev) <= b
<1> DEFINE tail == NewEnd(pg, B, b, units, next)
           beyond == Beyond(pg, B, b, units, next)
<1>1. /\ Linked(pg, B) /\ b \in Nat /\ units \in Nat \ {0} /\ b + units <= PageUnits /\ PageUnits \in Nat
      /\ next \in B \cup {PageUnits} /\ b + units <= next
  BY Sizes DEF Hole
<1>2. b \in Offsets BY <1>1 DEF Offsets
<1>3. tail \in Nat /\ b + units <= tail /\ beyond \in Nat /\ tail <= beyond /\ beyond <= PageUnits
  <2>1. CASE Touches(B, b, units, next)
    <3>1. next \in B /\ b + units = next BY <2>1 DEF Touches
    <3>2. /\ next \in Nat /\ Size(pg, next) \in Nat \ {0} /\ next + Size(pg, next) <= Link(pg, next)
          /\ Link(pg, next) \in Nat /\ Link(pg, next) <= PageUnits
      BY <1>1, <3>1, InPage
    <3>3. tail = next + Size(pg, next) /\ beyond = Link(pg, next) BY <2>1 DEF NewEnd, Beyond
    <3>4. QED BY <1>1, <3>1, <3>2, <3>3
  <2>2. CASE ~Touches(B, b, units, next)
    <3>1. tail = b + units /\ beyond = next BY <2>2 DEF NewEnd, Beyond
    <3>2. next \in Nat /\ next <= PageUnits
      <4>1. next \in B => next \in Offsets BY <1>1 DEF Linked
      <4>2. QED BY <1>1, <4>1 DEF Offsets
    <3>3. QED BY <1>1, <3>1, <3>2
  <2>3. QED BY <2>1, <2>2
<1> HIDE DEF tail, beyond
<1>4. IsBlock(b, tail - b, beyond)
  <2>1. tail - b \in 1 .. PageUnits - b BY <1>1, <1>3
  <2>2. beyond \in b + (tail - b) .. PageUnits BY <1>1, <1>3
  <2>3. QED BY <1>2, <2>1, <2>2 DEF IsBlock
<1>5. ASSUME lead # {}
      PROVE  /\ lead = {prev} /\ prev \in B /\ prev \in Nat /\ prev \in Offsets /\ prev < b
             /\ Size(pg, prev) \in Nat \ {0} /\ prev + Size(pg, prev) <= b
  <2>1. lead = {prev} /\ prev \in B /\ prev < b BY <1>5 DEF Hole
  <2>2. (prev < b /\ prev + Size(pg, prev) <= b) \/ b + units <= prev BY <2>1 DEF Hole
  <2>3. prev \in Nat /\ prev \in Offsets /\ Size(pg, prev) \in Nat \ {0} BY <1>1, <2>1, InPage
  <2>4. QED BY <1>1, <2>1, <2>2, <2>3
<1>6. QED BY <1>1, <1>2, <1>3, <1>4, <1>5 DEF tail, beyond

\* The block is written in front of next, and joined with it.
LEMMA WritesBlock ==
  ASSUME NEW pg \in PageRecords, NEW B, NEW b, NEW units, NEW lead, NEW prev, NEW next,
         Hole(pg, B, b, units, lead, prev, next)
  PROVE  LET m == IF Touches(B, b, units, next)
                  THEN set_slob(pg.mem, b, units + slob_units(pg.mem, next), slob_next(pg.mem, next))
                  ELSE set_slob(pg.mem, b, units, next)
             tail == NewEnd(pg, B, b, units, next)
         IN  /\ m \in Memories
             /\ Cell(m, b, tail - b, Beyond(pg, B, b, units, next))
             /\ \A o \in Offsets : o \notin b .. tail - 1 => m[o] = pg.mem[o]
<1> DEFINE tail == NewEnd(pg, B, b, units, next)
           beyond == Beyond(pg, B, b, units, next)
           size == tail - b
           m == IF Touches(B, b, units, next)
                THEN set_slob(pg.mem, b, units + slob_units(pg.mem, next), slob_next(pg.mem, next))
                ELSE set_slob(pg.mem, b, units, next)
<1>1. b \in Nat /\ units \in Nat \ {0} /\ tail \in Nat /\ IsBlock(b, size, beyond) BY HoleFacts
<1>2. m = set_slob(pg.mem, b, size, beyond)
  <2>1. CASE Touches(B, b, units, next)
    <3>1. next \in B /\ b + units = next /\ Linked(pg, B) BY <2>1 DEF Touches, Hole
    <3>2. next \in Nat /\ Size(pg, next) \in Nat BY <3>1, InPage
    <3>3. tail = next + Size(pg, next) /\ beyond = Link(pg, next) BY <2>1 DEF NewEnd, Beyond
    <3> HIDE DEF tail, beyond
    <3>4. size = units + Size(pg, next) BY <1>1, <3>1, <3>2, <3>3
    <3>5. m = set_slob(pg.mem, b, units + Size(pg, next), Link(pg, next)) BY <2>1 DEF Size, Link
    <3>6. QED BY <3>3, <3>4, <3>5
  <2>2. CASE ~Touches(B, b, units, next)
    <3>1. tail = b + units /\ beyond = next BY <2>2 DEF NewEnd, Beyond
    <3> HIDE DEF tail, beyond
    <3>2. size = units BY <1>1, <3>1
    <3>3. QED BY <2>2, <3>1, <3>2
  <2>3. QED BY <2>1, <2>2
<1>3. pg.mem \in Memories BY DEF PageRecords
<1> HIDE DEF m, beyond, size
<1>4. /\ m \in Memories /\ Cell(m, b, size, beyond)
      /\ \A o \in Offsets \ (b .. b + size - 1) : m[o] = pg.mem[o]
  BY ONLY <1>1, <1>2, <1>3, CellWritten, SetSlobStaysInside
<1>5. b + size - 1 = tail - 1 BY <1>1 DEF size
<1>6. \A o \in Offsets : o \notin b .. tail - 1 => m[o] = pg.mem[o] BY <1>4, <1>5
<1>7. QED BY <1>4, <1>6 DEF m, beyond, size

\* slob_free in front of all free blocks.
LEMMA FillsFront ==
  ASSUME NEW pg \in PageRecords, NEW B, NEW b, NEW units, NEW prev,
         Hole(pg, B, b, units, {}, prev, pg.freelist), pg.freelist \in B
  PROVE  Filled(pg, B, b, units, {}, prev, pg.freelist, FreeAtFront(pg, b, units))
<1> DEFINE next == pg.freelist
           tail == NewEnd(pg, B, b, units, next)
           beyond == Beyond(pg, B, b, units, next)
           touches == Touches(B, b, units, next)
           m == IF touches
                THEN set_slob(pg.mem, b, units + slob_units(pg.mem, next), slob_next(pg.mem, next))
                ELSE set_slob(pg.mem, b, units, next)
           after == FreeAtFront(pg, b, units)
<1>1. after.mem = m /\ after.freelist = b BY DEF FreeAtFront, PageRecords, Touches
<1>2. /\ m \in Memories /\ Cell(m, b, tail - b, beyond)
      /\ \A o \in Offsets : o \notin b .. tail - 1 => m[o] = pg.mem[o]
  BY WritesBlock
<1> HIDE DEF m, after, tail, beyond
<1>3. NewHead(pg, b, {}, prev) = b BY DEF NewHead, Joins
<1>4. QED BY <1>1, <1>2, <1>3 DEF Filled, after, tail, beyond

\* slob_free behind one of them.
LEMMA FillsBehind ==
  ASSUME NEW pg \in PageRecords, NEW B, NEW b, NEW units, NEW prev, NEW next,
         prev = Max(BlocksBefore(pg, b)), next = Link(pg, prev),
         Hole(pg, B, b, units, {prev}, prev, next)
  PROVE  Filled(pg, B, b, units, {prev}, prev, next, FreeBehind(pg, b, units))
<1> DEFINE tail == NewEnd(pg, B, b, units, next)
           beyond == Beyond(pg, B, b, units, next)
           touches == Touches(B, b, units, next)
           withB == IF touches
                    THEN set_slob(pg.mem, b, units + slob_units(pg.mem, next), slob_next(pg.mem, next))
                    ELSE set_slob(pg.mem, b, units, next)
           size == Size(pg, prev)
           after == FreeBehind(pg, b, units)
           head == NewHead(pg, b, {prev}, prev)
<1>1. /\ b \in Nat /\ units \in Nat \ {0} /\ b \in Offsets /\ tail \in Nat /\ b + units <= tail
      /\ beyond \in Nat /\ IsBlock(b, tail - b, beyond)
      /\ prev \in B /\ prev \in Nat /\ prev \in Offsets /\ prev < b
      /\ size \in Nat \ {0} /\ prev + size <= b
  BY HoleFacts
<1>2. /\ withB \in Memories /\ Cell(withB, b, tail - b, beyond)
      /\ \A o \in Offsets : o \notin b .. tail - 1 => withB[o] = pg.mem[o]
  BY WritesBlock
<1>3. slob_units(withB, b) = tail - b /\ slob_next(withB, b) = beyond
  <2> HIDE DEF withB, tail, beyond
  <2>1. QED BY ONLY <1>2, CellReads
<1>4. slob_units(withB, prev) = size
  <2>1. prev \notin b .. tail - 1 BY <1>1
  <2> HIDE DEF withB
  <2>2. withB[prev] = pg.mem[prev] BY <1>1, <1>2, <2>1
  <2>3. QED BY <2>2 DEF slob_units, Size
<1>5. touches <=> next # PageUnits /\ b + units = next
  <2>1. next \in B \cup {PageUnits} /\ Linked(pg, B) BY DEF Hole
  <2>2. PageUnits \notin B BY <2>1, Sizes DEF Linked, Offsets
  <2>3. QED BY <2>1, <2>2 DEF Touches
<1> DEFINE wrote == IF prev + slob_units(withB, prev) = b
                    THEN set_slob(withB, prev, slob_units(withB, b) + slob_units(withB, prev),
                                  slob_next(withB, b))
                    ELSE set_slob(withB, prev, slob_units(withB, prev), b)
<1>6. after.mem = wrote /\ after.freelist = pg.freelist
  <2>1. withB = IF next # PageUnits /\ b + units = next
                THEN set_slob(pg.mem, b, units + slob_units(pg.mem, next), slob_next(pg.mem, next))
                ELSE set_slob(pg.mem, b, units, next)
    BY <1>5
  <2>2. next = slob_next(pg.mem, Max(BlocksBefore(pg, b))) BY DEF Link
  <2> HIDE DEF withB
  <2>3. after = [pg EXCEPT !.units = @ + units, !.mem = wrote] BY <2>1, <2>2 DEF FreeBehind
  <2> HIDE DEF after, wrote
  <2>4. QED BY <2>3 DEF PageRecords
<1> HIDE DEF withB, touches
<1>7. CASE prev + size = b
  <2> DEFINE whole == tail - prev
  <2>1. head = prev /\ (tail - b) + size = whole
    <3>1. head = prev BY <1>7 DEF NewHead, Joins
    <3> HIDE DEF tail, size
    <3>2. QED BY <1>1, <1>7, <3>1
  <2>2. wrote = set_slob(withB, prev, whole, beyond) BY <1>3, <1>4, <1>7, <2>1
  <2> HIDE DEF wrote, tail, beyond, after, size
  <2>3. IsBlock(prev, whole, beyond)
    <3>1. tail - b \in 1 .. PageUnits - b /\ beyond \in b + (tail - b) .. PageUnits /\ PageUnits \in Nat
      BY <1>1, Sizes DEF IsBlock
    <3>2. QED BY <1>1, <3>1 DEF IsBlock
  <2>4. prev + whole - 1 = tail - 1 BY <1>1
  <2> HIDE DEF whole
  <2>5. /\ wrote \in Memories /\ Cell(wrote, prev, whole, beyond)
        /\ \A o \in Offsets \ (prev .. prev + whole - 1) : wrote[o] = withB[o]
    BY ONLY <1>2, <2>2, <2>3, CellWritten, SetSlobStaysInside
  <2>6. \A o \in Offsets : o \notin prev .. tail - 1 => wrote[o] = pg.mem[o]
    <3> SUFFICES ASSUME NEW o \in Offsets, o \notin prev .. tail - 1 PROVE wrote[o] = pg.mem[o] OBVIOUS
    <3>1. o \notin b .. tail - 1 BY <1>1 DEF Offsets
    <3>2. wrote[o] = withB[o] BY <2>4, <2>5
    <3>3. QED BY <1>2, <3>1, <3>2
  <2>7. Cell(wrote, head, tail - head, beyond) BY <2>1, <2>5 DEF whole
  <2>8. QED BY <1>6, <2>1, <2>5, <2>6, <2>7 DEF Filled, tail, beyond, after, head
<1>8. CASE prev + size # b
  <2>1. head = b BY <1>8 DEF NewHead, Joins
  <2>2. wrote = set_slob(withB, prev, size, b) BY <1>4, <1>8
  <2> HIDE DEF wrote, tail, beyond, after, size
  <2>3. IsBlock(prev, size, b)
    <3>1. b < PageUnits /\ PageUnits \in Nat BY <1>1, Sizes DEF Offsets
    <3>2. QED BY <1>1, <3>1 DEF IsBlock
  <2>4. /\ wrote \in Memories /\ Cell(wrote, prev, size, b)
        /\ \A o \in Offsets \ (prev .. prev + size - 1) : wrote[o] = withB[o]
    BY ONLY <1>2, <2>2, <2>3, CellWritten, SetSlobStaysInside
  <2>5. Cell(wrote, b, tail - b, beyond)
    <3>1. tail - b \in Nat /\ b + (tail - b) - 1 = tail - 1 /\ tail <= PageUnits
      <4>1. tail - b \in 1 .. PageUnits - b /\ PageUnits \in Nat BY <1>1, Sizes DEF IsBlock
      <4>2. QED BY <1>1, <4>1
    <3>2. ASSUME NEW o \in b .. b + (tail - b) - 1 PROVE wrote[o] = withB[o]
      <4>1. o \in Offsets /\ o \notin prev .. prev + size - 1 BY <1>1, <3>1, Sizes DEF Offsets
      <4>2. QED BY <2>4, <4>1
    <3>3. QED BY <1>2, <3>2, CellKept
  <2>6. \A o \in Offsets : o \notin b .. tail - 1 /\ o \notin prev .. prev + size - 1 => wrote[o] = pg.mem[o]
    BY <1>2, <2>4
  <2>7. Cell(wrote, head, tail - head, beyond) BY <2>1, <2>5
  <2>8. \A o \in Offsets : o \notin head .. tail - 1 /\ (\A s \in {prev} : o \notin s .. s + Size(pg, s) - 1)
                              => wrote[o] = pg.mem[o]
    BY <2>1, <2>6 DEF size
  <2>9. \A s \in {prev} : Cell(wrote, s, Size(pg, s), b) BY <2>4 DEF size
  <2>10. QED BY <1>6, <2>4, <2>7, <2>8, <2>9 DEF Filled, tail, beyond, after, head
<1>9. QED BY <1>7, <1>8

\* slob_free: the units of the run are free as well, and nothing is written but in
\* the free units.
Frees(pg, b, units, after) ==
  /\ Exact(after)
  /\ FreeUnitsOf(after) = FreeUnitsOf(pg) \cup Run(b, units)
  /\ after.units = pg.units + units
  /\ \A o \in Offsets \ (FreeUnitsOf(pg) \cup Run(b, units)) : after.mem[o] = pg.mem[o]

\* Once the list is right, so is the count.
LEMMA Counts ==
  ASSUME NEW pg, Exact(pg), NEW b \in Nat, NEW units \in Nat \ {0},
         Run(b, units) \cap FreeUnitsOf(pg) = {}, NEW after,
         after = [units |-> pg.units + units, freelist |-> after.freelist, mem |-> after.mem],
         Joined(pg, FreeBlocks(pg), b, units, after),
         \A o \in Offsets \ (FreeUnitsOf(pg) \cup Run(b, units)) : after.mem[o] = pg.mem[o]
  PROVE  Frees(pg, b, units, after)
<1> DEFINE B == FreeBlocks(pg)
<1>1. PICK new : /\ Linked(after, new) /\ Separate(after, new)
                 /\ Covered(after, new) = FreeUnitsOf(pg) \cup Run(b, units)
  BY DEF Joined, FreeUnitsOf
<1>2. after.units = pg.units + units OBVIOUS
<1>3. IsFiniteSet(FreeUnitsOf(pg)) /\ pg.units = Cardinality(FreeUnitsOf(pg))
  BY CoveredFacts DEF Exact, FreeUnitsOf
<1>4. IsFiniteSet(Run(b, units)) /\ Cardinality(Run(b, units)) = units BY RunCounts
<1>5. Cardinality(FreeUnitsOf(pg) \cup Run(b, units)) = pg.units + units - Cardinality({})
  BY <1>3, <1>4, FS_Union
<1>6. pg.units \in Nat BY DEF Exact, PageRecords
<1>7. after.units = Cardinality(Covered(after, new))
  BY <1>1, <1>2, <1>5, <1>6, FS_EmptySet
<1>8. after = [units |-> after.units, freelist |-> after.freelist, mem |-> after.mem] BY <1>2
<1>9. Exact(after) /\ FreeUnitsOf(after) = Covered(after, new) BY <1>1, <1>7, <1>8, ExactBy
<1>10. QED BY <1>1, <1>2, <1>9 DEF Frees

\* slob_free into a page that is partly free: the block is joined with those that it
\* touches, on either side, and the list is exact again.
THEOREM FreesIntoPartial ==
  ASSUME NEW pg, Exact(pg), FreeUnitsOf(pg) # {}, NEW b \in Nat, NEW units \in Nat \ {0},
         Run(b, units) \subseteq Offsets, Run(b, units) \cap FreeUnitsOf(pg) = {}
  PROVE  Frees(pg, b, units, FreeIntoPartial(pg, b, units))
<1> DEFINE B == FreeBlocks(pg)
           after == FreeIntoPartial(pg, b, units)
           free == FreeUnitsOf(pg)
<1>1. pg \in PageRecords /\ Linked(pg, B) /\ Separate(pg, B) BY DEF Exact
<1>2. free = Covered(pg, B) BY DEF FreeUnitsOf
<1> HIDE DEF B
<1>3. b + units <= PageUnits /\ b \in Offsets /\ PageUnits \in Nat
  <2>1. b \in Run(b, units) /\ b + units - 1 \in Run(b, units) BY DEF Run
  <2>2. b + units - 1 \in Offsets /\ b \in Offsets BY <2>1
  <2>3. QED BY <2>2, Sizes DEF Offsets
<1>4. ASSUME NEW s \in B
      PROVE  /\ s \in Nat /\ Size(pg, s) \in Nat \ {0}
             /\ (s < b /\ s + Size(pg, s) <= b) \/ b + units <= s
  <2>1. s \in Nat /\ Size(pg, s) \in Nat \ {0} BY <1>1, InPage
  <2>2. s .. s + Size(pg, s) - 1 \subseteq free BY <1>2 DEF Covered
  <2>3. s \notin Run(b, units) /\ b \notin s .. s + Size(pg, s) - 1
    <3>1. s \in free /\ b \in Run(b, units) BY <2>1, <2>2 DEF Run
    <3>2. QED BY <2>2, <3>1
  <2>4. QED BY <2>1, <2>3 DEF Run
<1>5. B # {} BY <1>2 DEF Covered
<1>6. IsNext(B, 0, pg.freelist) BY <1>1 DEF Linked
<1>7. pg.freelist \in B /\ \A g \in B : pg.freelist <= g
  <2>1. PICK g \in B : TRUE BY <1>5
  <2>2. pg.freelist <= g /\ g < PageUnits /\ g \in Nat
    BY <1>1, <1>3, <1>6, <2>1, InPage DEF IsNext, Offsets
  <2>3. pg.freelist \in B BY <1>3, <1>6, <2>2 DEF IsNext
  <2>4. \A h \in B : pg.freelist <= h BY <1>4, <1>6 DEF IsNext
  <2>5. QED BY <2>3, <2>4
<1>8. after.units = pg.units + units
      /\ after = [units |-> pg.units + units, freelist |-> after.freelist, mem |-> after.mem]
  <2>1. CASE b < pg.freelist
    <3>1. after = FreeAtFront(pg, b, units) BY <2>1 DEF FreeIntoPartial
    <3>2. QED BY <1>1, <3>1 DEF FreeAtFront, PageRecords
  <2>2. CASE ~(b < pg.freelist)
    <3>1. after = FreeBehind(pg, b, units) BY <2>2 DEF FreeIntoPartial
    <3>2. QED BY <1>1, <3>1 DEF FreeBehind, PageRecords
  <2>3. QED BY <2>1, <2>2
<1>9. \E lead, prev, next : /\ Hole(pg, B, b, units, lead, prev, next)
                            /\ Filled(pg, B, b, units, lead, prev, next, after)
  <2>1. CASE b < pg.freelist
    <3>1. after = FreeAtFront(pg, b, units) BY <2>1 DEF FreeIntoPartial
    <3>2. \A g \in B : b < g /\ b + units <= g
      <4>1. pg.freelist \in Nat /\ b < pg.freelist BY <1>4, <1>7, <2>1
      <4>2. QED BY <1>4, <1>7, <4>1
    <3>3. Hole(pg, B, b, units, {}, 0, pg.freelist)
      <4>1. \A g \in B : ~(g < b) BY <1>4, <3>2
      <4>2. b + units <= pg.freelist BY <1>7, <3>2
      <4>3. QED BY <1>1, <1>3, <1>4, <1>7, <4>1, <4>2 DEF Hole
    <3>4. Filled(pg, B, b, units, {}, 0, pg.freelist, FreeAtFront(pg, b, units))
      BY <1>1, <1>7, <3>3, FillsFront
    <3>5. QED BY <3>1, <3>3, <3>4
  <2>2. CASE ~(b < pg.freelist)
    <3>1. after = FreeBehind(pg, b, units) BY <2>2 DEF FreeIntoPartial
    <3> DEFINE prev == Max(BlocksBefore(pg, b))
               next == Link(pg, prev)
    <3>2. BlocksBefore(pg, b) # {}
      <4>1. pg.freelist \in Nat /\ pg.freelist # b BY <1>4, <1>7
      <4>2. pg.freelist < b BY <2>2, <4>1
      <4>3. pg.freelist \in FreeBlocks(pg) BY <1>7 DEF B
      <4>4. QED BY <4>2, <4>3 DEF BlocksBefore
    <3>3. /\ prev \in B /\ prev < b
          /\ \A f \in B : f < b => f <= prev
          /\ b <= next
      <4>1. b <= PageUnits BY <1>3
      <4>2. QED BY <1>1, <3>2, <4>1, Before
    <3> HIDE DEF prev
    <3>4. IsNext(B, prev + 1, next) /\ next \in Nat BY <1>1, <3>3, InPage DEF Linked
    <3>5. b + units <= next
      <4>1. next \in B \cup {PageUnits} BY <3>4 DEF IsNext
      <4>2. next \in B => ~(next < b) BY <1>4, <3>3
      <4>3. QED BY <1>3, <1>4, <4>1, <4>2
    <3>6. \A g \in B : b < g => next <= g
      <4>1. \A g \in B : b < g => prev + 1 <= g BY <1>4, <3>3
      <4>2. QED BY <3>4, <4>1 DEF IsNext
    <3>7. next \in B \cup {PageUnits} BY <3>4 DEF IsNext
    <3>8. Hole(pg, B, b, units, {prev}, prev, next)
      BY <1>1, <1>3, <1>4, <3>3, <3>5, <3>6, <3>7 DEF Hole
    <3>9. Filled(pg, B, b, units, {prev}, prev, next, FreeBehind(pg, b, units))
      BY <1>1, <3>8, FillsBehind DEF prev
    <3>10. QED BY <3>1, <3>8, <3>9
  <2>3. QED BY <2>1, <2>2
<1> HIDE DEF after, free
<1>10. PICK lead, prev, next : /\ Hole(pg, B, b, units, lead, prev, next)
                               /\ Filled(pg, B, b, units, lead, prev, next, after)
  BY <1>9
<1>11. Joined(pg, B, b, units, after) BY ONLY <1>10, Rejoins
<1> DEFINE head == NewHead(pg, b, lead, prev)
           tail == NewEnd(pg, B, b, units, next)
<1>12. ASSUME NEW o \in Offsets \ (free \cup Run(b, units)) PROVE after.mem[o] = pg.mem[o]
  <2>1. \A s \in B : o \notin s .. s + Size(pg, s) - 1 BY <1>2 DEF Covered
  <2>2. lead \subseteq B /\ lead \subseteq {prev} BY <1>10 DEF Hole
  <2>3. o \notin head .. tail - 1
    <3>0. o \in Nat /\ (o < b \/ b + units <= o)
      <4>1. o \notin Run(b, units) /\ o \in Nat BY DEF Offsets
      <4>2. QED BY <4>1 DEF Run
    <3>1. CASE o < b
      <4>1. CASE Joins(pg, b, lead)
        <5>1. head = prev /\ prev \in B /\ prev + Size(pg, prev) = b
          BY <2>2, <4>1 DEF Joins, NewHead
        <5>2. prev \in Nat /\ Size(pg, prev) \in Nat BY <1>4, <5>1
        <5>3. o \notin prev .. prev + Size(pg, prev) - 1 BY <2>1, <5>1
        <5>4. o < prev BY <3>0, <3>1, <5>1, <5>2, <5>3
        <5> HIDE DEF head, tail
        <5>5. QED BY <5>1, <5>2, <5>4, <3>0
      <4>2. CASE ~Joins(pg, b, lead)
        <5>1. head = b BY <4>2 DEF NewHead
        <5> HIDE DEF head, tail
        <5>2. QED BY <3>0, <3>1, <5>1
      <4>3. QED BY <4>1, <4>2
    <3>2. CASE b + units <= o
      <4>1. CASE Touches(B, b, units, next)
        <5>1. tail = next + Size(pg, next) /\ next \in B /\ b + units = next
          BY <4>1 DEF Touches, NewEnd
        <5>2. next \in Nat /\ Size(pg, next) \in Nat BY <1>4, <5>1
        <5>3. o \notin next .. next + Size(pg, next) - 1 BY <2>1, <5>1
        <5>4. ~(o <= tail - 1)
          <6> HIDE DEF tail
          <6>1. QED BY <3>0, <3>2, <5>1, <5>2, <5>3
        <5> HIDE DEF head, tail
        <5>5. QED BY <5>4
      <4>2. CASE ~Touches(B, b, units, next)
        <5>1. tail = b + units BY <4>2 DEF NewEnd
        <5> HIDE DEF head, tail
        <5>2. QED BY <3>0, <3>2, <5>1
      <4>3. QED BY <4>1, <4>2
    <3>3. QED BY <3>0, <3>1, <3>2
  <2>4. \A s \in lead : o \notin s .. s + Size(pg, s) - 1 BY <2>1, <2>2
  <2>5. QED BY <1>10, <2>3, <2>4 DEF Filled
<1>13. Joined(pg, FreeBlocks(pg), b, units, after) BY <1>11 DEF B
<1>14. Frees(pg, b, units, after)
  <2>1. \A o \in Offsets \ (FreeUnitsOf(pg) \cup Run(b, units)) : after.mem[o] = pg.mem[o]
    BY <1>12 DEF free
  <2>2. QED BY <1>8, <1>13, <2>1, Counts
<1>15. QED BY <1>14 DEF after

\* A block alone on the free list of a page.
LEMMA OneBlock ==
  ASSUME NEW mem \in Memories, NEW b \in Nat, NEW units \in Nat \ {0}, b + units <= PageUnits
  PROVE  LET after == [units |-> units, freelist |-> b, mem |-> set_slob(mem, b, units, PageUnits)]
         IN  /\ Exact(after) /\ FreeUnitsOf(after) = Run(b, units)
             /\ FreeBlocks(after) = {b} /\ Size(after, b) = units
             /\ \A o \in Offsets \ Run(b, units) : after.mem[o] = mem[o]
<1> DEFINE m == set_slob(mem, b, units, PageUnits)
           after == [units |-> units, freelist |-> b, mem |-> m]
<1>1. b \in Offsets /\ PageUnits \in Nat BY Sizes DEF Offsets
<1>2. IsBlock(b, units, PageUnits) BY <1>1 DEF IsBlock
<1> HIDE DEF m
<1>3. /\ m \in Memories /\ Cell(m, b, units, PageUnits)
      /\ \A o \in Offsets \ (b .. b + units - 1) : m[o] = mem[o]
  BY ONLY <1>2, CellWritten, SetSlobStaysInside DEF m
<1> DEFINE sizes == [s \in {b} |-> units]
           links == [s \in {b} |-> PageUnits]
<1>4. Linked(after, {b}) /\ \A s \in {b} : Size(after, s) = sizes[s]
  <2>1. after.mem \in Memories /\ {b} \subseteq Offsets BY <1>1, <1>3
  <2>2. IsNext({b}, 0, after.freelist) BY DEF IsNext
  <2>3. IsNext({b}, b + 1, PageUnits) BY <1>1 DEF IsNext, Offsets
  <2>4. ASSUME NEW s \in {b}
        PROVE  Cell(after.mem, s, sizes[s], links[s]) /\ IsNext({b}, s + 1, links[s])
    BY <1>3, <2>3
  <2> HIDE DEF sizes, links, after
  <2>5. QED BY ONLY <2>1, <2>2, <2>4, LinkedBy
<1>5. Size(after, b) = units BY <1>4
<1>6. Separate(after, {b}) BY DEF Separate
<1>7. Covered(after, {b}) = Run(b, units) BY <1>5 DEF Covered, Run
<1>8. Cardinality(Run(b, units)) = units BY RunCounts
<1>9. FreeBlocks(after) = {b} BY <1>4, Walk
<1>10. after.units = Cardinality(Covered(after, {b})) BY <1>7, <1>8
<1>11. Exact(after) /\ FreeUnitsOf(after) = Covered(after, {b})
  <2>1. after = [units |-> after.units, freelist |-> after.freelist, mem |-> after.mem] OBVIOUS
  <2> HIDE DEF after
  <2>2. QED BY <1>4, <1>6, <1>10, <2>1, ExactBy
<1>12. QED BY <1>3, <1>5, <1>7, <1>9, <1>11 DEF m, Run

\* slob_free into a page that had nothing free: the block is its free list.
LEMMA FreesIntoFull ==
  ASSUME NEW pg \in PageRecords, NEW b \in Nat, NEW units \in Nat \ {0}, b + units <= PageUnits
  PROVE  LET after == FreeIntoFull(pg, b, units) IN
         /\ Exact(after) /\ FreeUnitsOf(after) = Run(b, units) /\ after.units = units
         /\ \A o \in Offsets \ Run(b, units) : after.mem[o] = pg.mem[o]
<1>1. pg.mem \in Memories BY DEF PageRecords
<1>2. FreeIntoFull(pg, b, units) =
        [units |-> units, freelist |-> b, mem |-> set_slob(pg.mem, b, units, PageUnits)]
  <2> DEFINE m == set_slob(pg.mem, b, units, PageUnits)
  <2>1. FreeIntoFull(pg, b, units) = [pg EXCEPT !.units = units, !.freelist = b, !.mem = m]
    BY DEF FreeIntoFull, PageRecords
  <2> HIDE DEF m
  <2>2. FreeIntoFull(pg, b, units) = [units |-> units, freelist |-> b, mem |-> m]
    BY <2>1 DEF PageRecords
  <2>3. QED BY <2>2 DEF m
<1>3. QED BY <1>1, <1>2, OneBlock

\* A page is one, whatever it holds.
LEMMA JunkIs == JunkPage \in PageRecords
<1>1. PageUnits \in Nat /\ PageUnits \in Shorts BY Sizes, ShortsAre
<1>2. QED BY <1>1 DEF JunkPage, Junk, PageRecords, Memories

\* A page that slob_new_pages has just returned is one free block.
LEMMA FreshIs ==
  /\ Exact(FreshPage) /\ FreeUnitsOf(FreshPage) = Offsets /\ FreshPage.units = PageUnits
  /\ FreeBlocks(FreshPage) = {0} /\ Size(FreshPage, 0) = PageUnits
<1>1. PageUnits \in Nat \ {0} /\ 0 + PageUnits <= PageUnits BY Sizes
<1>2. JunkPage.mem \in Memories BY JunkIs DEF PageRecords
<1>3. FreshPage = [units |-> PageUnits, freelist |-> 0, mem |-> set_slob(JunkPage.mem, 0, PageUnits, PageUnits)]
  BY DEF FreshPage
<1>4. Run(0, PageUnits) = Offsets BY <1>1 DEF Run, Offsets
<1>5. QED BY <1>1, <1>2, <1>3, <1>4, OneBlock

\* BUG_ON(!b): a fresh page has room for whatever is less than a page, however it
\* is aligned.
LEMMA FreshHasRoom ==
  ASSUME NEW size \in Nat \ {0}, size <= PageUnits * SLOB_UNIT, NEW align \in Nat
  PROVE  slob_page_alloc(FreshPage, size, align).block # NULL
<1> DEFINE units == SLOB_UNITS(size)
           rooms == RoomAt(FreshPage, units, align)
           f == Min(rooms)
<1>1. units \in Nat \ {0} /\ units <= PageUnits /\ PageUnits \in Nat BY UnitsAre, Sizes
<1>2. AlignUp(0, align) = 0 BY AlignsZero
<1>3. 0 \in rooms /\ rooms = {0}
  <2>1. FreeBlocks(FreshPage) = {0} /\ slob_units(FreshPage.mem, 0) = PageUnits BY FreshIs DEF Size
  <2> HIDE DEF units
  <2>2. PageUnits >= units + AlignUp(0, align) - 0 BY <1>1, <1>2
  <2>3. rooms = {s \in {0} : slob_units(FreshPage.mem, s) >= units + AlignUp(s, align) - s}
    BY <2>1 DEF RoomAt
  <2>4. QED BY <2>1, <2>2, <2>3
<1>4. f = 0
  <2>1. rooms \in SUBSET Nat /\ rooms # {} BY <1>3
  <2> HIDE DEF rooms
  <2>2. QED BY <1>3, <2>1, MinOf
<1>5. slob_page_alloc(FreshPage, size, align).block = AlignUp(f, align)
  <2>1. rooms # {} BY <1>3
  <2>2. QED BY <2>1 DEF slob_page_alloc
<1>6. QED BY <1>2, <1>4, <1>5 DEF NULL

\* Callers write into what they hold: the free list stays.
LEMMA HandedOut ==
  ASSUME NEW pg, Exact(pg), NEW mem \in Memories,
         \A o \in FreeUnitsOf(pg) : mem[o] = pg.mem[o]
  PROVE  LET after == [pg EXCEPT !.mem = mem] IN
         Exact(after) /\ FreeUnitsOf(after) = FreeUnitsOf(pg) /\ after.units = pg.units /\ after.mem = mem
<1> DEFINE after == [pg EXCEPT !.mem = mem]
           B == FreeBlocks(pg)
<1>1. /\ after.mem = mem /\ after.freelist = pg.freelist /\ after.units = pg.units
      /\ after = [units |-> after.units, freelist |-> after.freelist, mem |-> after.mem]
  BY DEF Exact, PageRecords
<1> HIDE DEF after
<1>2. Linked(pg, B) /\ Separate(pg, B) /\ pg.units = Cardinality(Covered(pg, B)) /\ FreeUnitsOf(pg) = Covered(pg, B)
  BY DEF Exact, FreeUnitsOf
<1> HIDE DEF B
<1>3. Linked(after, B) /\ Covered(after, B) = Covered(pg, B) /\ Separate(after, B)
  BY <1>1, <1>2, LinkedKept
<1>4. Exact(after) /\ FreeUnitsOf(after) = Covered(after, B) BY <1>1, <1>2, <1>3, ExactBy
<1>5. QED BY <1>1, <1>2, <1>3, <1>4 DEF after

\* The page lists offer a page by its count: if it has room, the count was enough.
LEMMA RoomIsCounted ==
  ASSUME NEW pg, Exact(pg), NEW size \in Nat \ {0}, NEW align \in Nat,
         slob_page_alloc(pg, size, align).block # NULL
  PROVE  pg.units >= SLOB_UNITS(size) /\ pg.units \in Nat
<1> DEFINE a == slob_page_alloc(pg, size, align)
           units == SLOB_UNITS(size)
<1>1. Exact(a.page) /\ a.page.units = pg.units - units BY Allocates
<1>2. a.page.units \in Nat /\ pg.units \in Nat BY <1>1 DEF Exact, PageRecords
<1>3. units \in Nat BY UnitsAre
<1> HIDE DEF a, units
<1>4. pg.units >= units /\ pg.units \in Nat BY <1>1, <1>2, <1>3
<1>5. QED BY <1>4 DEF units
--------------------------------------------------------------------------------
(* The invariant *)

\* SlobArena under the mapping of ImplementsArena, with its theorems.
AR == INSTANCE SlobArenaProofs WITH objects <- ArenaObjects, free <- ArenaFree,
                                    listed <- ArenaListed, thread <- ArenaThread

\* What a thread can be doing.
Doings == {Idle} \cup [step : {"grow"}, req : SlobRequests]
          \cup [step : {"install"}, req : SlobRequests, page : Pages]
          \cup [step : {"release"}, page : Pages]

\* Every thread does one of these.
ThreadsTyped == thread \in [Threads -> Doings]

\* The types, with the offsets that a page can hold.
Typed ==
  /\ page \in [Pages -> PageRecords]
  /\ slab \subseteq taken /\ taken \subseteq Pages
  /\ lists \in [ListNames -> Seq(Pages)]
  /\ live \subseteq Objects
  /\ waiting \subseteq [o : Objects, foot : Offsets]

\* The objects in pages that are cut into objects; the others are pages.
AsRequested ==
  \A o \in held :
    /\ o.cache \in Caches => o.size = CacheSize(o.cache) /\ (o.page \in slab <=> o.size < PAGE_SIZE)
    /\ o.page \notin slab => o.at = 0

\* Two objects are never in one place, and none is freed twice.
OnePerPlace ==
  \A o, u \in held : o.page = u.page /\ o.at = u.at => o = u

\* A call_rcu'd object has left its caller, and its rcu_head is in its footer.
WaitingOnce ==
  \A w \in waiting :
    /\ w.o \notin live /\ w.o.cache \in RcuCaches
    /\ w.foot = Footer(w.o.at, w.o.size)

\* No page is twice in a list.
Distinct(s) == \A i, j \in DOMAIN s : s[i] = s[j] => i = j

\* And none is in two lists.
ListsOnce ==
  /\ \A l \in ListNames : Distinct(lists[l])
  /\ \A l, m \in ListNames : l # m => ToSet(lists[l]) \cap ToSet(lists[m]) = {}

\* The free list of every page that no thread is about to use or return is exact.
PagesExact == \A p \in Settled : Exact(page[p])

\* The invariant: types, the invariant of SlobArena under the mapping, and what ties
\* the objects to the memory they are freed by.
SlobInv == /\ ThreadsTyped /\ Typed /\ AR!Inv
           /\ AsRequested /\ OnePerPlace /\ WaitingOnce /\ ListsOnce /\ PagesExact /\ SizesIntact
--------------------------------------------------------------------------------
(* Page lists as sequences *)

\* A page at the head of a list.
LEMMA Puts ==
  ASSUME NEW S, NEW a \in Seq(S), NEW b \in Seq(S)
  PROVE  /\ a \o b \in Seq(S) /\ Len(a \o b) = Len(a) + Len(b)
         /\ \A j \in 1 .. Len(a) + Len(b) : (a \o b)[j] = IF j <= Len(a) THEN a[j] ELSE b[j - Len(a)]
OBVIOUS

\* A sequence without what is at i.
LEMMA Without ==
  ASSUME NEW S, NEW s \in Seq(S), NEW i \in 1 .. Len(s)
  PROVE  /\ RemoveAt(s, i) \in Seq(S) /\ Len(RemoveAt(s, i)) = Len(s) - 1
         /\ \A j \in 1 .. Len(s) - 1 : RemoveAt(s, i)[j] = IF j < i THEN s[j] ELSE s[j + 1]
<1> DEFINE a == SubSeq(s, 1, i - 1)
           b == SubSeq(s, i + 1, Len(s))
<1>1. Len(s) \in Nat /\ i \in Nat /\ 1 <= i /\ i <= Len(s) OBVIOUS
<1>2. a \in Seq(S) /\ Len(a) = i - 1 /\ \A j \in 1 .. i - 1 : a[j] = s[j] BY <1>1
<1>3. b \in Seq(S) /\ Len(b) = Len(s) - i /\ \A j \in 1 .. Len(s) - i : b[j] = s[i + j] BY <1>1
<1>4. RemoveAt(s, i) = a \o b BY DEF RemoveAt
<1> HIDE DEF a, b
<1>5. a \o b \in Seq(S) /\ Len(a \o b) = Len(s) - 1
  <2>1. a \in Seq(S) /\ b \in Seq(S) BY <1>2, <1>3
  <2>2. a \o b \in Seq(S) /\ Len(a \o b) = Len(a) + Len(b) BY ONLY <2>1, Puts
  <2>3. Len(a) + Len(b) = Len(s) - 1 BY <1>1, <1>2, <1>3
  <2>4. QED BY <2>2, <2>3
<1>6. ASSUME NEW j \in 1 .. Len(s) - 1 PROVE (a \o b)[j] = IF j < i THEN s[j] ELSE s[j + 1]
  <2>1. CASE j < i BY <1>1, <1>2, <1>3, <2>1
  <2>2. CASE ~(j < i)
    <3>1. (a \o b)[j] = b[j - (i - 1)] BY <1>1, <1>2, <1>3, <2>2
    <3>2. b[j - (i - 1)] = s[i + (j - (i - 1))] BY <1>1, <1>3, <2>2
    <3>3. i + (j - (i - 1)) = j + 1 BY <1>1
    <3>4. QED BY <2>2, <3>1, <3>2, <3>3
  <2>3. QED BY <2>1, <2>2
<1>7. QED BY <1>4, <1>5, <1>6

\* list_del of the page at i.
LEMMA RemovesAt ==
  ASSUME NEW S, NEW s \in Seq(S), NEW i \in DOMAIN s, Distinct(s)
  PROVE  /\ RemoveAt(s, i) \in Seq(S) /\ Distinct(RemoveAt(s, i))
         /\ ToSet(RemoveAt(s, i)) = ToSet(s) \ {s[i]}
<1> DEFINE r == RemoveAt(s, i)
<1>1. i \in 1 .. Len(s) /\ DOMAIN s = 1 .. Len(s) /\ Len(s) \in Nat OBVIOUS
<1>2. /\ r \in Seq(S) /\ Len(r) = Len(s) - 1
      /\ \A j \in 1 .. Len(s) - 1 : r[j] = IF j < i THEN s[j] ELSE s[j + 1]
  BY <1>1, Without
<1> HIDE DEF r
<1>3. DOMAIN r = 1 .. Len(s) - 1 BY <1>2
<1>4. \A j, k \in 1 .. Len(s) : s[j] = s[k] => j = k BY <1>1 DEF Distinct
<1>5. ASSUME NEW j \in DOMAIN r, NEW k \in DOMAIN r, r[j] = r[k] PROVE j = k
  <2> DEFINE at(n) == IF n < i THEN n ELSE n + 1
  <2>1. j \in 1 .. Len(s) - 1 /\ k \in 1 .. Len(s) - 1 BY <1>3
  <2>2. r[j] = s[at(j)] /\ r[k] = s[at(k)] BY <1>2, <2>1
  <2>3. at(j) \in 1 .. Len(s) /\ at(k) \in 1 .. Len(s) BY <1>1, <2>1
  <2>4. at(j) = at(k) BY <1>4, <1>5, <2>2, <2>3
  <2>5. QED BY <1>1, <2>1, <2>4
<1>6. ASSUME NEW j \in DOMAIN r PROVE r[j] \in ToSet(s) \ {s[i]}
  <2> DEFINE n == IF j < i THEN j ELSE j + 1
  <2>1. j \in 1 .. Len(s) - 1 BY <1>3
  <2>2. r[j] = s[n] BY <1>2, <2>1
  <2>3. n \in 1 .. Len(s) /\ n # i BY <1>1, <2>1
  <2>4. QED BY <1>1, <1>4, <2>2, <2>3 DEF ToSet
<1>7. ASSUME NEW k \in DOMAIN s, s[k] # s[i] PROVE s[k] \in ToSet(r)
  <2>1. CASE k < i
    <3>1. k \in 1 .. Len(s) - 1 /\ r[k] = s[k] BY <1>1, <1>2, <2>1
    <3>2. QED BY <1>3, <3>1 DEF ToSet
  <2>2. CASE ~(k < i)
    <3>1. k - 1 \in 1 .. Len(s) - 1 /\ ~(k - 1 < i) /\ k - 1 + 1 = k BY <1>1, <1>7, <2>2
    <3>2. r[k - 1] = s[k] BY <1>2, <3>1
    <3>3. QED BY <1>3, <3>1, <3>2 DEF ToSet
  <2>3. QED BY <2>1, <2>2
<1>8. ToSet(r) = ToSet(s) \ {s[i]} BY <1>6, <1>7 DEF ToSet
<1>9. QED BY <1>2, <1>5, <1>8 DEF Distinct, r

\* list_del of page p.
LEMMA RemovesFirst ==
  ASSUME NEW S, NEW s \in Seq(S), NEW p, Distinct(s)
  PROVE  /\ RemoveFirst(s, p) \in Seq(S) /\ Distinct(RemoveFirst(s, p))
         /\ ToSet(RemoveFirst(s, p)) = ToSet(s) \ {p}
<1> DEFINE I == {i \in 1 .. Len(s) : s[i] = p}
<1>1. CASE I = {}
  <2>1. RemoveFirst(s, p) = s BY <1>1 DEF RemoveFirst
  <2>2. p \notin ToSet(s) BY <1>1 DEF ToSet
  <2>3. QED BY <2>1, <2>2
<1>2. CASE I # {}
  <2>1. RemoveFirst(s, p) = RemoveAt(s, Min(I)) BY <1>2 DEF RemoveFirst, SelectInSeq
  <2>2. I \in SUBSET Nat OBVIOUS
  <2> HIDE DEF I
  <2>3. Min(I) \in I BY <1>2, <2>2, MinOf
  <2>4. Min(I) \in DOMAIN s /\ s[Min(I)] = p BY <2>3 DEF I
  <2>5. QED BY <2>1, <2>4, RemovesAt
<1>3. QED BY <1>1, <1>2

\* The pages of a list that is turned are the same.
LEMMA Rotates ==
  ASSUME NEW S, NEW s \in Seq(S), NEW i \in Nat, Distinct(s)
  PROVE  Rotated(s, i) \in Seq(S) /\ Distinct(Rotated(s, i)) /\ ToSet(Rotated(s, i)) = ToSet(s)
<1> DEFINE r == Rotated(s, i)
           a == SubSeq(s, i, Len(s))
           b == SubSeq(s, 1, i - 1)
           n == Len(s)
<1>1. CASE ~(~BestFit /\ i \in 2 .. Len(s)) BY <1>1 DEF Rotated
<1>2. CASE ~BestFit /\ i \in 2 .. Len(s)
  <2>1. r = a \o b BY <1>2 DEF Rotated
  <2>2. n \in Nat /\ 2 <= i /\ i <= n /\ DOMAIN s = 1 .. n BY <1>2
  <2>3. a \in Seq(S) /\ Len(a) = n - i + 1 /\ \A j \in 1 .. n - i + 1 : a[j] = s[i + j - 1] BY <2>2
  <2>4. b \in Seq(S) /\ Len(b) = i - 1 /\ \A j \in 1 .. i - 1 : b[j] = s[j] BY <2>2
  <2> HIDE DEF a, b, r
  <2> HIDE DEF n
  <2>5. r \in Seq(S) /\ Len(r) = n
    <3>1. a \in Seq(S) /\ b \in Seq(S) BY <2>3, <2>4
    <3>2. a \o b \in Seq(S) /\ Len(a \o b) = Len(a) + Len(b) BY ONLY <3>1, Puts
    <3>3. Len(a) + Len(b) = n BY <2>2, <2>3, <2>4
    <3>4. QED BY <2>1, <3>2, <3>3
  <2> DEFINE at(j) == IF j <= n - i + 1 THEN i + j - 1 ELSE j - (n - i + 1)
  <2>6. ASSUME NEW j \in 1 .. n PROVE r[j] = s[at(j)]
    <3>1. CASE j <= n - i + 1
      <4>1. r[j] = a[j] BY <2>1, <2>2, <2>3, <2>4, <3>1
      <4>2. QED BY <2>2, <2>3, <3>1, <4>1
    <3>2. CASE ~(j <= n - i + 1)
      <4>1. r[j] = b[j - (n - i + 1)] BY <2>1, <2>2, <2>3, <2>4, <3>2
      <4>2. QED BY <2>2, <2>4, <3>2, <4>1
    <3>3. QED BY <3>1, <3>2
  <2>7. DOMAIN r = 1 .. n BY <2>5
  <2>8. \A j \in 1 .. n : at(j) \in 1 .. n BY <2>2
  <2>9. \A j, k \in 1 .. n : at(j) = at(k) => j = k BY <2>2
  <2>10. \A k \in 1 .. n : \E j \in 1 .. n : at(j) = k
    <3> SUFFICES ASSUME NEW k \in 1 .. n PROVE \E j \in 1 .. n : at(j) = k OBVIOUS
    <3>1. CASE k >= i
      <4>1. k - i + 1 \in 1 .. n /\ at(k - i + 1) = k BY <2>2, <3>1
      <4>2. QED BY <4>1
    <3>2. CASE ~(k >= i)
      <4>1. k + (n - i + 1) \in 1 .. n /\ at(k + (n - i + 1)) = k BY <2>2, <3>2
      <4>2. QED BY <4>1
    <3>3. QED BY <3>1, <3>2
  <2> HIDE DEF at
  <2>11. Distinct(r)
    <3> SUFFICES ASSUME NEW j \in 1 .. n, NEW k \in 1 .. n, r[j] = r[k] PROVE j = k
      BY <2>7 DEF Distinct
    <3>1. s[at(j)] = s[at(k)] BY <2>6
    <3>2. at(j) = at(k) BY <2>2, <2>8, <3>1 DEF Distinct
    <3>3. QED BY <2>9, <3>2
  <2>12. ToSet(r) = ToSet(s)
    <3>1. \A j \in 1 .. n : r[j] \in ToSet(s) BY <2>2, <2>6, <2>8 DEF ToSet
    <3>2. ASSUME NEW k \in 1 .. n PROVE s[k] \in ToSet(r)
      <4>1. PICK j \in 1 .. n : at(j) = k BY <2>10
      <4>2. r[j] = s[k] BY <2>6, <4>1
      <4>3. QED BY <2>7, <4>2 DEF ToSet
    <3>3. QED BY <2>2, <2>7, <3>1, <3>2 DEF ToSet
  <2>13. QED BY <2>5, <2>11, <2>12 DEF r
<1>3. QED BY <1>1, <1>2

\* The pages of a list that gets another one.
LEMMA Pushes ==
  ASSUME NEW S, NEW s \in Seq(S), NEW p \in S, Distinct(s), p \notin ToSet(s)
  PROVE  /\ <<p>> \o s \in Seq(S) /\ Distinct(<<p>> \o s) /\ ToSet(<<p>> \o s) = ToSet(s) \cup {p}
<1> DEFINE r == <<p>> \o s
<1>1. Len(s) \in Nat /\ DOMAIN s = 1 .. Len(s) OBVIOUS
<1>2. r \in Seq(S) /\ Len(r) = Len(s) + 1 /\ DOMAIN r = 1 .. Len(s) + 1 OBVIOUS
<1>3. r[1] = p /\ \A j \in 1 .. Len(s) : r[j + 1] = s[j] BY <1>1
<1> HIDE DEF r
<1>4. \A j \in DOMAIN r : j = 1 \/ (j - 1 \in 1 .. Len(s) /\ r[j] = s[j - 1])
  <2> SUFFICES ASSUME NEW j \in DOMAIN r, j # 1 PROVE j - 1 \in 1 .. Len(s) /\ r[j] = s[j - 1] OBVIOUS
  <2>1. j - 1 \in 1 .. Len(s) /\ j - 1 + 1 = j BY <1>1, <1>2
  <2>2. QED BY <1>3, <2>1
<1>5. \A j \in 1 .. Len(s) : s[j] # p BY <1>1 DEF ToSet
<1>6. Distinct(r)
  <2> SUFFICES ASSUME NEW j \in DOMAIN r, NEW k \in DOMAIN r, r[j] = r[k] PROVE j = k
    BY DEF Distinct
  <2>1. CASE j = 1 \/ k = 1 BY <1>3, <1>4, <1>5, <2>1
  <2>2. CASE j # 1 /\ k # 1
    <3>1. j - 1 \in 1 .. Len(s) /\ k - 1 \in 1 .. Len(s) /\ s[j - 1] = s[k - 1] BY <1>4, <2>2
    <3>2. j - 1 = k - 1 BY <1>1, <3>1 DEF Distinct
    <3>3. QED BY <1>2, <3>2
  <2>3. QED BY <2>1, <2>2
<1>7. ToSet(r) = ToSet(s) \cup {p}
  <2>1. \A j \in DOMAIN r : r[j] \in ToSet(s) \cup {p} BY <1>1, <1>3, <1>4 DEF ToSet
  <2>2. \A j \in 1 .. Len(s) : j + 1 \in DOMAIN r BY <1>1, <1>2
  <2>3. 1 \in DOMAIN r BY <1>1, <1>2
  <2>4. QED BY <1>1, <1>3, <2>1, <2>2, <2>3 DEF ToSet
<1>8. QED BY <1>2, <1>6, <1>7 DEF r
--------------------------------------------------------------------------------
(* Requests, footers and threads *)

\* The bytes of a page.
LEMMA PageIs ==
  /\ PAGE_SIZE \in Nat /\ PAGE_SIZE = PageUnits * SLOB_UNIT /\ PageUnits \in Nat \ {0}
  /\ \A n \in 0 .. PAGE_SIZE : n \in Shorts
<1>1. PAGE_SIZE \in Nat /\ PAGE_SIZE = PageUnits * SLOB_UNIT /\ PageUnits \in Nat \ {0} BY Sizes DEF PAGE_SIZE
<1>2. Shorts = - PageUnits .. PAGE_SIZE BY DEF Shorts, PAGE_SIZE
<1>3. QED BY <1>1, <1>2

\* What slob_alloc is asked for.
LEMMA Asked ==
  ASSUME NEW req \in SlobRequests
  PROVE  /\ req.size \in Nat \ {0} /\ req.size < PAGE_SIZE /\ req.align \in Nat /\ req.align <= PAGE_SIZE
         /\ \/ req.cache = kmalloc /\ req.size - KmallocAlign \in 0 .. PAGE_SIZE
            \/ req.cache \in Caches /\ req.size = CacheSize(req.cache)
         /\ req.align = IF req.cache = kmalloc THEN KmallocAlign ELSE CacheAlign[req.cache]
         /\ req = Request(req.size, req.align, req.cache)
<1>1. CASE req \in {Request(size + KmallocAlign, KmallocAlign, kmalloc) : size \in {s \in KmallocSizes : FitsInAPage(s)}}
  <2>1. PICK size \in KmallocSizes : FitsInAPage(size) /\ req = Request(size + KmallocAlign, KmallocAlign, kmalloc)
    BY <1>1
  <2>2. KmallocAlign \in Nat \ {0} /\ KmallocSizes \subseteq 1 .. PAGE_SIZE BY SlobSizes
  <2>3. size \in Nat \ {0} /\ size < PAGE_SIZE - KmallocAlign /\ size <= PAGE_SIZE /\ PAGE_SIZE \in Nat
    BY <2>1, <2>2, PageIs DEF FitsInAPage
  <2>4. req.size = size + KmallocAlign /\ req.align = KmallocAlign /\ req.cache = kmalloc
    BY <2>1 DEF Request
  <2>5. req.size - KmallocAlign = size BY <2>2, <2>3, <2>4
  <2>6. QED BY <2>1, <2>2, <2>3, <2>4, <2>5
<1>2. CASE req \in {Request(CacheSize(c), CacheAlign[c], c) : c \in {d \in Caches : CacheSize(d) < PAGE_SIZE}}
  <2>1. PICK c \in Caches : CacheSize(c) < PAGE_SIZE /\ req = Request(CacheSize(c), CacheAlign[c], c) BY <1>2
  <2>2. CacheSize(c) \in 1 .. PAGE_SIZE /\ CacheAlign[c] \in 0 .. PAGE_SIZE /\ c # kmalloc
    BY SlobSizes DEF kmalloc
  <2>3. PAGE_SIZE \in Nat BY PageIs
  <2>4. req.size = CacheSize(c) /\ req.align = CacheAlign[c] /\ req.cache = c BY <2>1 DEF Request
  <2>5. QED BY <2>1, <2>2, <2>3, <2>4
<1>3. QED BY <1>1, <1>2 DEF SlobRequests

\* The footer is inside the object.
LEMMA FooterInside ==
  ASSUME NEW c \in RcuCaches, NEW b \in Nat
  PROVE  LET size == CacheSize(c) IN
         /\ Footer(b, size) \in Run(b, SLOB_UNITS(size)) /\ Footer(b, size) \in Nat
         /\ Footer(b, size) - (size - RcuSize) \div SLOB_UNIT = b
<1> DEFINE size == CacheSize(c)
           room == size - RcuSize
           off == room \div SLOB_UNIT
           units == SLOB_UNITS(size)
<1>1. c \in Caches /\ ObjectSize[c] \in Nat /\ RcuSize \in Nat \ {0} /\ size = ObjectSize[c] + RcuSize
  BY SlobSizes DEF CacheSize
<1>2. size \in Nat \ {0} /\ room \in Nat /\ room < size BY <1>1
<1>3. units \in Nat /\ SLOB_UNIT \in Nat \ {0} BY <1>2, UnitsAre, Sizes
<1>4. size + SLOB_UNIT - 1 < units * SLOB_UNIT + SLOB_UNIT
  <2>1. size + SLOB_UNIT - 1 \in Nat BY <1>2, <1>3
  <2>2. QED BY <1>3, <2>1, Division DEF SLOB_UNITS
<1> HIDE DEF size, room, units
<1>5. off \in Nat /\ off * SLOB_UNIT <= room BY <1>2, <1>3, Division
<1> HIDE DEF off
<1>6. off < units
  <2> SUFFICES ASSUME units <= off PROVE FALSE BY <1>3, <1>5
  <2>1. units * SLOB_UNIT <= off * SLOB_UNIT BY <1>3, <1>5
  <2>2. units * SLOB_UNIT \in Nat /\ off * SLOB_UNIT \in Nat BY <1>3, <1>5
  <2>3. QED BY <1>2, <1>3, <1>4, <1>5, <2>1, <2>2
<1>7. Footer(b, size) = b + off BY DEF Footer, off, room
<1> DEFINE f == Footer(b, size)
<1> HIDE DEF f
<1>8. f = b + off BY <1>7 DEF f
<1>9. f \in Run(b, units) /\ f \in Nat /\ f - off = b BY <1>3, <1>5, <1>6, <1>8 DEF Run
<1>10. QED BY ONLY <1>9 DEF f, size, off, room, units

--------------------------------------------------------------------------------
\* What SlobArena sees of a thread.
Shown(d) == CASE d.step = "idle" -> Idle
              [] d.step = "grow" -> [step |-> "grow"]
              [] OTHER -> [step |-> d.step, page |-> d.page]

\* A thread is shown as what SlobArena has it do.
LEMMA ShownIs ==
  /\ Shown(Idle) = AR!Idle
  /\ \A req : Shown([step |-> "grow", req |-> req]) = AR!Growing
  /\ \A req, p : Shown([step |-> "install", req |-> req, page |-> p]) = AR!With("install", p)
  /\ \A p : Shown([step |-> "release", page |-> p]) = AR!With("release", p)
BY DEF Shown, Idle, AR!Idle, AR!Growing, AR!With

\* So it is with every thread.
LEMMA ThreadView ==
  ASSUME ThreadsTyped, NEW t \in Threads
  PROVE  /\ ArenaThread[t] = Shown(thread[t])
         /\ \/ thread[t] = Idle /\ thread[t].step = "idle" /\ ArenaThread[t] = AR!Idle
            \/ /\ thread[t].step = "grow" /\ ArenaThread[t] = AR!Growing
               /\ thread[t].req \in SlobRequests
            \/ /\ thread[t].step = "install" /\ thread[t].page \in Pages
               /\ ArenaThread[t] = AR!With("install", thread[t].page) /\ thread[t].req \in SlobRequests
            \/ /\ thread[t].step = "release" /\ thread[t].page \in Pages
               /\ ArenaThread[t] = AR!With("release", thread[t].page)
<1>1. ArenaThread[t] = Shown(thread[t]) BY DEF ArenaThread, Shown
<1>2. thread[t] \in Doings BY DEF ThreadsTyped
<1>3. CASE thread[t] = Idle
  <2>1. thread[t].step = "idle" BY <1>3 DEF Idle
  <2>2. QED BY <1>1, <1>3, <2>1, ShownIs
<1>4. CASE thread[t] \in [step : {"grow"}, req : SlobRequests]
  <2>1. thread[t] = [step |-> "grow", req |-> thread[t].req] /\ thread[t].req \in SlobRequests BY <1>4
  <2>2. thread[t].step = "grow" BY <1>4
  <2>3. QED BY <1>1, <2>1, <2>2, ShownIs
<1>5. CASE thread[t] \in [step : {"install"}, req : SlobRequests, page : Pages]
  <2>1. /\ thread[t] = [step |-> "install", req |-> thread[t].req, page |-> thread[t].page]
        /\ thread[t].req \in SlobRequests /\ thread[t].page \in Pages
    BY <1>5
  <2>2. thread[t].step = "install" BY <1>5
  <2>3. QED BY <1>1, <2>1, <2>2, ShownIs
<1>6. CASE thread[t] \in [step : {"release"}, page : Pages]
  <2>1. thread[t] = [step |-> "release", page |-> thread[t].page] /\ thread[t].page \in Pages BY <1>6
  <2>2. thread[t].step = "release" BY <1>6
  <2>3. QED BY <1>1, <2>1, <2>2, ShownIs
<1>7. QED BY <1>2, <1>3, <1>4, <1>5, <1>6 DEF Doings

\* A thread goes on to d.
LEMMA ThreadMoves ==
  ASSUME ThreadsTyped, NEW t \in Threads, NEW d \in Doings, thread' = [thread EXCEPT ![t] = d]
  PROVE  ThreadsTyped' /\ AR!Becomes(t, Shown(d))
<1>1. ThreadsTyped' BY DEF ThreadsTyped, Doings, SlobRequests, Request, FitsInAPage, Idle
<1>2. ArenaThread = [z \in Threads |-> Shown(thread[z])] BY DEF ArenaThread, Shown
<1>3. ArenaThread' = [z \in Threads |-> Shown(thread'[z])] BY DEF ArenaThread, Shown, Idle
<1>4. \A z \in Threads : thread'[z] = IF z = t THEN d ELSE thread[z] BY DEF ThreadsTyped
<1>5. ArenaThread' = [ArenaThread EXCEPT ![t] = Shown(d)] BY <1>2, <1>3, <1>4
<1>6. QED BY <1>1, <1>5 DEF AR!Becomes

\* SlobArena sees the same pages in flight.
LEMMA InFlightView == ASSUME ThreadsTyped PROVE InFlight = AR!InFlight /\ Settled = AR!Settled
<1>1. InFlight = {p \in Pages : \E t \in Threads : thread[t].step \in {"install", "release"} /\ thread[t].page = p}
  <2>1. \A t \in Threads : thread[t].step \in {"install", "release"} => thread[t].page \in Pages
    <3> SUFFICES ASSUME NEW t \in Threads, thread[t].step \in {"install", "release"} PROVE thread[t].page \in Pages
      OBVIOUS
    <3>1. thread[t].step \notin {"idle", "grow"} OBVIOUS
    <3>2. QED BY <3>1, ThreadView
  <2>2. QED BY <2>1 DEF InFlight
<1>2. AR!InFlight = {p \in Pages : \E t \in Threads : ArenaThread[t] \in {AR!With("install", p), AR!With("release", p)}}
  BY DEF AR!InFlight
<1>3. ASSUME NEW p \in Pages, NEW t \in Threads
      PROVE  thread[t].step \in {"install", "release"} /\ thread[t].page = p
               <=> ArenaThread[t] \in {AR!With("install", p), AR!With("release", p)}
  <2>1. CASE thread[t].step = "idle" \/ thread[t].step = "grow"
    <3>1. ArenaThread[t] \in {AR!Idle, AR!Growing} BY <2>1, ThreadView
    <3>2. ArenaThread[t].step \in {"idle", "grow"} BY <3>1 DEF AR!Idle, AR!Growing
    <3>3. AR!With("install", p).step = "install" /\ AR!With("release", p).step = "release" BY DEF AR!With
    <3>4. ArenaThread[t] \notin {AR!With("install", p), AR!With("release", p)} BY <3>2, <3>3
    <3>5. QED BY <2>1, <3>4
  <2>2. CASE thread[t].step = "install"
    <3>1. ArenaThread[t] = AR!With("install", thread[t].page) BY <2>2, ThreadView
    <3>2. QED BY <2>2, <3>1 DEF AR!With
  <2>3. CASE thread[t].step = "release"
    <3>1. ArenaThread[t] = AR!With("release", thread[t].page) BY <2>3, ThreadView
    <3>2. QED BY <2>3, <3>1 DEF AR!With
  <2>4. thread[t].step \in {"idle", "grow", "install", "release"} BY ThreadView
  <2>5. QED BY <2>1, <2>2, <2>3, <2>4
<1>4. InFlight = AR!InFlight BY <1>1, <1>2, <1>3
<1>5. QED BY <1>4 DEF Settled, AR!Settled
--------------------------------------------------------------------------------
(* Objects, and what SlobArena sees of them *)

\* The units of an object, and what SlobArena sees of it.
Units(o) == Run(o.at, SLOB_UNITS(o.size))
Image(o) == [page |-> o.page, at |-> o.at, units |-> SLOB_UNITS(o.size)]

\* The theorems about SlobArena apply.
LEMMA Cuts == AR!Cut
BY PageIs DEF AR!Cut

\* The objects of SlobArena are those that are held.
LEMMA Images == ArenaObjects = {Image(o) : o \in held}
BY DEF ArenaObjects, Image

\* Its units are those of the object.
LEMMA ImageIs ==
  ASSUME NEW o, o.at \in Nat, o.size \in Nat \ {0}, o.page \in Pages,
         o.at + SLOB_UNITS(o.size) <= PageUnits
  PROVE  /\ Image(o) \in AR!Objects /\ AR!UnitsOf(Image(o)) = Units(o)
         /\ Image(o).page = o.page /\ Image(o).at = o.at
<1>1. SLOB_UNITS(o.size) \in Nat \ {0} /\ PageUnits \in Nat BY UnitsAre, Sizes
<1>2. Image(o).page = o.page /\ Image(o).at = o.at /\ Image(o).units = SLOB_UNITS(o.size) BY DEF Image
<1>3. o.at \in AR!Offsets /\ SLOB_UNITS(o.size) \in 1 .. PageUnits BY <1>1 DEF AR!Offsets
<1>4. Image(o) \in [page : Pages, at : AR!Offsets, units : 1 .. PageUnits] BY <1>3 DEF Image
<1>5. Image(o) \in AR!Objects BY <1>2, <1>4 DEF AR!Objects
<1>6. QED BY <1>2, <1>5 DEF AR!UnitsOf, Units, Run

\* What is held has its place and its units in a page.
LEMMA HeldIs ==
  ASSUME SlobInv, NEW o \in held
  PROVE  /\ o \in Objects /\ o.page \in Pages /\ o.at \in Nat /\ o.size \in Nat \ {0} /\ o.size <= PAGE_SIZE
         /\ SLOB_UNITS(o.size) \in Nat \ {0} /\ o.at + SLOB_UNITS(o.size) <= PageUnits
         /\ Units(o) \subseteq Offsets /\ o.at \in Units(o)
         /\ Image(o) \in ArenaObjects /\ Image(o) \in AR!Objects
         /\ AR!UnitsOf(Image(o)) = Units(o) /\ Image(o).page = o.page /\ Image(o).at = o.at
         /\ o.page \in taken
<1>1. o \in Objects BY DEF SlobInv, Typed, held
<1>2. o.page \in Pages /\ o.at \in Nat /\ o.size \in Nat \ {0} /\ o.size <= PAGE_SIZE
  BY <1>1, PageIs DEF Objects, Offsets
<1>3. SLOB_UNITS(o.size) \in Nat \ {0} BY <1>2, UnitsAre
<1>4. Image(o) \in ArenaObjects BY Images
<1>5. Image(o) \in AR!Objects BY <1>4 DEF SlobInv, AR!Inv, AR!TypeOK
<1>6. Image(o).page = o.page /\ Image(o).at = o.at /\ Image(o).units = SLOB_UNITS(o.size) BY DEF Image
<1>7. o.at + SLOB_UNITS(o.size) <= PageUnits BY <1>5, <1>6 DEF AR!Objects
<1>8. Units(o) \subseteq Offsets /\ o.at \in Units(o)
  BY <1>2, <1>3, <1>7, Sizes DEF Units, Run, Offsets
<1>9. AR!UnitsOf(Image(o)) = Units(o) BY <1>6 DEF AR!UnitsOf, Units, Run
<1>10. o.page \in taken
  <2>1. taken = {x.page : x \in ArenaObjects} \cup AR!InFlight BY DEF SlobInv, AR!Inv, AR!NoPageLeaks
  <2>2. QED BY <1>4, <1>6, <2>1
<1>11. QED BY <1>1, <1>2, <1>3, <1>4, <1>5, <1>6, <1>7, <1>8, <1>9, <1>10

\* A page that an object is in is not in flight.
LEMMA HeldSettled ==
  ASSUME SlobInv, NEW o \in held
  PROVE  o.page \notin InFlight /\ (o.page \in slab => o.page \in Settled)
<1>1. InFlight = AR!InFlight BY InFlightView DEF SlobInv
<1>2. o.page \notin AR!InFlight
  <2>1. AR!FlightsApart BY DEF SlobInv, AR!Inv
  <2>2. Image(o) \in ArenaObjects /\ Image(o).page = o.page BY HeldIs
  <2>3. QED BY <2>1, <2>2 DEF AR!FlightsApart, AR!InFlight, AR!Has
<1>3. QED BY <1>1, <1>2 DEF Settled

\* Objects do not overlap.
LEMMA HeldApart ==
  ASSUME SlobInv, NEW o \in held, NEW u \in held, o # u, o.page = u.page
  PROVE  o.page \in slab /\ Units(o) \cap Units(u) = {} /\ o.at \notin Units(u)
<1>1. o.at # u.at BY DEF SlobInv, OnePerPlace
<1>2. /\ Image(o) \in ArenaObjects /\ Image(u) \in ArenaObjects
      /\ AR!UnitsOf(Image(o)) = Units(o) /\ AR!UnitsOf(Image(u)) = Units(u)
      /\ Image(o).page = o.page /\ Image(u).page = u.page /\ Image(o).at = o.at /\ Image(u).at = u.at
      /\ o.at \in Units(o)
  BY HeldIs
<1>3. Image(o) # Image(u) BY <1>1, <1>2
<1>4. Units(o) \cap Units(u) = {} BY <1>2, <1>3 DEF SlobInv, AR!Inv, AR!NeverShared
<1>5. o.page \in slab BY <1>2, <1>3 DEF SlobInv, AR!Inv, AR!WholeAlone
<1>6. QED BY <1>2, <1>4, <1>5

\* Two names for the units that the walk visits.
LEMMA FreeUnitsAre == ASSUME NEW pg PROVE FreeUnitsIn(pg) = FreeUnitsOf(pg)
BY DEF FreeUnitsIn, FreeUnitsOf, Covered, Size

\* SlobArena sees the free list of a settled page.
LEMMA FreeIs == ASSUME NEW p \in Pages, p \in Settled PROVE ArenaFree[p] = FreeUnitsOf(page[p])
BY FreeUnitsAre DEF ArenaFree

\* What the invariant says of a settled page.
LEMMA SettledView ==
  ASSUME SlobInv, NEW p \in Settled
  PROVE  /\ p \in Pages /\ p \in slab /\ p \in taken /\ p \in AR!Settled
         /\ Exact(page[p]) /\ page[p] \in PageRecords
         /\ ArenaFree[p] = FreeUnitsOf(page[p])
         /\ FreeUnitsOf(page[p]) \subseteq Offsets /\ FreeUnitsOf(page[p]) # Offsets
         /\ \A n \in Offsets : n \in FreeUnitsOf(page[p]) <=> ~ \E o \in held : o.page = p /\ n \in Units(o)
         /\ p \in ArenaListed <=> FreeUnitsOf(page[p]) # {}
<1>1. p \in Pages /\ p \in slab /\ p \in taken BY DEF SlobInv, Typed, Settled
<1>2. p \in AR!Settled BY InFlightView DEF SlobInv
<1>3. Exact(page[p]) /\ page[p] \in PageRecords BY DEF SlobInv, PagesExact, Exact
<1>4. ArenaFree[p] = FreeUnitsOf(page[p]) BY <1>1, FreeIs
<1>5. FreeUnitsOf(page[p]) \subseteq Offsets BY <1>3, CoveredFacts DEF Exact, FreeUnitsOf
<1>6. FreeUnitsOf(page[p]) # Offsets
  <2>1. ArenaFree[p] # AR!Offsets BY <1>2 DEF SlobInv, AR!Inv, AR!ListedIffPartlyFree
  <2>2. QED BY <1>4, <2>1 DEF AR!Offsets, Offsets
<1>7. ASSUME NEW n \in Offsets
      PROVE  n \in FreeUnitsOf(page[p]) <=> ~ \E o \in held : o.page = p /\ n \in Units(o)
  <2>1. n \in AR!Offsets BY DEF AR!Offsets, Offsets
  <2>2. n \in ArenaFree[p] <=> ~ \E x \in ArenaObjects : x.page = p /\ n \in AR!UnitsOf(x)
    BY <1>2, <2>1 DEF SlobInv, AR!Inv, AR!FreeIsTheRest
  <2>3. (\E x \in ArenaObjects : x.page = p /\ n \in AR!UnitsOf(x)) <=> \E o \in held : o.page = p /\ n \in Units(o)
    <3>1. \A o \in held : Image(o) \in ArenaObjects /\ Image(o).page = o.page /\ AR!UnitsOf(Image(o)) = Units(o)
      BY HeldIs
    <3>2. \A x \in ArenaObjects : \E o \in held : x = Image(o) BY Images
    <3>3. QED BY <3>1, <3>2
  <2>4. QED BY <1>4, <2>2, <2>3
<1>8. p \in ArenaListed <=> FreeUnitsOf(page[p]) # {}
  BY <1>2, <1>4 DEF SlobInv, AR!Inv, AR!ListedIffPartlyFree
<1>9. QED BY <1>1, <1>2, <1>3, <1>4, <1>5, <1>6, <1>7, <1>8

\* A page is on a list that has it at a position.
LEMMA ListedView ==
  ASSUME SlobInv, NEW l \in ListNames
  PROVE  /\ lists[l] \in Seq(Pages) /\ Distinct(lists[l])
         /\ \A p \in ToSet(lists[l]) : p \in ArenaListed
         /\ \A i \in DOMAIN lists[l] : lists[l][i] \in ToSet(lists[l])
         /\ \A p \in ArenaListed : p \in Settled
<1>1. lists[l] \in Seq(Pages) /\ Distinct(lists[l]) BY DEF SlobInv, Typed, ListsOnce
<1>2. \A p \in ToSet(lists[l]) : p \in ArenaListed BY DEF ArenaListed
<1>3. \A i \in DOMAIN lists[l] : lists[l][i] \in ToSet(lists[l]) BY DEF ToSet
<1>4. \A p \in ArenaListed : p \in Settled
  BY InFlightView DEF SlobInv, AR!Inv, AR!ListedIffPartlyFree
<1>5. QED BY <1>1, <1>2, <1>3, <1>4

\* PG_slob_free is set of the pages on a list.
LEMMA ListedIs == \A p : p \in ArenaListed <=> slob_page_free(p)
BY DEF ArenaListed, slob_page_free

--------------------------------------------------------------------------------
\* The count of a page tells whether it is full, or would be empty.
LEMMA CountTells ==
  ASSUME NEW pg, Exact(pg)
  PROVE  /\ pg.units = 0 <=> FreeUnitsOf(pg) = {}
         /\ pg.units = PageUnits <=> FreeUnitsOf(pg) = Offsets
         /\ pg.units \in 0 .. PageUnits
<1>1. /\ IsFiniteSet(FreeUnitsOf(pg)) /\ FreeUnitsOf(pg) \subseteq Offsets
      /\ pg.units = Cardinality(FreeUnitsOf(pg)) /\ pg.units \in 0 .. PageUnits
  BY CoveredFacts DEF Exact, FreeUnitsOf
<1>2. pg.units = 0 <=> FreeUnitsOf(pg) = {} BY <1>1, FS_EmptySet
<1>3. IsFiniteSet(Offsets) /\ Cardinality(Offsets) = PageUnits
  <2>1. Offsets = Run(0, PageUnits) BY Sizes DEF Offsets, Run
  <2>2. QED BY <2>1, RunCounts, Sizes
<1>4. pg.units = PageUnits => FreeUnitsOf(pg) = Offsets BY <1>1, <1>3, FS_Subset
<1>5. FreeUnitsOf(pg) = Offsets => pg.units = PageUnits BY <1>1, <1>3
<1>6. QED BY <1>1, <1>2, <1>4, <1>5

\* And whether an object is its last.
LEMMA CountTellsLast ==
  ASSUME NEW pg, Exact(pg), NEW b \in Nat, NEW units \in Nat \ {0},
         Run(b, units) \subseteq Offsets, Run(b, units) \cap FreeUnitsOf(pg) = {}
  PROVE  pg.units + units = PageUnits <=> FreeUnitsOf(pg) \cup Run(b, units) = Offsets
<1>1. /\ IsFiniteSet(FreeUnitsOf(pg)) /\ FreeUnitsOf(pg) \subseteq Offsets
      /\ pg.units = Cardinality(FreeUnitsOf(pg)) /\ pg.units \in 0 .. PageUnits
  BY CoveredFacts DEF Exact, FreeUnitsOf
<1>2. IsFiniteSet(Run(b, units)) /\ Cardinality(Run(b, units)) = units BY RunCounts
<1> DEFINE all == FreeUnitsOf(pg) \cup Run(b, units)
<1>3. IsFiniteSet(all) /\ Cardinality(all) = pg.units + units - Cardinality({})
  BY <1>1, <1>2, FS_Union
<1>4. Cardinality(all) = pg.units + units BY <1>1, <1>3, FS_EmptySet
<1>5. IsFiniteSet(Offsets) /\ Cardinality(Offsets) = PageUnits
  <2>1. Offsets = Run(0, PageUnits) BY Sizes DEF Offsets, Run
  <2>2. QED BY <2>1, RunCounts, Sizes
<1>6. all \subseteq Offsets BY <1>1
<1> HIDE DEF all
<1>7. pg.units + units = PageUnits => all = Offsets BY <1>4, <1>5, <1>6, FS_Subset
<1>8. all = Offsets => pg.units + units = PageUnits BY <1>4, <1>5
<1>9. QED BY <1>7, <1>8 DEF all

\* A run of free units has been taken out of a page.
TakesOut(pg, a, units) ==
  /\ a.block \in Nat /\ Run(a.block, units) \subseteq FreeUnitsOf(pg)
  /\ Exact(a.page)
  /\ FreeUnitsOf(a.page) = FreeUnitsOf(pg) \ Run(a.block, units)
  /\ a.page.units = pg.units - units
  /\ \A o \in Offsets \ FreeUnitsOf(pg) : a.page.mem[o] = pg.mem[o]

\* slob_page_alloc does that, when it has room.
LEMMA TakesOutOf ==
  ASSUME NEW pg, Exact(pg), NEW size \in Nat \ {0}, NEW align \in Nat,
         slob_page_alloc(pg, size, align).block # NULL
  PROVE  TakesOut(pg, slob_page_alloc(pg, size, align), SLOB_UNITS(size))
BY Allocates DEF TakesOut

\* A page out of which an object has been handed.
LEMMA HandsOut ==
  ASSUME NEW pg, Exact(pg), NEW req \in SlobRequests,
         slob_page_alloc(pg, req.size, req.align).block # NULL
  PROVE  LET a     == slob_page_alloc(pg, req.size, req.align)
             units == SLOB_UNITS(req.size)
             after == Handed(a.page, a.block, req)
         IN  /\ a.block \in Nat /\ units \in Nat \ {0} /\ a.block + units <= PageUnits
             /\ Run(a.block, units) \subseteq FreeUnitsOf(pg)
             /\ Exact(after) /\ FreeUnitsOf(after) = FreeUnitsOf(pg) \ Run(a.block, units)
             /\ a.page.units = 0 <=> FreeUnitsOf(after) = {}
             /\ \A o \in Offsets \ FreeUnitsOf(pg) : after.mem[o] = pg.mem[o]
             /\ req.cache = kmalloc => after.mem[a.block] = req.size - KmallocAlign
<1> DEFINE a     == slob_page_alloc(pg, req.size, req.align)
           b     == a.block
           units == SLOB_UNITS(req.size)
           after == Handed(a.page, b, req)
           run   == Run(b, units)
<1>1. /\ req.size \in Nat \ {0} /\ req.align \in Nat /\ (req.size - KmallocAlign \in 0 .. PAGE_SIZE \/ req.cache # kmalloc)
  BY Asked, SlobSizes DEF kmalloc
<1>2. req.size \in Nat \ {0} /\ req.align \in Nat BY Asked
<1>3. /\ b \in Nat /\ run \subseteq FreeUnitsOf(pg) /\ Exact(a.page)
      /\ FreeUnitsOf(a.page) = FreeUnitsOf(pg) \ run
      /\ a.page.units = pg.units - units
      /\ \A o \in Offsets \ FreeUnitsOf(pg) : a.page.mem[o] = pg.mem[o]
  <2>1. TakesOut(pg, a, units) BY <1>2, TakesOutOf
  <2> HIDE DEF a, units
  <2>2. QED BY <2>1 DEF TakesOut
<1>4. units \in Nat \ {0} BY <1>2, UnitsAre
<1> HIDE DEF a, b, units
<1>5. FreeUnitsOf(pg) \subseteq Offsets BY CoveredFacts DEF Exact, FreeUnitsOf
<1>6. b + units <= PageUnits /\ b \in Offsets /\ b \in run
  <2>1. b \in run /\ b + units - 1 \in run BY <1>3, <1>4 DEF Run
  <2>2. b + units - 1 \in Offsets /\ b \in Offsets BY <1>3, <1>5, <2>1
  <2>3. QED BY <1>3, <1>4, <2>1, <2>2, Sizes DEF Offsets
<1>7. run = b .. b + units - 1 BY DEF Run
<1> DEFINE filled == [o \in Offsets |-> IF o \in run THEN Junk ELSE a.page.mem[o]]
           mem == IF req.cache = kmalloc THEN [filled EXCEPT ![b] = req.size - KmallocAlign] ELSE filled
<1>8. after = [a.page EXCEPT !.mem = mem] BY <1>7 DEF Handed, units, b
<1>9. a.page.mem \in Memories BY <1>3 DEF Exact, PageRecords
<1>10. filled \in Memories
  <2>1. Junk \in Shorts BY Sizes, ShortsAre DEF Junk
  <2>2. QED BY <1>9, <2>1 DEF Memories
<1>11. /\ mem \in Memories /\ (req.cache = kmalloc => mem[b] = req.size - KmallocAlign)
       /\ \A o \in Offsets \ run : mem[o] = a.page.mem[o]
  <2>1. CASE req.cache = kmalloc
    <3>1. req.size - KmallocAlign \in Shorts BY <1>1, <2>1, PageIs
    <3>2. mem = [filled EXCEPT ![b] = req.size - KmallocAlign] BY <2>1
    <3>3. \A o \in Offsets \ run : filled[o] = a.page.mem[o] OBVIOUS
    <3> HIDE DEF filled, mem
    <3>4. QED BY <1>6, <1>10, <3>1, <3>2, <3>3 DEF Memories
  <2>2. CASE req.cache # kmalloc
    <3>1. mem = filled BY <2>2
    <3>2. \A o \in Offsets \ run : filled[o] = a.page.mem[o] OBVIOUS
    <3>3. QED BY <1>10, <2>2, <3>1, <3>2
  <2>3. QED BY <2>1, <2>2
<1> HIDE DEF mem, after, filled
<1>12. \A o \in FreeUnitsOf(a.page) : mem[o] = a.page.mem[o]
  BY <1>3, <1>5, <1>11
<1>13. /\ Exact(after) /\ FreeUnitsOf(after) = FreeUnitsOf(a.page) /\ after.units = a.page.units
       /\ after.mem = mem
  BY <1>3, <1>8, <1>11, <1>12, HandedOut
<1>14. a.page.units = 0 <=> FreeUnitsOf(after) = {} BY <1>13, CountTells
<1>15. \A o \in Offsets \ FreeUnitsOf(pg) : after.mem[o] = pg.mem[o]
  BY <1>3, <1>11, <1>13
<1>16. QED BY <1>3, <1>4, <1>6, <1>11, <1>13, <1>14, <1>15 DEF after, a, b, units

\* The caller has filled the object, and kmalloc has written its size.
HandedOver(pg, a, req) ==
  LET units == SLOB_UNITS(req.size)
      after == Handed(a.page, a.block, req)
  IN  /\ a.block \in Nat /\ units \in Nat \ {0} /\ a.block + units <= PageUnits
      /\ Run(a.block, units) \subseteq FreeUnitsOf(pg)
      /\ Exact(after) /\ FreeUnitsOf(after) = FreeUnitsOf(pg) \ Run(a.block, units)
      /\ a.page.units = 0 <=> FreeUnitsOf(after) = {}
      /\ \A o \in Offsets \ FreeUnitsOf(pg) : after.mem[o] = pg.mem[o]
      /\ req.cache = kmalloc => after.mem[a.block] = req.size - KmallocAlign

\* So it is when slob_page_alloc has room.
LEMMA HandsOutOf ==
  ASSUME NEW pg, Exact(pg), NEW req \in SlobRequests,
         slob_page_alloc(pg, req.size, req.align).block # NULL
  PROVE  HandedOver(pg, slob_page_alloc(pg, req.size, req.align), req)
BY HandsOut DEF HandedOver
--------------------------------------------------------------------------------
(* What a step does to threads and objects *)

\* What InFlightView says, as a formula, and so of the next state too.
InFlightSeen == ThreadsTyped => InFlight = AR!InFlight /\ Settled = AR!Settled

\* So it is.
LEMMA InFlightAfter == InFlightSeen'
<1>1. InFlightSeen BY InFlightView DEF InFlightSeen
<1>2. []InFlightSeen BY <1>1, PTL
<1>3. QED BY <1>2, PTL

\* Threads, and the pages that they have in flight.
LEMMA Stands ==
  ASSUME ThreadsTyped, thread' = thread
  PROVE  ThreadsTyped' /\ ArenaThread' = ArenaThread /\ InFlight' = InFlight
<1>1. ThreadsTyped' BY DEF ThreadsTyped, Doings, SlobRequests, Request, FitsInAPage, Idle
<1>2. ArenaThread' = ArenaThread BY DEF ArenaThread, Idle
<1>3. InFlight' = InFlight BY DEF InFlight
<1>4. QED BY <1>1, <1>2, <1>3

\* A thread goes on without a page.
LEMMA StandsWithout ==
  ASSUME ThreadsTyped, AR!TypeOK, NEW t \in Threads, thread[t].step \in {"idle", "grow"},
         NEW d \in Doings, d.step \in {"idle", "grow"}, thread' = [thread EXCEPT ![t] = d]
  PROVE  ThreadsTyped' /\ AR!Becomes(t, Shown(d)) /\ InFlight' = InFlight
<1>1. ThreadsTyped' /\ AR!Becomes(t, Shown(d)) BY ThreadMoves
<1>2. ArenaThread[t] \in {AR!Idle, AR!Growing} BY ThreadView
<1>3. Shown(d) \in {AR!Idle, AR!Growing} BY DEF Shown, Idle, AR!Idle, AR!Growing
<1>4. AR!InFlight' = AR!InFlight BY <1>1, <1>2, <1>3, AR!StillNone
<1>5. InFlight = AR!InFlight BY InFlightView
<1>6. InFlight' = AR!InFlight' BY <1>1, InFlightAfter DEF InFlightSeen
<1>7. QED BY <1>1, <1>4, <1>5, <1>6

\* It has page p in flight from now on.
LEMMA TakesUp ==
  ASSUME ThreadsTyped, AR!TypeOK, NEW t \in Threads, thread[t].step \in {"idle", "grow"},
         NEW d \in Doings, NEW s \in {"install", "release"}, NEW p \in Pages,
         Shown(d) = AR!With(s, p), thread' = [thread EXCEPT ![t] = d]
  PROVE  ThreadsTyped' /\ AR!Becomes(t, AR!With(s, p)) /\ InFlight' = InFlight \cup {p}
<1>1. ThreadsTyped' /\ AR!Becomes(t, AR!With(s, p)) BY ThreadMoves
<1>2. ArenaThread[t] \in {AR!Idle, AR!Growing} BY ThreadView
<1>4. AR!InFlight' = AR!InFlight \cup {p} BY <1>1, <1>2, AR!TakesOff
<1>5. InFlight = AR!InFlight BY InFlightView
<1>6. InFlight' = AR!InFlight' BY <1>1, InFlightAfter DEF InFlightSeen
<1>7. QED BY <1>1, <1>4, <1>5, <1>6

\* No thread has a page when it is idle.
LEMMA IdleIs == Idle \in Doings /\ Idle.step = "idle" /\ Shown(Idle) = AR!Idle
BY ShownIs DEF Idle, Doings

\* It had one, and has none now.
LEMMA PutsDown ==
  ASSUME ThreadsTyped, AR!TypeOK, AR!FlightsApart, NEW t \in Threads,
         thread[t].step \in {"install", "release"}, thread' = [thread EXCEPT ![t] = Idle]
  PROVE  LET p == thread[t].page IN
         /\ p \in Pages /\ p \in InFlight /\ AR!Has(t, p)
         /\ ThreadsTyped' /\ AR!Becomes(t, AR!Idle) /\ InFlight' = InFlight \ {p}
<1> DEFINE p == thread[t].page
<1>1. ThreadsTyped' /\ AR!Becomes(t, AR!Idle) BY ThreadMoves, IdleIs
<1>2. p \in Pages /\ ArenaThread[t] \in {AR!With("install", p), AR!With("release", p)} BY ThreadView
<1>3. AR!Has(t, p) BY <1>2 DEF AR!Has
<1> HIDE DEF p
<1>4. AR!InFlight' = AR!InFlight \ {p} BY <1>1, <1>2, <1>3, AR!Lands
<1>5. InFlight = AR!InFlight BY InFlightView
<1>6. InFlight' = AR!InFlight' BY <1>1, InFlightAfter DEF InFlightSeen
<1>7. p \in AR!InFlight BY <1>2, <1>3, AR!Flight
<1>8. QED BY <1>1, <1>2, <1>3, <1>4, <1>5, <1>6, <1>7 DEF p
--------------------------------------------------------------------------------
\* Objects.
Kept == \A u \in held, n \in Offsets :
          u \in held' /\ n \in Units(u) => page'[u.page].mem[n] = page[u.page].mem[n]
\* And so does the flag of their pages.
SlabKept == \A u \in held : u \in held' => (u.page \in slab' <=> u.page \in slab)

\* An object is what its cache makes, and is in a page of objects if that is enough.
Asks(o) ==
  /\ o.cache \in Caches => o.size = CacheSize(o.cache) /\ (o.page \in slab <=> o.size < PAGE_SIZE)
  /\ o.page \notin slab => o.at = 0

\* The marks by which objects are freed are in the objects.
LEMMA FootIs ==
  ASSUME SlobInv, NEW w \in waiting
  PROVE  /\ w.o \in held /\ w.o \in Objects /\ w.foot \in Offsets /\ w.foot \in Units(w.o)
         /\ w.foot = Footer(w.o.at, w.o.size) /\ w.o.size = CacheSize(w.o.cache)
         /\ w.o.cache \in RcuCaches /\ w.o.cache \in Caches /\ w = [o |-> w.o, foot |-> w.foot]
         /\ w.foot - (w.o.size - RcuSize) \div SLOB_UNIT = w.o.at
<1>1. w \in [o : Objects, foot : Offsets] BY DEF SlobInv, Typed
<1>2. w.o \in held BY DEF held
<1>3. w.o.cache \in RcuCaches /\ w.foot = Footer(w.o.at, w.o.size) BY DEF SlobInv, WaitingOnce
<1>4. w.o.cache \in Caches BY <1>3, SlobSizes
<1>5. w.o.size = CacheSize(w.o.cache) BY <1>2, <1>4 DEF SlobInv, AsRequested
<1>6. w.o.at \in Nat BY <1>2, HeldIs
<1> DEFINE c == w.o.cache
           b == w.o.at
<1>7. c \in RcuCaches /\ b \in Nat BY <1>3, <1>6
<1> HIDE DEF c, b
<1>8. /\ Footer(b, CacheSize(c)) \in Run(b, SLOB_UNITS(CacheSize(c)))
      /\ Footer(b, CacheSize(c)) - (CacheSize(c) - RcuSize) \div SLOB_UNIT = b
  BY <1>7, FooterInside
<1>9. QED BY <1>1, <1>2, <1>3, <1>4, <1>5, <1>8 DEF c, b, Units

\* Objects go, or stay: what is said of them holds afterwards.
LEMMA ObjectsLess ==
  ASSUME SlobInv, live' \subseteq live, waiting' \subseteq waiting, Kept, SlabKept
  PROVE  /\ held' \subseteq held
         /\ AsRequested' /\ OnePerPlace' /\ WaitingOnce' /\ SizesIntact'
         /\ live' \subseteq Objects /\ waiting' \subseteq [o : Objects, foot : Offsets]
<1>1. held' \subseteq held BY DEF held
<1>2. AsRequested'
  <2> SUFFICES ASSUME NEW o \in held' PROVE Asks(o)' BY DEF AsRequested, Asks
  <2>1. o \in held /\ Asks(o) BY <1>1 DEF SlobInv, AsRequested, Asks
  <2>2. o.page \in slab' <=> o.page \in slab BY <2>1 DEF SlabKept
  <2>3. QED BY <2>1, <2>2 DEF Asks, CacheSize, PAGE_SIZE
<1>3. OnePerPlace' BY <1>1 DEF SlobInv, OnePerPlace
<1>4. WaitingOnce' BY DEF SlobInv, WaitingOnce, Footer
<1>5. ASSUME NEW o \in live', o.cache = kmalloc, o.page \in slab'
      PROVE  page'[o.page].mem[o.at] = o.size - KmallocAlign
  <2>1. o \in live /\ o \in held /\ o \in held' BY DEF held
  <2>2. o.page \in slab BY <1>5, <2>1 DEF SlabKept
  <2>3. o.at \in Units(o) /\ o.at \in Offsets BY <2>1, HeldIs
  <2>4. page'[o.page].mem[o.at] = page[o.page].mem[o.at] BY <2>1, <2>3 DEF Kept
  <2>5. page[o.page].mem[o.at] = o.size - KmallocAlign BY <1>5, <2>1, <2>2 DEF SlobInv, SizesIntact
  <2>6. QED BY <2>4, <2>5
<1>6. ASSUME NEW w \in waiting' PROVE page'[w.o.page].mem[w.foot] = w.o.size
  <2>1. w \in waiting /\ w.o \in held /\ w.o \in held' BY DEF held
  <2>2. w.foot \in Units(w.o) /\ w.foot \in Offsets BY <2>1, FootIs
  <2>3. page'[w.o.page].mem[w.foot] = page[w.o.page].mem[w.foot] BY <2>1, <2>2 DEF Kept
  <2>4. page[w.o.page].mem[w.foot] = w.o.size BY <2>1 DEF SlobInv, SizesIntact
  <2>5. QED BY <2>3, <2>4
<1>7. SizesIntact' BY <1>5, <1>6 DEF SizesIntact, kmalloc
<1>8. live' \subseteq Objects /\ waiting' \subseteq [o : Objects, foot : Offsets] BY DEF SlobInv, Typed
<1>9. QED BY <1>1, <1>2, <1>3, <1>4, <1>7, <1>8

\* One more: what is said of them holds afterwards.
LEMMA ObjectsMore ==
  ASSUME SlobInv, NEW o \in Objects, live' = live \cup {o}, waiting' = waiting, Kept, SlabKept,
         Asks(o)', \A u \in held : u.page # o.page \/ u.at # o.at,
         o.cache = kmalloc /\ o.page \in slab' => page'[o.page].mem[o.at] = o.size - KmallocAlign
  PROVE  /\ held' = held \cup {o}
         /\ AsRequested' /\ OnePerPlace' /\ WaitingOnce' /\ SizesIntact'
         /\ live' \subseteq Objects /\ waiting' \subseteq [o : Objects, foot : Offsets]
<1>1. held' = held \cup {o} BY DEF held
<1>2. AsRequested'
  <2> SUFFICES ASSUME NEW u \in held' PROVE Asks(u)' BY DEF AsRequested, Asks
  <2>1. CASE u = o BY <2>1
  <2>2. CASE u # o
    <3>1. u \in held /\ Asks(u) BY <1>1, <2>2 DEF SlobInv, AsRequested, Asks
    <3>2. u.page \in slab' <=> u.page \in slab BY <3>1 DEF SlabKept
    <3>3. QED BY <3>1, <3>2 DEF Asks, CacheSize, PAGE_SIZE
  <2>3. QED BY <2>1, <2>2
<1>3. OnePerPlace' BY <1>1 DEF SlobInv, OnePerPlace
<1>4. \A w \in waiting : w.o \in held BY DEF held
<1>5. WaitingOnce' BY <1>4 DEF SlobInv, WaitingOnce, Footer
<1>6. ASSUME NEW u \in live', u.cache = kmalloc, u.page \in slab'
      PROVE  page'[u.page].mem[u.at] = u.size - KmallocAlign
  <2>1. CASE u = o BY <1>6, <2>1
  <2>2. CASE u # o
    <3>1. u \in live /\ u \in held /\ u \in held' BY <2>2 DEF held
    <3>2. u.page \in slab BY <1>6, <3>1 DEF SlabKept
    <3>3. u.at \in Units(u) /\ u.at \in Offsets BY <3>1, HeldIs
    <3>4. page'[u.page].mem[u.at] = page[u.page].mem[u.at] BY <3>1, <3>3 DEF Kept
    <3>5. page[u.page].mem[u.at] = u.size - KmallocAlign BY <1>6, <3>1, <3>2 DEF SlobInv, SizesIntact
    <3>6. QED BY <3>4, <3>5
  <2>3. QED BY <2>1, <2>2
<1>7. ASSUME NEW w \in waiting' PROVE page'[w.o.page].mem[w.foot] = w.o.size
  <2>1. w \in waiting /\ w.o \in held /\ w.o \in held' BY DEF held
  <2>2. w.foot \in Units(w.o) /\ w.foot \in Offsets BY <2>1, FootIs
  <2>3. page'[w.o.page].mem[w.foot] = page[w.o.page].mem[w.foot] BY <2>1, <2>2 DEF Kept
  <2>4. page[w.o.page].mem[w.foot] = w.o.size BY <2>1 DEF SlobInv, SizesIntact
  <2>5. QED BY <2>3, <2>4
<1>8. SizesIntact' BY <1>6, <1>7 DEF SizesIntact, kmalloc
<1>9. live' \subseteq Objects /\ waiting' \subseteq [o : Objects, foot : Offsets] BY DEF SlobInv, Typed
<1>10. QED BY <1>1, <1>2, <1>3, <1>5, <1>8, <1>9
--------------------------------------------------------------------------------
(* What a step does to objects, pages and lists, as SlobArena sees it *)

\* What SlobArena sees of the objects.
LEMMA ImagesKept == ASSUME held' = held PROVE ArenaObjects' = ArenaObjects
BY DEF ArenaObjects, SLOB_UNITS

\* One more.
LEMMA ImagesMore == ASSUME NEW o, held' = held \cup {o} PROVE ArenaObjects' = ArenaObjects \cup {Image(o)}
<1>1. ArenaObjects' = {Image(u) : u \in held'} BY DEF ArenaObjects, Image, SLOB_UNITS
<1>2. QED BY <1>1, Images

\* One less.
LEMMA ImagesLess ==
  ASSUME SlobInv, NEW o \in held, held' = held \ {o}
  PROVE  ArenaObjects' = ArenaObjects \ {Image(o)}
<1>1. ArenaObjects' = {Image(u) : u \in held'} BY DEF ArenaObjects, Image, SLOB_UNITS
<1>2. \A u \in held : Image(u) = Image(o) => u = o BY DEF Image, SlobInv, OnePerPlace
<1>3. QED BY <1>1, <1>2, Images

--------------------------------------------------------------------------------
\* The free units that SlobArena sees are those of the settled pages.
LEMMA ArenaFreeIs == ArenaFree = [p \in Pages |-> IF p \in Settled THEN FreeUnitsOf(page[p]) ELSE {}]
<1>1. ASSUME NEW p \in Pages PROVE ArenaFree[p] = IF p \in Settled THEN FreeUnitsOf(page[p]) ELSE {}
  <2>1. CASE p \in Settled BY <2>1, FreeIs
  <2>2. CASE p \notin Settled BY <2>2 DEF ArenaFree
  <2>3. QED BY <2>1, <2>2
<1>2. ArenaFree = [p \in Pages |-> ArenaFree[p]] BY DEF ArenaFree
<1>3. QED BY <1>1, <1>2

\* The same as a formula, and so of the next state too.
ArenaFreeSeen == ArenaFree = [p \in Pages |-> IF p \in Settled THEN FreeUnitsOf(page[p]) ELSE {}]

\* So it is.
LEMMA ArenaFreeAfter == ArenaFreeSeen'
<1>1. ArenaFreeSeen BY ArenaFreeIs DEF ArenaFreeSeen
<1>2. []ArenaFreeSeen BY <1>1, PTL
<1>3. QED BY <1>2, PTL

\* Only p changes, and it is settled afterwards.
LEMMA PageChanges ==
  ASSUME SlobInv, NEW p \in Pages, NEW pg, Exact(pg), page' = [page EXCEPT ![p] = pg],
         Settled' = Settled \cup {p}
  PROVE  /\ page' \in [Pages -> PageRecords] /\ PagesExact'
         /\ page'[p] = pg /\ \A q \in Pages : q # p => page'[q] = page[q]
         /\ ArenaFree' = [ArenaFree EXCEPT ![p] = FreeUnitsOf(pg)]
<1>1. page \in [Pages -> PageRecords] /\ pg \in PageRecords BY DEF SlobInv, Typed, Exact
<1>2. /\ page' \in [Pages -> PageRecords]
      /\ page'[p] = pg /\ \A q \in Pages : q # p => page'[q] = page[q]
  BY <1>1
<1>3. Settled \subseteq Pages BY SettledView
<1>4. PagesExact'
  <2>1. ASSUME NEW q \in Settled' PROVE Exact(page'[q])
    <3>1. CASE q = p BY <1>2, <3>1
    <3>2. CASE q # p
      <4>1. q \in Settled /\ q \in Pages BY <1>3, <3>2
      <4>2. QED BY <1>2, <3>2, <4>1 DEF SlobInv, PagesExact
    <3>3. QED BY <3>1, <3>2
  <2>2. ASSUME NEW q \in Settled' PROVE Exact(page[q])'
    BY <2>1 DEF Exact, FreeUnitsOf, PageRecords, Memories, Shorts, Linked, Separate, Covered, FreeBlocks
  <2>3. QED BY <2>2 DEF PagesExact
<1>5. ArenaFree = [q \in Pages |-> IF q \in Settled THEN FreeUnitsOf(page[q]) ELSE {}]
  BY ArenaFreeIs
<1>6. ArenaFree' = [q \in Pages |-> IF q \in Settled' THEN FreeUnitsOf(page'[q]) ELSE {}]
  BY ArenaFreeAfter DEF ArenaFreeSeen, FreeUnitsOf, FreeBlocks, Covered
<1>7. ArenaFree' = [ArenaFree EXCEPT ![p] = FreeUnitsOf(pg)]
  <2>1. ASSUME NEW q \in Pages PROVE ArenaFree'[q] = [ArenaFree EXCEPT ![p] = FreeUnitsOf(pg)][q]
    <3>1. CASE q = p BY <1>2, <1>5, <1>6, <3>1
    <3>2. CASE q # p
      <4>1. page'[q] = page[q] /\ (q \in Settled' <=> q \in Settled) BY <1>2, <3>2
      <4>2. QED BY <1>5, <1>6, <3>2, <4>1
    <3>3. QED BY <3>1, <3>2
  <2>2. ArenaFree' = [q \in Pages |-> ArenaFree'[q]] BY <1>6
  <2>3. ArenaFree = [q \in Pages |-> ArenaFree[q]] BY <1>5
  <2>4. QED BY <2>1, <2>2, <2>3
<1>8. QED BY <1>2, <1>4, <1>7

\* No page changes that stays settled, and none becomes it.
LEMMA PagesStay ==
  ASSUME SlobInv, Settled' \subseteq Settled, page' \in [Pages -> PageRecords],
         \A q \in Settled' : page'[q] = page[q]
  PROVE  /\ PagesExact'
         /\ ArenaFree' = [q \in Pages |-> IF q \in Settled' THEN ArenaFree[q] ELSE {}]
<1>1. Settled \subseteq Pages BY SettledView
<1>2. PagesExact'
  <2>1. ASSUME NEW q \in Settled' PROVE Exact(page'[q])
    BY <2>1 DEF SlobInv, PagesExact
  <2>2. ASSUME NEW q \in Settled' PROVE Exact(page[q])'
    BY <2>1 DEF Exact, FreeUnitsOf, PageRecords, Memories, Shorts, Linked, Separate, Covered, FreeBlocks
  <2>3. QED BY <2>2 DEF PagesExact
<1>3. ArenaFree = [q \in Pages |-> IF q \in Settled THEN FreeUnitsOf(page[q]) ELSE {}]
  BY ArenaFreeIs
<1>4. ArenaFree' = [q \in Pages |-> IF q \in Settled' THEN FreeUnitsOf(page'[q]) ELSE {}]
  BY ArenaFreeAfter DEF ArenaFreeSeen, FreeUnitsOf, FreeBlocks, Covered
<1>5. \A q \in Pages : q \in Settled' => page'[q] = page[q] /\ q \in Settled OBVIOUS
<1>6. QED BY <1>2, <1>3, <1>4, <1>5
--------------------------------------------------------------------------------
\* Lists.
LEMMA ListsChange ==
  ASSUME SlobInv, NEW l \in ListNames, NEW s \in Seq(Pages), Distinct(s),
         ToSet(s) \cap ArenaListed \subseteq ToSet(lists[l]),
         lists' = [lists EXCEPT ![l] = s]
  PROVE  /\ lists' \in [ListNames -> Seq(Pages)] /\ ListsOnce'
         /\ ArenaListed' = (ArenaListed \ ToSet(lists[l])) \cup ToSet(s)
<1>1. lists \in [ListNames -> Seq(Pages)] BY DEF SlobInv, Typed
<1>2. /\ lists' \in [ListNames -> Seq(Pages)]
      /\ lists'[l] = s /\ \A m \in ListNames : m # l => lists'[m] = lists[m]
  BY <1>1
<1>3. \A m \in ListNames : ToSet(lists[m]) \subseteq ArenaListed BY DEF ArenaListed
<1>4. /\ \A m \in ListNames : Distinct(lists[m])
      /\ \A m, n \in ListNames : m # n => ToSet(lists[m]) \cap ToSet(lists[n]) = {}
  BY DEF SlobInv, ListsOnce
<1>5. \A m \in ListNames : Distinct(lists'[m]) BY <1>2, <1>4
<1>6. \A m \in ListNames : m # l => ToSet(s) \cap ToSet(lists[m]) = {} BY <1>3, <1>4
<1>7. \A m, n \in ListNames : m # n => ToSet(lists'[m]) \cap ToSet(lists'[n]) = {}
  BY <1>2, <1>4, <1>6
<1>8. ListsOnce' BY <1>5, <1>7 DEF ListsOnce, Distinct, ToSet, ListNames
<1>9. ArenaListed' = UNION {ToSet(lists'[m]) : m \in ListNames} BY DEF ArenaListed, ListNames, ToSet
<1>10. ArenaListed = UNION {ToSet(lists[m]) : m \in ListNames} BY DEF ArenaListed
<1>11. ASSUME NEW p PROVE p \in ArenaListed' <=> p \in (ArenaListed \ ToSet(lists[l])) \cup ToSet(s)
  <2>1. p \in ArenaListed' <=> \E m \in ListNames : p \in ToSet(lists'[m]) BY <1>9
  <2>2. p \in ArenaListed <=> \E m \in ListNames : p \in ToSet(lists[m]) BY <1>10
  <2>3. \A m \in ListNames : m # l => (p \in ToSet(lists'[m]) <=> p \in ToSet(lists[m])) BY <1>2
  <2>4. \A m \in ListNames : m # l /\ p \in ToSet(lists[m]) => p \notin ToSet(lists[l]) BY <1>4
  <2>5. p \in ToSet(lists'[l]) <=> p \in ToSet(s) BY <1>2
  <2>6. QED BY <2>1, <2>2, <2>3, <2>4, <2>5
<1>12. QED BY <1>2, <1>8, <1>11

\* A page comes on a list.
LEMMA ListsPush ==
  ASSUME SlobInv, NEW l \in ListNames, NEW p \in Pages, p \notin ArenaListed, set_slob_page_free(p, l)
  PROVE  lists' \in [ListNames -> Seq(Pages)] /\ ListsOnce' /\ ArenaListed' = ArenaListed \cup {p}
<1> DEFINE s == <<p>> \o lists[l]
<1>1. lists' = [lists EXCEPT ![l] = s] BY DEF set_slob_page_free
<1>2. lists[l] \in Seq(Pages) /\ Distinct(lists[l]) BY ListedView
<1>3. ToSet(lists[l]) \subseteq ArenaListed BY DEF ArenaListed
<1>4. s \in Seq(Pages) /\ Distinct(s) /\ ToSet(s) = ToSet(lists[l]) \cup {p} BY <1>2, <1>3, Pushes
<1> HIDE DEF s
<1>5. /\ lists' \in [ListNames -> Seq(Pages)] /\ ListsOnce'
      /\ ArenaListed' = (ArenaListed \ ToSet(lists[l])) \cup ToSet(s)
  BY <1>1, <1>3, <1>4, ListsChange
<1>6. QED BY <1>3, <1>4, <1>5

\* A list is turned, after a page has left it or not.
LEMMA ListsTurn ==
  ASSUME SlobInv, NEW l \in ListNames, NEW i \in DOMAIN lists[l], NEW full \in BOOLEAN,
         lists' = [lists EXCEPT ![l] = Rotated(IF full THEN RemoveAt(lists[l], i) ELSE lists[l], i)]
  PROVE  /\ lists' \in [ListNames -> Seq(Pages)] /\ ListsOnce'
         /\ ArenaListed' = IF full THEN ArenaListed \ {lists[l][i]} ELSE ArenaListed
<1> DEFINE old == lists[l]
           r == IF full THEN RemoveAt(old, i) ELSE old
           s == Rotated(r, i)
           gone == IF full THEN {old[i]} ELSE {}
<1>1. old \in Seq(Pages) /\ Distinct(old) BY ListedView
<1>2. i \in Nat BY <1>1
<1>3. ToSet(old) \subseteq ArenaListed BY DEF ArenaListed
<1>4. r \in Seq(Pages) /\ Distinct(r) /\ ToSet(r) = ToSet(old) \ gone
  <2>1. i \in DOMAIN old OBVIOUS
  <2> HIDE DEF old
  <2>2. CASE full BY <1>1, <2>1, <2>2, RemovesAt
  <2>3. CASE ~full BY <1>1, <2>3
  <2>4. QED BY <2>2, <2>3
<1>5. lists' = [lists EXCEPT ![l] = s] OBVIOUS
<1> HIDE DEF r
<1>6. s \in Seq(Pages) /\ Distinct(s) /\ ToSet(s) = ToSet(r) BY <1>2, <1>4, Rotates
<1> HIDE DEF s
<1>7. /\ lists' \in [ListNames -> Seq(Pages)] /\ ListsOnce'
      /\ ArenaListed' = (ArenaListed \ ToSet(old)) \cup ToSet(s)
  BY <1>3, <1>4, <1>5, <1>6, ListsChange
<1>8. ArenaListed' = ArenaListed \ gone
  <2>1. gone \subseteq ToSet(old) BY <1>1 DEF ToSet
  <2>2. QED BY <1>3, <1>4, <1>6, <1>7, <2>1
<1>9. QED BY <1>7, <1>8

\* A page leaves its list.
LEMMA ListsDrop ==
  ASSUME SlobInv, NEW p, lists' = clear_slob_page_free(p)
  PROVE  lists' \in [ListNames -> Seq(Pages)] /\ ListsOnce' /\ ArenaListed' = ArenaListed \ {p}
<1>1. \A m \in ListNames : lists'[m] = RemoveFirst(lists[m], p) BY DEF clear_slob_page_free
<1>2. ASSUME NEW m \in ListNames
      PROVE  /\ lists'[m] \in Seq(Pages) /\ Distinct(lists'[m])
             /\ ToSet(lists'[m]) = ToSet(lists[m]) \ {p}
  <2> DEFINE s == lists[m]
  <2>1. s \in Seq(Pages) /\ Distinct(s) BY ListedView
  <2> HIDE DEF s
  <2>2. /\ RemoveFirst(s, p) \in Seq(Pages) /\ Distinct(RemoveFirst(s, p))
        /\ ToSet(RemoveFirst(s, p)) = ToSet(s) \ {p}
    BY <2>1, RemovesFirst
  <2>3. QED BY <1>1, <2>2 DEF s
<1>3. lists' \in [ListNames -> Seq(Pages)]
  <2>1. lists' = [m \in ListNames |-> RemoveFirst(lists[m], p)] BY DEF clear_slob_page_free
  <2>2. lists' = [m \in ListNames |-> lists'[m]] BY <2>1
  <2>3. QED BY <1>2, <2>2
<1>4. \A m, n \in ListNames : m # n => ToSet(lists'[m]) \cap ToSet(lists'[n]) = {}
  BY <1>2 DEF SlobInv, ListsOnce
<1>5. ListsOnce' BY <1>2, <1>4 DEF ListsOnce, Distinct, ToSet, ListNames
<1>6. ArenaListed' = UNION {ToSet(lists'[m]) : m \in ListNames} BY DEF ArenaListed, ListNames, ToSet
<1>7. ArenaListed = UNION {ToSet(lists[m]) : m \in ListNames} BY DEF ArenaListed
<1>8. ArenaListed' = ArenaListed \ {p}
  <2>1. ASSUME NEW q PROVE q \in ArenaListed' <=> q \in ArenaListed /\ q # p
    <3>1. q \in ArenaListed' <=> \E m \in ListNames : q \in ToSet(lists'[m]) BY <1>6
    <3>2. q \in ArenaListed <=> \E m \in ListNames : q \in ToSet(lists[m]) BY <1>7
    <3>3. \A m \in ListNames : q \in ToSet(lists'[m]) <=> q \in ToSet(lists[m]) /\ q # p BY <1>2
    <3>4. QED BY <3>1, <3>2, <3>3
  <2>2. QED BY <2>1
<1>9. QED BY <1>3, <1>5, <1>8

\* No list changes.
LEMMA ListsKept ==
  ASSUME SlobInv, lists' = lists
  PROVE  lists' \in [ListNames -> Seq(Pages)] /\ ListsOnce' /\ ArenaListed' = ArenaListed
<1>1. lists' \in [ListNames -> Seq(Pages)] BY DEF SlobInv, Typed
<1>2. ListsOnce' BY DEF SlobInv, ListsOnce, Distinct, ToSet, ListNames
<1>3. ArenaListed' = ArenaListed BY DEF ArenaListed, ListNames, ToSet
<1>4. QED BY <1>1, <1>2, <1>3
--------------------------------------------------------------------------------
(* From the parts of a step to the invariant *)

\* A step that keeps the invariant, and is one of SlobArena or none.
Keeps == SlobInv' /\ [AR!Next]_(AR!vars)

\* The parts of the invariant after a step.
LEMMA Closes ==
  ASSUME SlobInv, [AR!Next]_(AR!vars), ThreadsTyped',
         page' \in [Pages -> PageRecords], PagesExact',
         lists' \in [ListNames -> Seq(Pages)], ListsOnce',
         AsRequested', OnePerPlace', WaitingOnce', SizesIntact',
         live' \subseteq Objects, waiting' \subseteq [o : Objects, foot : Offsets]
  PROVE  Keeps
<1>1. AR!Inv' BY Cuts, AR!InvNext DEF SlobInv
<1>2. slab' \subseteq taken' /\ taken' \subseteq Pages BY <1>1 DEF AR!Inv, AR!TypeOK
<1>3. Typed' BY <1>2 DEF Typed, PageRecords, Memories, Shorts, ListNames, Objects, PAGE_SIZE, Offsets
<1>4. QED BY <1>1, <1>3 DEF SlobInv, Keeps

\* Settled, in the next state.
LEMMA SettledAfter == Settled' = slab' \ InFlight'
BY DEF Settled

\* The lock is dropped, or taken again with nothing to show.
LEMMA WithoutPage ==
  ASSUME SlobInv, NEW t \in Threads, NEW d \in Doings,
         \/ thread[t] = Idle /\ d.step = "grow"
         \/ thread[t].step = "grow" /\ d = Idle,
         thread' = [thread EXCEPT ![t] = d], UNCHANGED <<page, taken, slab, lists, live, waiting>>
  PROVE  Keeps
<1>1. thread[t].step \in {"idle", "grow"} /\ d.step \in {"idle", "grow"} BY DEF Idle
<1>2. ThreadsTyped' /\ AR!Becomes(t, Shown(d)) /\ InFlight' = InFlight
  BY <1>1, StandsWithout DEF SlobInv, AR!Inv
<1>3. held' = held BY DEF held
<1>4. ArenaObjects' = ArenaObjects BY <1>3, ImagesKept
<1>5. Settled' = Settled BY <1>2, SettledAfter DEF Settled
<1>6. page' \in [Pages -> PageRecords] BY DEF SlobInv, Typed
<1>7. PagesExact' /\ ArenaFree' = [q \in Pages |-> IF q \in Settled' THEN ArenaFree[q] ELSE {}]
  BY <1>5, <1>6, PagesStay
<1>8. ArenaFree' = ArenaFree BY <1>5, <1>7, ArenaFreeIs
<1>9. lists' \in [ListNames -> Seq(Pages)] /\ ListsOnce' /\ ArenaListed' = ArenaListed BY ListsKept
<1>10. Kept /\ SlabKept BY DEF Kept, SlabKept
<1>11. /\ AsRequested' /\ OnePerPlace' /\ WaitingOnce' /\ SizesIntact'
       /\ live' \subseteq Objects /\ waiting' \subseteq [o : Objects, foot : Offsets]
  BY <1>10, ObjectsLess
<1>12. AR!Grow(t) \/ AR!NoPage(t)
  <2>1. CASE thread[t] = Idle /\ d.step = "grow"
    <3>1. ArenaThread[t] = AR!Idle BY <2>1, ThreadView, ShownIs DEF SlobInv
    <3>2. Shown(d) = AR!Growing BY <2>1 DEF Shown, AR!Growing
    <3>3. QED BY <1>2, <1>4, <1>8, <1>9, <3>1, <3>2 DEF AR!Grow
  <2>2. CASE thread[t].step = "grow" /\ d = Idle
    <3>1. ArenaThread[t] = AR!Growing BY <2>2, ThreadView DEF SlobInv, Idle
    <3>2. Shown(d) = AR!Idle BY <2>2, ShownIs
    <3>3. QED BY <1>2, <1>4, <1>8, <1>9, <3>1, <3>2 DEF AR!NoPage
  <2>3. QED BY <2>1, <2>2
<1>13. AR!Next BY <1>12 DEF AR!Next
<1>14. QED BY <1>2, <1>6, <1>7, <1>9, <1>11, <1>13, Closes

--------------------------------------------------------------------------------
\* An object that is handed out keeps what is said of objects.
LEMMA NewObject ==
  ASSUME NEW req \in SlobRequests, NEW p \in Pages, NEW at \in Nat, at + SLOB_UNITS(req.size) <= PageUnits
  PROVE  LET o == Object(p, at, req) IN
         /\ o \in Objects /\ o.page = p /\ o.at = at /\ o.size = req.size /\ o.cache = req.cache
         /\ Units(o) = Run(at, SLOB_UNITS(req.size)) /\ at \in Units(o)
         /\ Image(o) \in AR!Objects /\ AR!UnitsOf(Image(o)) = Units(o)
         /\ Image(o).page = p /\ Image(o).at = at
         /\ p \in slab' => Asks(o)'
<1> DEFINE o == Object(p, at, req)
<1>1. o.page = p /\ o.at = at /\ o.size = req.size /\ o.cache = req.cache
      /\ o = [page |-> p, at |-> at, size |-> req.size, cache |-> req.cache]
  BY DEF Object
<1>2. /\ req.size \in Nat \ {0} /\ req.size < PAGE_SIZE
      /\ (req.cache = kmalloc \/ (req.cache \in Caches /\ req.size = CacheSize(req.cache)))
  BY Asked
<1>3. PAGE_SIZE \in Nat /\ PageUnits \in Nat BY PageIs
<1>4. SLOB_UNITS(req.size) \in Nat \ {0} BY <1>2, UnitsAre
<1>5. at \in Offsets BY <1>3, <1>4 DEF Offsets
<1>6. o \in Objects BY <1>1, <1>2, <1>3, <1>5 DEF Objects
<1>7. Units(o) = Run(at, SLOB_UNITS(req.size)) BY <1>1 DEF Units
<1>8. at \in Units(o) BY <1>4, <1>7 DEF Run
<1> HIDE DEF o
<1>9. /\ Image(o) \in AR!Objects /\ AR!UnitsOf(Image(o)) = Units(o)
      /\ Image(o).page = p /\ Image(o).at = at
  BY <1>1, <1>2, ImageIs
<1>10. "kmalloc" \notin Caches BY SlobSizes
<1>11. p \in slab' => Asks(o)'
  BY <1>1, <1>2, <1>10 DEF Asks, CacheSize, PAGE_SIZE, kmalloc
<1>12. QED BY <1>1, <1>6, <1>7, <1>8, <1>9, <1>11 DEF o

\* An object out of a page on a list.
LEMMA FromAList ==
  ASSUME SlobInv, NEW t \in Threads, NEW req \in SlobRequests, thread[t] = Idle,
         NEW l \in ListNames, NEW i \in DOMAIN lists[l], Fits(lists[l][i], req),
         NEW p, p = lists[l][i], NEW a, a = slob_page_alloc(page[p], req.size, req.align),
         page' = [page EXCEPT ![p] = Handed(a.page, a.block, req)],
         lists' = [lists EXCEPT ![l] = Rotated(IF a.page.units = 0 THEN RemoveAt(lists[l], i) ELSE lists[l], i)],
         live' = live \cup {Object(p, a.block, req)}, UNCHANGED <<taken, slab, waiting, thread>>
  PROVE  Keeps
<1> DEFINE o     == Object(p, a.block, req)
           after == Handed(a.page, a.block, req)
           units == SLOB_UNITS(req.size)
           full  == a.page.units = 0
<1>1. p \in ArenaListed /\ p \in Settled BY ListedView
<1>2. /\ p \in Pages /\ p \in slab /\ Exact(page[p]) /\ ArenaFree[p] = FreeUnitsOf(page[p])
      /\ \A n \in Offsets : n \in FreeUnitsOf(page[p]) <=> ~ \E u \in held : u.page = p /\ n \in Units(u)
  BY <1>1, SettledView
<1>3. /\ a.block \in Nat /\ units \in Nat \ {0} /\ a.block + units <= PageUnits
      /\ Run(a.block, units) \subseteq FreeUnitsOf(page[p])
      /\ Exact(after) /\ FreeUnitsOf(after) = FreeUnitsOf(page[p]) \ Run(a.block, units)
      /\ full <=> FreeUnitsOf(after) = {}
      /\ \A n \in Offsets \ FreeUnitsOf(page[p]) : after.mem[n] = page[p].mem[n]
      /\ req.cache = kmalloc => after.mem[a.block] = req.size - KmallocAlign
  <2>1. slob_page_alloc(page[p], req.size, req.align).block # NULL BY DEF Fits
  <2> DEFINE pg == page[p]
  <2>2. Exact(pg) /\ a = slob_page_alloc(pg, req.size, req.align) BY <1>2
  <2> HIDE DEF pg
  <2>3. HandedOver(pg, slob_page_alloc(pg, req.size, req.align), req) BY <2>1, <2>2, HandsOutOf DEF pg
  <2>4. HandedOver(pg, a, req) BY <2>2, <2>3
  <2>5. QED BY ONLY <2>4 DEF HandedOver, pg, after, units, full
<1>4. /\ o \in Objects /\ o.page = p /\ o.at = a.block /\ o.size = req.size /\ o.cache = req.cache
      /\ Units(o) = Run(a.block, units) /\ a.block \in Units(o)
      /\ Image(o) \in AR!Objects /\ AR!UnitsOf(Image(o)) = Units(o)
      /\ Image(o).page = p /\ Image(o).at = a.block
      /\ p \in slab' => Asks(o)'
  <2> DEFINE at == a.block
  <2>1. at \in Nat /\ at + SLOB_UNITS(req.size) <= PageUnits BY <1>3
  <2> HIDE DEF at
  <2>2. QED BY <1>2, <2>1, NewObject DEF at
<1>5. page' = [page EXCEPT ![p] = after] OBVIOUS
<1> HIDE DEF o, after, units, full
<1>6. ThreadsTyped' /\ ArenaThread' = ArenaThread /\ InFlight' = InFlight BY Stands DEF SlobInv
<1>7. Settled' = Settled /\ Settled' = Settled \cup {p} BY <1>1, <1>6, SettledAfter DEF Settled
<1>8. /\ page' \in [Pages -> PageRecords] /\ PagesExact'
      /\ page'[p] = after /\ \A q \in Pages : q # p => page'[q] = page[q]
      /\ ArenaFree' = [ArenaFree EXCEPT ![p] = FreeUnitsOf(after)]
  BY <1>2, <1>3, <1>5, <1>7, PageChanges
<1>9. /\ lists' \in [ListNames -> Seq(Pages)] /\ ListsOnce'
      /\ ArenaListed' = IF full THEN ArenaListed \ {p} ELSE ArenaListed
  <2>1. full \in BOOLEAN BY DEF full
  <2>2. lists' = [lists EXCEPT ![l] = Rotated(IF full THEN RemoveAt(lists[l], i) ELSE lists[l], i)]
    BY DEF full
  <2>3. QED BY <2>1, <2>2, ListsTurn
<1>10. Kept
  <2> SUFFICES ASSUME NEW u \in held, NEW n \in Offsets, n \in Units(u)
               PROVE  page'[u.page].mem[n] = page[u.page].mem[n]
    BY DEF Kept
  <2>1. CASE u.page = p
    <3>1. n \notin FreeUnitsOf(page[p]) BY <1>2, <2>1
    <3>2. QED BY <1>3, <1>8, <2>1, <3>1
  <2>2. CASE u.page # p
    <3>1. u.page \in Pages BY HeldIs
    <3>2. QED BY <1>8, <2>2, <3>1
  <2>3. QED BY <2>1, <2>2
<1>11. SlabKept BY DEF SlabKept
<1>12. ASSUME NEW u \in held PROVE u.page # o.page \/ u.at # o.at
  <2> SUFFICES ASSUME u.page = p, u.at = a.block PROVE FALSE BY <1>4
  <2>1. u.at \in Units(u) /\ u.at \in Offsets BY HeldIs
  <2>2. u.at \notin FreeUnitsOf(page[p]) BY <1>2, <2>1
  <2>3. QED BY <1>3, <1>4, <2>2
<1>13. /\ held' = held \cup {o}
       /\ AsRequested' /\ OnePerPlace' /\ WaitingOnce' /\ SizesIntact'
       /\ live' \subseteq Objects /\ waiting' \subseteq [o : Objects, foot : Offsets]
  <2>1. live' = live \cup {o} BY DEF o
  <2>2. Asks(o)' BY <1>2, <1>4
  <2>3. o.cache = kmalloc /\ o.page \in slab' => page'[o.page].mem[o.at] = o.size - KmallocAlign
    BY <1>3, <1>4, <1>8
  <2>4. QED BY <1>4, <1>10, <1>11, <1>12, <2>1, <2>2, <2>3, ObjectsMore
<1>14. ArenaObjects' = ArenaObjects \cup {Image(o)} BY <1>13, ImagesMore
<1>15. AR!Alloc(t, Image(o))
  <2>1. ArenaThread[t] = AR!Idle BY ThreadView, ShownIs DEF SlobInv
  <2>2. Image(o).page = p /\ AR!UnitsOf(Image(o)) \subseteq ArenaFree[p] BY <1>2, <1>3, <1>4
  <2>3. ArenaFree' = [ArenaFree EXCEPT ![Image(o).page] = @ \ AR!UnitsOf(Image(o))]
    BY <1>2, <1>3, <1>4, <1>8
  <2>4. ArenaFree'[p] = FreeUnitsOf(after) BY <1>2, <1>8, ArenaFreeIs
  <2>5. ArenaListed' = IF ArenaFree'[Image(o).page] = {} THEN ArenaListed \ {Image(o).page} ELSE ArenaListed
    BY <1>3, <1>4, <1>9, <2>4
  <2>6. QED BY <1>1, <1>6, <1>14, <2>1, <2>2, <2>3, <2>5 DEF AR!Alloc
<1>16. AR!Next BY <1>4, <1>15 DEF AR!Next
<1>17. QED BY <1>6, <1>8, <1>9, <1>13, <1>16, Closes
--------------------------------------------------------------------------------
(* Pages taken from the page allocator *)

\* A page is taken from the page allocator, and marked.
LEMMA TakesPage ==
  ASSUME SlobInv, NEW t \in Threads, thread[t].step = "grow", NEW p \in Pages \ taken,
         taken' = taken \cup {p}, slab' = slab \cup {p},
         thread' = [thread EXCEPT ![t] = [step |-> "install", req |-> thread[t].req, page |-> p]],
         UNCHANGED <<page, lists, live, waiting>>
  PROVE  Keeps
<1> DEFINE d == [step |-> "install", req |-> thread[t].req, page |-> p]
<1>1. ArenaThread[t] = AR!Growing /\ thread[t].req \in SlobRequests BY ThreadView DEF SlobInv, Idle
<1>2. d \in Doings /\ Shown(d) = AR!With("install", p) BY <1>1, ShownIs DEF Doings
<1> HIDE DEF d
<1>3. thread' = [thread EXCEPT ![t] = d] BY DEF d
<1>4. ThreadsTyped' /\ AR!Becomes(t, AR!With("install", p)) /\ InFlight' = InFlight \cup {p}
  BY <1>2, <1>3, TakesUp DEF SlobInv, AR!Inv
<1>5. p \notin slab /\ p \notin InFlight /\ \A u \in held : u.page # p
  <2>1. p \notin slab BY DEF SlobInv, Typed
  <2>2. taken = {x.page : x \in ArenaObjects} \cup AR!InFlight BY DEF SlobInv, AR!Inv, AR!NoPageLeaks
  <2>3. InFlight = AR!InFlight BY InFlightView DEF SlobInv
  <2>4. \A u \in held : u.page \in taken BY HeldIs
  <2>5. QED BY <2>1, <2>2, <2>3, <2>4
<1>6. Settled' = Settled BY <1>4, <1>5, SettledAfter DEF Settled
<1>7. page' \in [Pages -> PageRecords] BY DEF SlobInv, Typed
<1>8. PagesExact' /\ ArenaFree' = [q \in Pages |-> IF q \in Settled' THEN ArenaFree[q] ELSE {}]
  BY <1>6, <1>7, PagesStay
<1>9. ArenaFree' = ArenaFree BY <1>6, <1>8, ArenaFreeIs
<1>10. lists' \in [ListNames -> Seq(Pages)] /\ ListsOnce' /\ ArenaListed' = ArenaListed BY ListsKept
<1>11. Kept /\ SlabKept BY <1>5 DEF Kept, SlabKept
<1>12. /\ AsRequested' /\ OnePerPlace' /\ WaitingOnce' /\ SizesIntact'
       /\ live' \subseteq Objects /\ waiting' \subseteq [o : Objects, foot : Offsets]
  BY <1>11, ObjectsLess
<1>13. held' = held BY DEF held
<1>14. ArenaObjects' = ArenaObjects BY <1>13, ImagesKept
<1>15. AR!TakePage(t, p) BY <1>1, <1>4, <1>9, <1>10, <1>14 DEF AR!TakePage
<1>16. AR!Next BY <1>15 DEF AR!Next
<1>17. QED BY <1>4, <1>7, <1>8, <1>10, <1>12, <1>16, Closes

\* Its first object.
LEMMA InstallsPage ==
  ASSUME SlobInv, NEW t \in Threads, InstallPage(t)
  PROVE  Keeps
<1>1. PICK req, p, a : /\ req = thread[t].req /\ p = thread[t].page
                       /\ a = slob_page_alloc(FreshPage, req.size, req.align)
  OBVIOUS
<1> DEFINE o     == Object(p, a.block, req)
           after == Handed(a.page, a.block, req)
           units == SLOB_UNITS(req.size)
           full  == a.page.units = 0
<1>a. /\ thread[t].step = "install" /\ a.block # NULL /\ page' = [page EXCEPT ![p] = after]
      /\ IF full THEN lists' = lists ELSE set_slob_page_free(p, ListOf(req.size))
      /\ live' = live \cup {o} /\ thread' = [thread EXCEPT ![t] = Idle]
      /\ UNCHANGED <<taken, slab, waiting>>
  BY <1>1 DEF InstallPage
<1>2. req \in SlobRequests /\ p \in Pages /\ ArenaThread[t] = AR!With("install", p)
  BY <1>1, <1>a, ThreadView DEF SlobInv, Idle
<1>3. HandedOver(FreshPage, a, req) BY <1>1, <1>a, <1>2, FreshIs, HandsOutOf
<1>4. full \in BOOLEAN OBVIOUS
<1>5. /\ a.block \in Nat /\ units \in Nat \ {0} /\ a.block + units <= PageUnits
      /\ Exact(after) /\ FreeUnitsOf(after) = Offsets \ Run(a.block, units)
      /\ full <=> FreeUnitsOf(after) = {}
      /\ req.cache = kmalloc => after.mem[a.block] = req.size - KmallocAlign
  BY <1>3, FreshIs DEF HandedOver
<1>6. /\ o \in Objects /\ o.page = p /\ o.at = a.block /\ o.size = req.size /\ o.cache = req.cache
      /\ Units(o) = Run(a.block, units) /\ a.block \in Units(o)
      /\ Image(o) \in AR!Objects /\ AR!UnitsOf(Image(o)) = Units(o)
      /\ Image(o).page = p /\ Image(o).at = a.block
      /\ p \in slab' => Asks(o)'
  <2> DEFINE at == a.block
  <2>1. at \in Nat /\ at + SLOB_UNITS(req.size) <= PageUnits BY <1>5
  <2> HIDE DEF at
  <2>2. QED BY <1>2, <2>1, NewObject DEF at
<1> HIDE DEF o, after, units, full
<1>7. /\ p \in InFlight /\ AR!Has(t, p)
      /\ ThreadsTyped' /\ AR!Becomes(t, AR!Idle) /\ InFlight' = InFlight \ {p}
  BY <1>1, <1>a, PutsDown DEF SlobInv, AR!Inv
<1>8. p \in slab /\ \A u \in held : u.page # p
  <2>1. AR!FlightsApart BY DEF SlobInv, AR!Inv
  <2>2. \A u \in held : Image(u) \in ArenaObjects /\ Image(u).page = u.page BY HeldIs
  <2>3. QED BY <1>2, <1>7, <2>1, <2>2 DEF AR!FlightsApart
<1>9. Settled' = Settled \cup {p} BY <1>a, <1>7, <1>8, SettledAfter DEF Settled
<1>10. /\ page' \in [Pages -> PageRecords] /\ PagesExact'
       /\ page'[p] = after /\ \A q \in Pages : q # p => page'[q] = page[q]
       /\ ArenaFree' = [ArenaFree EXCEPT ![p] = FreeUnitsOf(after)]
  BY <1>a, <1>2, <1>5, <1>9, PageChanges
<1>11. p \notin ArenaListed
  <2>1. ArenaListed \subseteq Settled BY ListedView, InFlightView DEF SlobInv, AR!Inv, AR!ListedIffPartlyFree
  <2>2. QED BY <1>7, <2>1 DEF Settled
<1>12. /\ lists' \in [ListNames -> Seq(Pages)] /\ ListsOnce'
       /\ ArenaListed' = IF full THEN ArenaListed ELSE ArenaListed \cup {p}
  <2>1. CASE full BY <1>a, <2>1, ListsKept
  <2>2. CASE ~full
    <3>1. ListOf(req.size) \in ListNames BY DEF ListOf, ListNames
    <3>2. set_slob_page_free(p, ListOf(req.size)) BY <1>a, <2>2
    <3>3. QED BY <1>2, <1>11, <2>2, <3>1, <3>2, ListsPush
  <2>3. QED BY <2>1, <2>2
<1>13. Kept
  <2> SUFFICES ASSUME NEW u \in held, NEW n \in Offsets PROVE page'[u.page].mem[n] = page[u.page].mem[n]
    BY DEF Kept
  <2>1. u.page \in Pages /\ u.page # p BY <1>8, HeldIs
  <2>2. QED BY <1>10, <2>1
<1>14. SlabKept BY <1>a DEF SlabKept
<1>15. /\ held' = held \cup {o}
       /\ AsRequested' /\ OnePerPlace' /\ WaitingOnce' /\ SizesIntact'
       /\ live' \subseteq Objects /\ waiting' \subseteq [o : Objects, foot : Offsets]
  <2>1. Asks(o)' BY <1>a, <1>6, <1>8
  <2>2. o.cache = kmalloc /\ o.page \in slab' => page'[o.page].mem[o.at] = o.size - KmallocAlign
    BY <1>5, <1>6, <1>10
  <2>3. \A u \in held : u.page # o.page \/ u.at # o.at BY <1>6, <1>8
  <2>4. live' = live \cup {o} /\ waiting' = waiting BY <1>a
  <2>5. QED BY <1>6, <1>13, <1>14, <2>1, <2>2, <2>3, <2>4, ObjectsMore
<1>16. ArenaObjects' = ArenaObjects \cup {Image(o)} BY <1>15, ImagesMore
<1>17. AR!Install(t, Image(o))
  <2>1. ArenaFree' = [ArenaFree EXCEPT ![Image(o).page] = AR!Offsets \ AR!UnitsOf(Image(o))]
    BY <1>5, <1>6, <1>10 DEF AR!Offsets, Offsets
  <2>2. ArenaFree'[p] = FreeUnitsOf(after) BY <1>2, <1>10, ArenaFreeIs
  <2>3. ArenaListed' = IF ArenaFree'[Image(o).page] = {} THEN ArenaListed ELSE ArenaListed \cup {Image(o).page}
    BY <1>5, <1>6, <1>12, <2>2
  <2>4. QED BY <1>a, <1>2, <1>6, <1>7, <1>16, <2>1, <2>3 DEF AR!Install
<1>18. AR!Next BY <1>6, <1>17 DEF AR!Next
<1>19. QED BY <1>7, <1>10, <1>12, <1>15, <1>18, Closes

\* An object that has a page of its own.
LEMMA TakesWholePage ==
  ASSUME SlobInv, NEW t \in Threads, NEW cache, NEW size \in 1 .. PAGE_SIZE, PageAlloc(t, cache, size),
         cache = kmalloc \/ (cache \in Caches /\ size = CacheSize(cache) /\ size >= PAGE_SIZE)
  PROVE  Keeps
<1>1. PICK p \in Pages \ taken : taken' = taken \cup {p} /\ live' = live \cup {Object(p, 0, Request(size, 0, cache))}
  BY DEF PageAlloc
<1>2. thread[t] = Idle /\ UNCHANGED <<page, slab, lists, waiting, thread>> BY DEF PageAlloc
<1> DEFINE o == Object(p, 0, Request(size, 0, cache))
<1>3. o.page = p /\ o.at = 0 /\ o.size = size /\ o.cache = cache
      /\ o = [page |-> p, at |-> 0, size |-> size, cache |-> cache]
  BY DEF Object, Request
<1>4. PAGE_SIZE \in Nat /\ PageUnits \in Nat \ {0} /\ PAGE_SIZE = PageUnits * SLOB_UNIT BY PageIs
<1>5. o \in Objects BY <1>3, <1>4 DEF Objects, Offsets
<1>6. size \in Nat \ {0} /\ size <= PAGE_SIZE BY <1>4
<1> HIDE DEF o
<1>7. SLOB_UNITS(size) <= PageUnits /\ SLOB_UNITS(size) \in Nat BY <1>4, <1>6, UnitsAre
<1>8. Image(o) \in AR!Objects /\ Image(o).page = p
  BY <1>3, <1>6, <1>7, ImageIs
<1>9. p \notin slab /\ \A u \in held : u.page # p
  <2>1. p \notin slab BY DEF SlobInv, Typed
  <2>2. \A u \in held : u.page \in taken BY HeldIs
  <2>3. QED BY <2>1, <2>2
<1>10. ThreadsTyped' /\ ArenaThread' = ArenaThread /\ InFlight' = InFlight BY <1>2, Stands DEF SlobInv
<1>11. Settled' = Settled BY <1>2, <1>10, SettledAfter DEF Settled
<1>12. page' \in [Pages -> PageRecords] BY <1>2 DEF SlobInv, Typed
<1>13. PagesExact' /\ ArenaFree' = [q \in Pages |-> IF q \in Settled' THEN ArenaFree[q] ELSE {}]
  BY <1>2, <1>11, <1>12, PagesStay
<1>14. ArenaFree' = ArenaFree BY <1>11, <1>13, ArenaFreeIs
<1>15. lists' \in [ListNames -> Seq(Pages)] /\ ListsOnce' /\ ArenaListed' = ArenaListed BY <1>2, ListsKept
<1>16. Kept /\ SlabKept BY <1>2 DEF Kept, SlabKept
<1>17. Asks(o)'
  <2>1. "kmalloc" \notin Caches BY SlobSizes
  <2>2. QED BY <1>2, <1>3, <1>4, <1>6, <1>9, <2>1 DEF Asks, CacheSize, PAGE_SIZE, kmalloc
<1>18. /\ held' = held \cup {o}
       /\ AsRequested' /\ OnePerPlace' /\ WaitingOnce' /\ SizesIntact'
       /\ live' \subseteq Objects /\ waiting' \subseteq [o : Objects, foot : Offsets]
  <2>1. live' = live \cup {o} /\ waiting' = waiting BY <1>1, <1>2 DEF o
  <2>2. \A u \in held : u.page # o.page \/ u.at # o.at BY <1>3, <1>9
  <2>3. o.page \notin slab' BY <1>2, <1>3, <1>9
  <2>4. QED BY <1>5, <1>16, <1>17, <2>1, <2>2, <2>3, ObjectsMore
<1>19. ArenaObjects' = ArenaObjects \cup {Image(o)} BY <1>18, ImagesMore
<1>20. AR!AllocPage(t, Image(o))
  <2>1. ArenaThread[t] = AR!Idle BY <1>2, ThreadView, ShownIs DEF SlobInv
  <2>2. QED BY <1>1, <1>2, <1>8, <1>10, <1>14, <1>15, <1>19, <2>1 DEF AR!AllocPage
<1>21. AR!Next BY <1>8, <1>20 DEF AR!Next
<1>22. QED BY <1>10, <1>12, <1>13, <1>15, <1>18, <1>21, Closes
--------------------------------------------------------------------------------
(* Objects given back *)

\* One object is given back.
Loses(o) == o \in held /\ live' \subseteq live /\ waiting' \subseteq waiting /\ held' = held \ {o}

\* The units of an object that is given back.
LEMMA GivenBack ==
  ASSUME SlobInv, NEW o, o \in held, o.page \in slab
  PROVE  LET p == o.page
             pg == page[p]
             units == SLOB_UNITS(o.size)
         IN  /\ p \in Pages /\ p \in Settled /\ Exact(pg) /\ ArenaFree[p] = FreeUnitsOf(pg)
             /\ o.at \in Nat /\ units \in Nat \ {0} /\ o.at + units <= PageUnits
             /\ Run(o.at, units) = Units(o) /\ Units(o) \subseteq Offsets
             /\ Units(o) \cap FreeUnitsOf(pg) = {}
             /\ p \in ArenaListed <=> FreeUnitsOf(pg) # {}
             /\ pg.units + units = PageUnits <=> FreeUnitsOf(pg) \cup Units(o) = Offsets
<1> DEFINE p == o.page
           pg == page[p]
           b == o.at
           units == SLOB_UNITS(o.size)
<1>1. p \in Settled BY HeldSettled
<1>2. /\ p \in Pages /\ b \in Nat /\ units \in Nat \ {0} /\ b + units <= PageUnits
      /\ Units(o) \subseteq Offsets
  BY HeldIs
<1>3. Run(b, units) = Units(o) BY DEF Units
<1>4. /\ Exact(pg) /\ ArenaFree[p] = FreeUnitsOf(pg)
      /\ \A n \in Offsets : n \in FreeUnitsOf(pg) <=> ~ \E u \in held : u.page = p /\ n \in Units(u)
      /\ p \in ArenaListed <=> FreeUnitsOf(pg) # {}
  BY <1>1, SettledView
<1>5. Units(o) \cap FreeUnitsOf(pg) = {} BY <1>2, <1>4
<1> HIDE DEF p, pg, b, units
<1>6. pg.units + units = PageUnits <=> FreeUnitsOf(pg) \cup Run(b, units) = Offsets
  BY <1>2, <1>3, <1>4, <1>5, CountTellsLast
<1>7. QED BY <1>1, <1>2, <1>3, <1>4, <1>5, <1>6 DEF p, pg, b, units

\* The last object of a page.
LEMMA FreesLast ==
  ASSUME SlobInv, NEW t \in Threads, thread[t] = Idle, NEW o, Loses(o), o.page \in slab,
         page[o.page].units + SLOB_UNITS(o.size) = PageUnits,
         lists' = clear_slob_page_free(o.page),
         thread' = [thread EXCEPT ![t] = [step |-> "release", page |-> o.page]],
         UNCHANGED <<page, taken, slab>>
  PROVE  Keeps
<1> DEFINE p == o.page
           d == [step |-> "release", page |-> p]
<1>1. o \in held /\ held' = held \ {o} BY DEF Loses
<1>2. /\ p \in Pages /\ p \in Settled /\ ArenaFree[p] = FreeUnitsOf(page[p])
      /\ FreeUnitsOf(page[p]) \cup Units(o) = Offsets
  BY <1>1, GivenBack
<1>3. /\ Image(o) \in ArenaObjects /\ AR!UnitsOf(Image(o)) = Units(o) /\ Image(o).page = p
  BY <1>1, HeldIs
<1>4. d \in Doings /\ Shown(d) = AR!With("release", p) BY <1>2, ShownIs DEF Doings
<1>5. thread[t].step = "idle" BY DEF Idle
<1>6. thread' = [thread EXCEPT ![t] = d] OBVIOUS
<1> HIDE DEF p, d
<1>7. ThreadsTyped' /\ AR!Becomes(t, AR!With("release", p)) /\ InFlight' = InFlight \cup {p}
  BY <1>2, <1>4, <1>5, <1>6, TakesUp DEF SlobInv, AR!Inv
<1>8. Settled' = Settled \ {p} BY <1>7, SettledAfter DEF Settled
<1>9. page' \in [Pages -> PageRecords] BY DEF SlobInv, Typed
<1>10. PagesExact' /\ ArenaFree' = [q \in Pages |-> IF q \in Settled' THEN ArenaFree[q] ELSE {}]
  BY <1>8, <1>9, PagesStay
<1>11. ArenaFree' = [ArenaFree EXCEPT ![p] = {}]
  <2>1. ArenaFree = [q \in Pages |-> IF q \in Settled THEN FreeUnitsOf(page[q]) ELSE {}] BY ArenaFreeIs
  <2>2. ASSUME NEW q \in Pages PROVE ArenaFree'[q] = IF q = p THEN {} ELSE ArenaFree[q]
    BY <1>8, <1>10, <2>1
  <2>3. ArenaFree' = [q \in Pages |-> ArenaFree'[q]] BY <1>10
  <2>4. ArenaFree = [q \in Pages |-> ArenaFree[q]] BY <2>1
  <2>5. QED BY <2>2, <2>3, <2>4
<1>12. lists' \in [ListNames -> Seq(Pages)] /\ ListsOnce' /\ ArenaListed' = ArenaListed \ {p}
  BY ListsDrop DEF p
<1>13. Kept /\ SlabKept BY DEF Kept, SlabKept
<1>14. /\ AsRequested' /\ OnePerPlace' /\ WaitingOnce' /\ SizesIntact'
       /\ live' \subseteq Objects /\ waiting' \subseteq [o : Objects, foot : Offsets]
  BY <1>13, ObjectsLess DEF Loses
<1>15. ArenaObjects' = ArenaObjects \ {Image(o)} BY <1>1, ImagesLess
<1>16. AR!FreeLast(t, Image(o))
  <2>1. ArenaThread[t] = AR!Idle BY ThreadView, ShownIs DEF SlobInv
  <2>2. ArenaFree[Image(o).page] \cup AR!UnitsOf(Image(o)) = AR!Offsets
    BY <1>2, <1>3 DEF AR!Offsets, Offsets
  <2>3. Image(o).page \in slab BY <1>3 DEF p
  <2>4. QED BY <1>3, <1>7, <1>11, <1>12, <1>15, <2>1, <2>2, <2>3 DEF AR!FreeLast
<1>17. AR!Next BY <1>3, <1>16 DEF AR!Next
<1>18. QED BY <1>7, <1>9, <1>10, <1>12, <1>14, <1>17, Closes

\* The page has other objects still.
LEMMA FreesOne ==
  ASSUME SlobInv, NEW t \in Threads, thread[t] = Idle, NEW o, Loses(o), o.page \in slab,
         page[o.page].units + SLOB_UNITS(o.size) # PageUnits,
         IF slob_page_free(o.page)
         THEN /\ page' = [page EXCEPT ![o.page] = FreeIntoPartial(@, o.at, SLOB_UNITS(o.size))]
              /\ UNCHANGED lists
         ELSE /\ page' = [page EXCEPT ![o.page] = FreeIntoFull(@, o.at, SLOB_UNITS(o.size))]
              /\ set_slob_page_free(o.page, ListOf(o.size)),
         UNCHANGED <<taken, slab, thread>>
  PROVE  Keeps
<1>1. PICK p, pg : p = o.page /\ pg = page[p] OBVIOUS
<1> DEFINE b == o.at
           units == SLOB_UNITS(o.size)
           free == FreeUnitsOf(pg)
<1>2. o \in held /\ held' = held \ {o} BY DEF Loses
<1>3. /\ p \in Pages /\ p \in Settled /\ Exact(pg) /\ ArenaFree[p] = free
      /\ b \in Nat /\ units \in Nat \ {0} /\ b + units <= PageUnits
      /\ Run(b, units) = Units(o) /\ Units(o) \subseteq Offsets /\ Units(o) \cap free = {}
      /\ p \in ArenaListed <=> free # {}
      /\ free \cup Units(o) # Offsets
  BY <1>1, <1>2, GivenBack
<1>4. /\ Image(o) \in ArenaObjects /\ AR!UnitsOf(Image(o)) = Units(o) /\ Image(o).page = p
  BY <1>1, <1>2, HeldIs
<1> HIDE DEF b, units, free
<1>5. page \in [Pages -> PageRecords] /\ pg \in PageRecords BY <1>3 DEF SlobInv, Typed, Exact
<1>6. slob_page_free(p) <=> free # {} BY <1>3, ListedIs
<1>7. PICK after : /\ page' = [page EXCEPT ![p] = after]
                   /\ Exact(after) /\ FreeUnitsOf(after) = free \cup Units(o)
                   /\ \A n \in Offsets \ (free \cup Units(o)) : after.mem[n] = pg.mem[n]
  <2>1. CASE free # {}
    <3>1. page' = [page EXCEPT ![p] = FreeIntoPartial(pg, b, units)]
      BY <1>1, <1>5, <1>6, <2>1 DEF b, units
    <3>2. Frees(pg, b, units, FreeIntoPartial(pg, b, units))
      BY <1>3, <2>1, FreesIntoPartial DEF free
    <3>3. QED BY <1>3, <3>1, <3>2 DEF Frees, free
  <2>2. CASE free = {}
    <3>1. page' = [page EXCEPT ![p] = FreeIntoFull(pg, b, units)]
      BY <1>1, <1>5, <1>6, <2>2 DEF b, units
    <3> DEFINE full == FreeIntoFull(pg, b, units)
    <3>2. /\ Exact(full) /\ FreeUnitsOf(full) = Run(b, units)
          /\ \A n \in Offsets \ Run(b, units) : full.mem[n] = pg.mem[n]
      BY <1>3, <1>5, FreesIntoFull
    <3>3. page' = [page EXCEPT ![p] = full] BY <3>1
    <3> HIDE DEF full
    <3>4. Run(b, units) = free \cup Units(o) BY <1>3, <2>2
    <3>5. /\ Exact(full) /\ FreeUnitsOf(full) = free \cup Units(o)
          /\ \A n \in Offsets \ (free \cup Units(o)) : full.mem[n] = pg.mem[n]
      BY ONLY <3>2, <3>4
    <3>6. QED BY ONLY <3>3, <3>5
  <2>3. QED BY <2>1, <2>2
<1>8. ThreadsTyped' /\ ArenaThread' = ArenaThread /\ InFlight' = InFlight BY Stands DEF SlobInv
<1>9. Settled' = Settled \cup {p} BY <1>3, <1>8, SettledAfter DEF Settled
<1>10. /\ page' \in [Pages -> PageRecords] /\ PagesExact'
       /\ page'[p] = after /\ \A q \in Pages : q # p => page'[q] = page[q]
       /\ ArenaFree' = [ArenaFree EXCEPT ![p] = FreeUnitsOf(after)]
  BY <1>3, <1>7, <1>9, PageChanges
<1>11. lists' \in [ListNames -> Seq(Pages)] /\ ListsOnce' /\ ArenaListed' = ArenaListed \cup {p}
  <2>1. CASE free # {}
    <3>1. lists' = lists BY <1>1, <1>6, <2>1
    <3>2. QED BY <1>3, <2>1, <3>1, ListsKept
  <2>2. CASE free = {}
    <3>1. set_slob_page_free(p, ListOf(o.size)) BY <1>1, <1>6, <2>2
    <3>2. ListOf(o.size) \in ListNames BY DEF ListOf, ListNames
    <3>3. QED BY <1>3, <2>2, <3>1, <3>2, ListsPush
  <2>3. QED BY <2>1, <2>2
<1>12. Kept
  <2> SUFFICES ASSUME NEW u \in held, NEW n \in Offsets, u \in held', n \in Units(u)
               PROVE  page'[u.page].mem[n] = page[u.page].mem[n]
    BY DEF Kept
  <2>1. CASE u.page = p
    <3>1. u # o BY <1>2
    <3>2. Units(u) \cap Units(o) = {} BY <1>1, <1>2, <2>1, <3>1, HeldApart
    <3>3. n \notin free BY <1>1, <1>3, <2>1, SettledView DEF free
    <3>4. QED BY <1>1, <1>7, <1>10, <2>1, <3>2, <3>3
  <2>2. CASE u.page # p
    <3>1. u.page \in Pages BY HeldIs
    <3>2. QED BY <1>10, <2>2, <3>1
  <2>3. QED BY <2>1, <2>2
<1>13. SlabKept BY DEF SlabKept
<1>14. /\ AsRequested' /\ OnePerPlace' /\ WaitingOnce' /\ SizesIntact'
       /\ live' \subseteq Objects /\ waiting' \subseteq [o : Objects, foot : Offsets]
  BY <1>12, <1>13, ObjectsLess DEF Loses
<1>15. ArenaObjects' = ArenaObjects \ {Image(o)} BY <1>2, ImagesLess
<1>16. AR!Free(t, Image(o))
  <2>1. ArenaThread[t] = AR!Idle BY ThreadView, ShownIs DEF SlobInv
  <2>2. ArenaFree[Image(o).page] \cup AR!UnitsOf(Image(o)) # AR!Offsets
    BY <1>3, <1>4 DEF AR!Offsets, Offsets
  <2>3. Image(o).page \in slab BY <1>1, <1>4
  <2>4. ArenaFree' = [ArenaFree EXCEPT ![Image(o).page] = @ \cup AR!UnitsOf(Image(o))]
    BY <1>3, <1>4, <1>7, <1>10
  <2>5. QED BY <1>4, <1>8, <1>11, <1>15, <2>1, <2>2, <2>3, <2>4 DEF AR!Free
<1>17. AR!Next BY <1>4, <1>16 DEF AR!Next
<1>18. QED BY <1>8, <1>10, <1>11, <1>14, <1>17, Closes

\* slob_free.
LEMMA FreesInSlab ==
  ASSUME SlobInv, NEW t \in Threads, thread[t] = Idle, NEW o, Loses(o), o.page \in slab,
         NEW b, b = o.at, NEW size, size = o.size, slob_free(t, o.page, b, size)
  PROVE  Keeps
<1>1. CASE page[o.page].units + SLOB_UNITS(o.size) = PageUnits
  BY <1>1, FreesLast DEF slob_free
<1>2. CASE page[o.page].units + SLOB_UNITS(o.size) # PageUnits
  BY <1>2, FreesOne DEF slob_free
<1>3. QED BY <1>1, <1>2

\* An object that has a page of its own.
LEMMA FreesWhole ==
  ASSUME SlobInv, NEW t \in Threads, thread[t] = Idle, NEW o, Loses(o), o.page \notin slab,
         PageFree(o.page)
  PROVE  Keeps
<1>1. taken' = taken \ {o.page} /\ UNCHANGED <<page, slab, lists, thread>> BY DEF PageFree
<1>2. o \in held /\ held' = held \ {o} BY DEF Loses
<1>3. Image(o) \in ArenaObjects /\ Image(o).page = o.page BY <1>2, HeldIs
<1>4. ThreadsTyped' /\ ArenaThread' = ArenaThread /\ InFlight' = InFlight BY <1>1, Stands DEF SlobInv
<1>5. Settled' = Settled BY <1>1, <1>4, SettledAfter DEF Settled
<1>6. page' \in [Pages -> PageRecords] BY <1>1 DEF SlobInv, Typed
<1>7. PagesExact' /\ ArenaFree' = [q \in Pages |-> IF q \in Settled' THEN ArenaFree[q] ELSE {}]
  BY <1>1, <1>5, <1>6, PagesStay
<1>8. ArenaFree' = ArenaFree BY <1>5, <1>7, ArenaFreeIs
<1>9. lists' \in [ListNames -> Seq(Pages)] /\ ListsOnce' /\ ArenaListed' = ArenaListed BY <1>1, ListsKept
<1>10. Kept /\ SlabKept BY <1>1 DEF Kept, SlabKept
<1>11. /\ AsRequested' /\ OnePerPlace' /\ WaitingOnce' /\ SizesIntact'
       /\ live' \subseteq Objects /\ waiting' \subseteq [o : Objects, foot : Offsets]
  BY <1>10, ObjectsLess DEF Loses
<1>12. ArenaObjects' = ArenaObjects \ {Image(o)} BY <1>2, ImagesLess
<1>13. AR!FreePage(t, Image(o))
  <2>1. ArenaThread[t] = AR!Idle BY ThreadView, ShownIs DEF SlobInv
  <2>2. QED BY <1>1, <1>3, <1>4, <1>8, <1>9, <1>12, <2>1 DEF AR!FreePage
<1>14. AR!Next BY <1>3, <1>13 DEF AR!Next
<1>15. QED BY <1>4, <1>6, <1>7, <1>9, <1>11, <1>14, Closes
--------------------------------------------------------------------------------
(* The searches, kmalloc and kfree *)

\* The positions at which slob_alloc tries slob_page_alloc.
Enough(l, req) == {i \in DOMAIN lists[l] : page[lists[l][i]].units >= SLOB_UNITS(req.size)}

\* The counts of the pages on a list are numbers.
LEMMA ListCounts ==
  ASSUME SlobInv, NEW l \in ListNames, NEW i \in DOMAIN lists[l]
  PROVE  /\ lists[l][i] \in Settled /\ lists[l][i] \in Pages /\ Exact(page[lists[l][i]])
         /\ page[lists[l][i]].units \in Nat /\ i \in Nat
<1>1. lists[l][i] \in Settled BY ListedView
<1>2. lists[l][i] \in Pages /\ Exact(page[lists[l][i]]) BY <1>1, SettledView
<1>3. page[lists[l][i]].units \in Nat BY <1>2 DEF Exact, PageRecords
<1>4. i \in Nat BY ListedView
<1>5. QED BY <1>1, <1>2, <1>3, <1>4

\* They are positions with enough free units, and with best fit no page with enough has fewer.
LEMMA TriedAre ==
  ASSUME SlobInv, NEW l \in ListNames, NEW req
  PROVE  /\ Tried(l, req) \subseteq Enough(l, req) /\ Enough(l, req) \subseteq DOMAIN lists[l]
         /\ ~BestFit => Tried(l, req) = Enough(l, req)
         /\ BestFit => \A i \in Tried(l, req), j \in Enough(l, req) :
                         page[lists[l][i]].units <= page[lists[l][j]].units
<1> DEFINE Of(i) == page[lists[l][i]].units
           enough == Enough(l, req)
           fewest == {i \in enough : \A j \in enough : Of(i) <= Of(j)}
<1>1. Tried(l, req) = IF BestFit /\ enough # {} THEN {Min(fewest)} ELSE enough
  BY DEF Tried, Enough
<1>2. enough \subseteq DOMAIN lists[l] BY DEF Enough
<1>3. \A i \in enough : Of(i) \in Nat /\ i \in Nat BY <1>2, ListCounts
<1>4. BOOLEAN = {TRUE, FALSE} /\ BestFit \in BOOLEAN BY SlobSizes
<1>5. CASE BestFit /\ enough # {}
  <2> DEFINE T == {Of(i) : i \in enough}
  <2>1. T \in SUBSET Nat /\ T # {} BY <1>3, <1>5
  <2>2. Min(T) \in T /\ \A n \in T : Min(T) <= n BY <2>1, MinOf
  <2>3. PICK k \in enough : Of(k) = Min(T) BY <2>2
  <2>4. k \in fewest BY <2>2, <2>3
  <2>5. fewest \in SUBSET Nat /\ fewest # {} BY <1>3, <2>4
  <2> HIDE DEF fewest
  <2>6. Min(fewest) \in fewest BY <2>5, MinOf
  <2>7. Tried(l, req) = {Min(fewest)} BY <1>1, <1>5
  <2>8. QED BY <1>2, <1>5, <2>6, <2>7 DEF fewest
<1>6. CASE ~BestFit BY <1>1, <1>2, <1>6
<1>7. CASE enough = {} BY <1>1, <1>2, <1>7
<1>8. QED BY <1>4, <1>5, <1>6, <1>7

\* The positions at which it has room.
Found(l, req) == {i \in Tried(l, req) : Fits(lists[l][i], req)}

\* The least of them is one of them.
LEMMA FoundIs ==
  ASSUME SlobInv, NEW l \in ListNames, NEW req, Found(l, req) # {}
  PROVE  Min(Found(l, req)) \in Found(l, req) /\ Min(Found(l, req)) \in DOMAIN lists[l]
<1>1. Found(l, req) \subseteq DOMAIN lists[l] BY TriedAre DEF Found
<1>2. Found(l, req) \in SUBSET Nat BY <1>1, ListCounts
<1>3. Min(Found(l, req)) \in Found(l, req) BY <1>2, MinOf
<1>4. QED BY <1>1, <1>3

\* slob_alloc, up to the lock being dropped.
LEMMA Allocs ==
  ASSUME SlobInv, NEW t \in Threads, NEW req \in SlobRequests, slob_alloc(t, req)
  PROVE  Keeps
<1>1. PICK l : l = ListOf(req.size) OBVIOUS
<1>2. l \in ListNames BY <1>1 DEF ListOf, ListNames
<1>3. Found(l, req) = {j \in Tried(l, req) : Fits(lists[l][j], req)} BY DEF Found
<1>4. thread[t] = Idle BY DEF slob_alloc
<1>5. CASE Found(l, req) = {}
  <2>1. /\ thread' = [thread EXCEPT ![t] = [step |-> "grow", req |-> req]]
        /\ UNCHANGED <<page, taken, slab, lists, live, waiting>>
    BY <1>1, <1>3, <1>5 DEF slob_alloc
  <2>2. PICK d : d = [step |-> "grow", req |-> req] OBVIOUS
  <2>3. d \in Doings /\ d.step = "grow" BY <2>2 DEF Doings
  <2>4. QED BY <1>4, <2>1, <2>2, <2>3, WithoutPage
<1>6. CASE Found(l, req) # {}
  <2>1. PICK i, p, a : /\ i = Min(Found(l, req)) /\ p = lists[l][i]
                       /\ a = slob_page_alloc(page[p], req.size, req.align)
    OBVIOUS
  <2>2. i \in Found(l, req) /\ i \in DOMAIN lists[l] BY <1>2, <1>6, <2>1, FoundIs
  <2>3. Fits(lists[l][i], req) BY <2>2 DEF Found
  <2>4. /\ page' = [page EXCEPT ![p] = Handed(a.page, a.block, req)]
        /\ lists' = [lists EXCEPT ![l] = Rotated(IF a.page.units = 0 THEN RemoveAt(lists[l], i) ELSE lists[l], i)]
        /\ live' = live \cup {Object(p, a.block, req)}
        /\ UNCHANGED <<taken, slab, waiting, thread>>
    BY <1>1, <1>3, <1>6, <2>1 DEF slob_alloc
  <2>5. QED BY <1>2, <1>4, <2>1, <2>2, <2>3, <2>4, FromAList
<1>7. QED BY <1>5, <1>6

\* The page allocator fails, or gives a page.
LEMMA NewPages ==
  ASSUME SlobInv, NEW t \in Threads, slob_new_pages(t)
  PROVE  Keeps
<1>1. thread[t].step = "grow" BY DEF slob_new_pages
<1>2. CASE thread' = [thread EXCEPT ![t] = Idle] /\ UNCHANGED <<page, taken, slab, lists, live, waiting>>
  BY <1>1, <1>2, WithoutPage, IdleIs
<1>3. CASE \E p \in Pages \ taken :
             /\ taken' = taken \cup {p}
             /\ slab' = slab \cup {p}
             /\ thread' = [thread EXCEPT ![t] = [step |-> "install", req |-> thread[t].req, page |-> p]]
             /\ UNCHANGED <<page, lists, live, waiting>>
  BY <1>1, <1>3, TakesPage
<1>4. QED BY <1>2, <1>3 DEF slob_new_pages

\* kmalloc.
LEMMA KmallocIs ==
  ASSUME SlobInv, NEW t \in Threads, __do_kmalloc_node(t)
  PROVE  Keeps
<1>1. PICK size \in KmallocSizes :
        IF FitsInAPage(size) THEN slob_alloc(t, Request(size + KmallocAlign, KmallocAlign, kmalloc))
        ELSE PageAlloc(t, kmalloc, size)
  BY DEF __do_kmalloc_node
<1>2. CASE FitsInAPage(size)
  <2>1. PICK req : req = Request(size + KmallocAlign, KmallocAlign, kmalloc) OBVIOUS
  <2>2. req \in SlobRequests BY <1>2, <2>1 DEF SlobRequests
  <2>3. slob_alloc(t, req) BY <1>1, <1>2, <2>1
  <2>4. QED BY <2>2, <2>3, Allocs
<1>3. CASE ~FitsInAPage(size)
  <2>1. size \in 1 .. PAGE_SIZE BY SlobSizes
  <2>2. PICK cache : cache = kmalloc OBVIOUS
  <2>3. PageAlloc(t, cache, size) BY <1>1, <1>3, <2>2
  <2>4. QED BY <2>1, <2>2, <2>3, TakesWholePage
<1>4. QED BY <1>2, <1>3

\* kmem_cache_alloc.
LEMMA CacheAllocIs ==
  ASSUME SlobInv, NEW t \in Threads, slob_alloc_node(t)
  PROVE  Keeps
<1>1. PICK c \in Caches :
        IF CacheSize(c) < PAGE_SIZE THEN slob_alloc(t, Request(CacheSize(c), CacheAlign[c], c))
        ELSE PageAlloc(t, c, CacheSize(c))
  BY DEF slob_alloc_node
<1>2. CASE CacheSize(c) < PAGE_SIZE
  <2>1. PICK req : req = Request(CacheSize(c), CacheAlign[c], c) OBVIOUS
  <2>2. req \in SlobRequests BY <1>2, <2>1 DEF SlobRequests
  <2>3. slob_alloc(t, req) BY <1>1, <1>2, <2>1
  <2>4. QED BY <2>2, <2>3, Allocs
<1>3. CASE ~(CacheSize(c) < PAGE_SIZE)
  <2>1. PICK size : size = CacheSize(c) OBVIOUS
  <2>2. size \in 1 .. PAGE_SIZE BY <2>1, SlobSizes
  <2>3. size >= PAGE_SIZE BY <1>3, <2>1, <2>2, PageIs
  <2>4. PageAlloc(t, c, size) BY <1>1, <1>3, <2>1
  <2>5. QED BY <2>1, <2>2, <2>3, <2>4, TakesWholePage
<1>4. QED BY <1>2, <1>3

--------------------------------------------------------------------------------
\* An object of a caller is given back.
LEMMA LosesLive ==
  ASSUME SlobInv, NEW o \in live, live' = live \ {o}, UNCHANGED waiting
  PROVE  Loses(o)
<1>1. \A w \in waiting : w.o # o BY DEF SlobInv, WaitingOnce
<1>2. o \in held /\ held' = held \ {o} BY <1>1 DEF held
<1>3. QED BY <1>2 DEF Loses

\* And one that was call_rcu'd.
LEMMA LosesWaiting ==
  ASSUME SlobInv, NEW w \in waiting, waiting' = waiting \ {w}, UNCHANGED live
  PROVE  Loses(w.o)
<1>1. w.o \notin live BY DEF SlobInv, WaitingOnce
<1>2. \A x \in waiting : x.o = w.o => x = w BY FootIs
<1>3. w.o \in held /\ held' = held \ {w.o} BY <1>1, <1>2 DEF held
<1>4. QED BY <1>3 DEF Loses

\* kfree: the size that it reads back is the one that kmalloc was asked for.
LEMMA KfreeIs ==
  ASSUME SlobInv, NEW t \in Threads, kfree(t)
  PROVE  Keeps
<1>1. PICK o \in {o \in live : o.cache = kmalloc} :
        /\ live' = live \ {o}
        /\ IF o.page \in slab
           THEN slob_free(t, o.page, o.at, page[o.page].mem[o.at] + KmallocAlign)
           ELSE PageFree(o.page)
  BY DEF kfree
<1>2. thread[t] = Idle /\ UNCHANGED waiting BY DEF kfree
<1>3. Loses(o) /\ o \in held BY <1>1, <1>2, LosesLive DEF Loses
<1>4. CASE o.page \in slab
  <2>1. page[o.page].mem[o.at] = o.size - KmallocAlign BY <1>1, <1>4 DEF SlobInv, SizesIntact
  <2>2. o.size \in Nat /\ KmallocAlign \in Nat BY <1>3, HeldIs, SlobSizes
  <2>3. PICK size : size = page[o.page].mem[o.at] + KmallocAlign OBVIOUS
  <2> DEFINE m == page[o.page].mem[o.at]
             n == o.size
  <2>4. m = n - KmallocAlign /\ n \in Nat /\ size = m + KmallocAlign BY <2>1, <2>2, <2>3
  <2> HIDE DEF m, n
  <2>5. size = n BY <2>2, <2>4
  <2>6. slob_free(t, o.page, o.at, size) BY <1>1, <1>4, <2>3
  <2>7. PICK b : b = o.at OBVIOUS
  <2>8. slob_free(t, o.page, b, size) BY <2>6, <2>7
  <2>9. size = o.size BY <2>5 DEF n
  <2>10. QED BY <1>2, <1>3, <1>4, <2>7, <2>8, <2>9, FreesInSlab
<1>5. CASE o.page \notin slab BY <1>1, <1>2, <1>3, <1>5, FreesWhole
<1>6. QED BY <1>4, <1>5

\* __kmem_cache_free, once it is told the right place and size.
LEMMA CacheFrees ==
  ASSUME SlobInv, NEW t \in Threads, thread[t] = Idle, NEW o, Loses(o), o.cache \in Caches,
         NEW b, b = o.at, NEW size, size = o.size, __kmem_cache_free(t, o.page, b, size)
  PROVE  Keeps
<1>1. o.page \in slab <=> size < PAGE_SIZE BY DEF SlobInv, AsRequested, Loses
<1>2. CASE size < PAGE_SIZE
  <2>1. slob_free(t, o.page, b, size) BY <1>2 DEF __kmem_cache_free
  <2>2. QED BY <1>1, <1>2, <2>1, FreesInSlab
<1>3. CASE ~(size < PAGE_SIZE)
  <2>1. PageFree(o.page) BY <1>3 DEF __kmem_cache_free
  <2>2. QED BY <1>1, <1>3, <2>1, FreesWhole
<1>4. QED BY <1>2, <1>3

\* kmem_rcu_free: the footer tells the object that it is in.
LEMMA RcuFreeIs ==
  ASSUME SlobInv, NEW t \in Threads, kmem_rcu_free(t)
  PROVE  Keeps
<1>1. PICK w \in waiting :
        LET size == page[w.o.page].mem[w.foot]
            b    == w.foot - (size - RcuSize) \div SLOB_UNIT
        IN  waiting' = waiting \ {w} /\ __kmem_cache_free(t, w.o.page, b, size)
  BY DEF kmem_rcu_free
<1>2. thread[t] = Idle /\ UNCHANGED live BY DEF kmem_rcu_free
<1>3. PICK size, b, o : /\ size = page[w.o.page].mem[w.foot] /\ o = w.o
                        /\ b = w.foot - (size - RcuSize) \div SLOB_UNIT
  OBVIOUS
<1>4. waiting' = waiting \ {w} /\ __kmem_cache_free(t, o.page, b, size) BY <1>1, <1>3
<1>5. Loses(o) BY <1>2, <1>3, <1>4, LosesWaiting
<1>6. size = o.size BY <1>3 DEF SlobInv, SizesIntact
<1>7. b = o.at /\ o.cache \in Caches BY <1>3, <1>6, FootIs
<1>8. QED BY <1>2, <1>4, <1>5, <1>6, <1>7, CacheFrees
--------------------------------------------------------------------------------
(* Caches, and the step as a whole *)

\* The footer of an object goes into its last units: no list is disturbed.
LEMMA FooterWritten ==
  ASSUME SlobInv, NEW o, o \in held, o.page \in slab, NEW foot \in Units(o), NEW size \in 1 .. PAGE_SIZE
  PROVE  LET after == [page[o.page] EXCEPT !.mem[foot] = size] IN
         Exact(after) /\ FreeUnitsOf(after) = FreeUnitsOf(page[o.page])
<1> DEFINE pg == page[o.page]
           mem == [pg.mem EXCEPT ![foot] = size]
<1>1. Exact(pg) /\ Units(o) \subseteq Offsets /\ Units(o) \cap FreeUnitsOf(pg) = {} BY GivenBack
<1>2. pg.mem \in Memories BY <1>1 DEF Exact, PageRecords
<1>3. size \in Shorts BY PageIs
<1> HIDE DEF pg
<1>4. mem \in Memories BY <1>2, <1>3 DEF Memories
<1>5. FreeUnitsOf(pg) \subseteq Offsets BY <1>1, CoveredFacts DEF Exact, FreeUnitsOf
<1>6. \A n \in FreeUnitsOf(pg) : mem[n] = pg.mem[n] BY <1>1, <1>2, <1>5 DEF Memories
<1>7. [pg EXCEPT !.mem[foot] = size] = [pg EXCEPT !.mem = mem] OBVIOUS
<1> HIDE DEF mem
<1>8. Exact([pg EXCEPT !.mem = mem]) /\ FreeUnitsOf([pg EXCEPT !.mem = mem]) = FreeUnitsOf(pg)
  BY <1>1, <1>4, <1>6, HandedOut
<1>9. QED BY <1>7, <1>8 DEF pg

\* call_rcu: the object is held on, and has its footer.
LEMMA Defers ==
  ASSUME SlobInv, NEW t \in Threads, thread[t] = Idle, NEW o \in live, o.cache \in RcuCaches,
         NEW size, size = o.size, NEW foot, foot = Footer(o.at, size),
         page' = [page EXCEPT ![o.page].mem[foot] = size],
         waiting' = waiting \cup {[o |-> o, foot |-> foot]},
         live' = live \ {o}, UNCHANGED <<taken, slab, lists, thread>>
  PROVE  Keeps
<1>1. PICK p, pg : p = o.page /\ pg = page[p] OBVIOUS
<1>2. o \in held /\ held' = held
  <2>1. [o |-> o, foot |-> foot].o = o OBVIOUS
  <2>2. {w.o : w \in waiting'} = {w.o : w \in waiting} \cup {o} BY <2>1
  <2>3. held' = live' \cup {w.o : w \in waiting'} BY DEF held
  <2>4. held = live \cup {w.o : w \in waiting} BY DEF held
  <2>5. QED BY <2>2, <2>3, <2>4
<1>3. o.cache \in Caches /\ o.size = CacheSize(o.cache)
  BY <1>2, SlobSizes DEF SlobInv, AsRequested
<1>4. /\ o \in Objects /\ p \in Pages /\ o.at \in Nat /\ size \in 1 .. PAGE_SIZE
      /\ Units(o) \subseteq Offsets
  <2>1. size \in Nat \ {0} /\ size <= PAGE_SIZE /\ PAGE_SIZE \in Nat BY <1>2, HeldIs, PageIs
  <2>2. QED BY <1>1, <1>2, <2>1, HeldIs
<1>5. foot \in Units(o) /\ foot \in Offsets
  <2>1. PICK c, b : c = o.cache /\ b = o.at OBVIOUS
  <2>2. Footer(b, CacheSize(c)) \in Run(b, SLOB_UNITS(CacheSize(c))) BY <1>4, <2>1, FooterInside
  <2>3. QED BY <1>3, <1>4, <2>1, <2>2 DEF Units
<1>6. page \in [Pages -> PageRecords] /\ pg \in PageRecords BY <1>1, <1>4 DEF SlobInv, Typed
<1> DEFINE after == [pg EXCEPT !.mem[foot] = size]
<1>7. page' = [page EXCEPT ![p] = after] BY <1>1, <1>4, <1>6
<1>8. /\ after.mem = [pg.mem EXCEPT ![foot] = size] /\ pg.mem \in Memories
      /\ after.units = pg.units /\ after.freelist = pg.freelist
  BY <1>6 DEF PageRecords
<1>9. after.mem[foot] = size /\ \A n \in Offsets : n # foot => after.mem[n] = pg.mem[n]
  BY <1>5, <1>8 DEF Memories
<1>10. after \in PageRecords
  <2>1. size \in Shorts BY <1>4, PageIs
  <2>2. [pg.mem EXCEPT ![foot] = size] \in Memories BY <1>8, <2>1 DEF Memories
  <2>3. QED BY <1>6, <1>8, <2>2 DEF PageRecords
<1>11. o.page \in slab => Exact(after) /\ FreeUnitsOf(after) = FreeUnitsOf(pg)
  BY <1>1, <1>2, <1>4, <1>5, FooterWritten
<1> HIDE DEF after
<1>12. /\ page' \in [Pages -> PageRecords]
       /\ page'[p] = after /\ \A q \in Pages : q # p => page'[q] = page[q]
  BY <1>4, <1>6, <1>7, <1>10
<1>13. ThreadsTyped' /\ ArenaThread' = ArenaThread /\ InFlight' = InFlight BY Stands DEF SlobInv
<1>14. Settled' = Settled BY <1>13, SettledAfter DEF Settled
<1>15. PagesExact' /\ ArenaFree' = ArenaFree
  <2>1. CASE p \in slab
    <3>1. p \in Settled BY <1>1, <1>2, <2>1, HeldSettled
    <3>2. Settled' = Settled \cup {p} BY <1>14, <3>1
    <3>3. PagesExact' /\ ArenaFree' = [ArenaFree EXCEPT ![p] = FreeUnitsOf(after)]
      BY <1>1, <1>4, <1>7, <1>11, <2>1, <3>2, PageChanges
    <3>4. ArenaFree[p] = FreeUnitsOf(after) BY <1>1, <1>11, <2>1, <3>1, SettledView
    <3>5. ArenaFree = [q \in Pages |-> IF q \in Settled THEN FreeUnitsOf(page[q]) ELSE {}] BY ArenaFreeIs
    <3>6. ArenaFree = [q \in Pages |-> ArenaFree[q]] BY <3>5
    <3>7. [ArenaFree EXCEPT ![p] = ArenaFree[p]] = ArenaFree BY <3>6
    <3>8. QED BY <3>3, <3>4, <3>7
  <2>2. CASE p \notin slab
    <3>1. p \notin Settled BY <2>2 DEF Settled
    <3>2. Settled \subseteq Pages BY SettledView
    <3>3. \A q \in Settled' : page'[q] = page[q] BY <1>12, <1>14, <3>1, <3>2
    <3>4. PagesExact' /\ ArenaFree' = [q \in Pages |-> IF q \in Settled' THEN ArenaFree[q] ELSE {}]
      BY <1>12, <1>14, <3>3, PagesStay
    <3>5. ArenaFree' = ArenaFree BY <1>14, <3>4, ArenaFreeIs
    <3>6. QED BY <3>4, <3>5
  <2>3. QED BY <2>1, <2>2
<1>16. lists' \in [ListNames -> Seq(Pages)] /\ ListsOnce' /\ ArenaListed' = ArenaListed BY ListsKept
<1>17. ArenaObjects' = ArenaObjects BY <1>2, ImagesKept
<1>18. AsRequested' BY <1>2 DEF SlobInv, AsRequested, CacheSize, PAGE_SIZE
<1>19. OnePerPlace' BY <1>2 DEF SlobInv, OnePerPlace
<1>20. WaitingOnce'
  <2>1. ASSUME NEW w \in waiting'
        PROVE  w.o \notin live' /\ w.o.cache \in RcuCaches /\ w.foot = Footer(w.o.at, w.o.size)
    <3>1. CASE w \in waiting BY <3>1 DEF SlobInv, WaitingOnce
    <3>2. CASE w = [o |-> o, foot |-> foot] BY <3>2
    <3>3. QED BY <3>1, <3>2
  <2>2. QED BY <2>1 DEF WaitingOnce, Footer
<1>21. ASSUME NEW u \in held, NEW n \in Units(u), u # o
       PROVE  page'[u.page].mem[n] = page[u.page].mem[n]
  <2>1. n \in Offsets /\ u.page \in Pages BY HeldIs
  <2>2. CASE u.page = p
    <3>1. Units(u) \cap Units(o) = {} BY <1>1, <1>2, <1>21, <2>2, HeldApart
    <3>2. n # foot BY <1>5, <3>1
    <3>3. QED BY <1>1, <1>9, <1>12, <2>1, <2>2, <3>2
  <2>3. CASE u.page # p BY <1>12, <2>1, <2>3
  <2>4. QED BY <2>2, <2>3
<1>22. SizesIntact'
  <2>1. ASSUME NEW u \in live', u.cache = kmalloc, u.page \in slab'
        PROVE  page'[u.page].mem[u.at] = u.size - KmallocAlign
    <3>1. u \in live /\ u \in held /\ u # o BY DEF held
    <3>2. u.at \in Units(u) BY <3>1, HeldIs
    <3>3. page'[u.page].mem[u.at] = page[u.page].mem[u.at] BY <1>21, <3>1, <3>2
    <3>4. u.page \in slab BY <2>1
    <3>5. QED BY <2>1, <3>1, <3>3, <3>4 DEF SlobInv, SizesIntact
  <2>2. ASSUME NEW w \in waiting' PROVE page'[w.o.page].mem[w.foot] = w.o.size
    <3>1. CASE w \in waiting
      <4>1. w.o \in held /\ w.foot \in Units(w.o) /\ w.o # o
        BY <3>1, FootIs DEF SlobInv, WaitingOnce
      <4>2. page'[w.o.page].mem[w.foot] = page[w.o.page].mem[w.foot] BY <1>21, <4>1
      <4>3. QED BY <3>1, <4>2 DEF SlobInv, SizesIntact
    <3>2. CASE w = [o |-> o, foot |-> foot]
      <4>1. w.o = o /\ w.foot = foot BY <3>2
      <4>2. QED BY <1>1, <1>9, <1>12, <4>1
    <3>3. QED BY <3>1, <3>2
  <2>3. QED BY <2>1, <2>2 DEF SizesIntact, kmalloc
<1>23. live' \subseteq Objects /\ waiting' \subseteq [o : Objects, foot : Offsets]
  <2>1. live \subseteq Objects /\ waiting \subseteq [o : Objects, foot : Offsets] BY DEF SlobInv, Typed
  <2>2. [o |-> o, foot |-> foot] \in [o : Objects, foot : Offsets] BY <1>4, <1>5
  <2>3. QED BY <2>1, <2>2
<1>24. UNCHANGED (AR!vars) BY <1>13, <1>15, <1>16, <1>17 DEF AR!vars
<1>25. QED BY <1>12, <1>13, <1>15, <1>16, <1>18, <1>19, <1>20, <1>22, <1>23, <1>24, Closes

\* kmem_cache_free.
LEMMA CacheFreeIs ==
  ASSUME SlobInv, NEW t \in Threads, kmem_cache_free(t)
  PROVE  Keeps
<1>1. PICK o \in {o \in live : o.cache # kmalloc} :
        /\ live' = live \ {o}
        /\ LET size == CacheSize(o.cache)
               foot == Footer(o.at, size)
           IN  IF o.cache \in RcuCaches
               THEN /\ page' = [page EXCEPT ![o.page].mem[foot] = size]
                    /\ waiting' = waiting \cup {[o |-> o, foot |-> foot]}
                    /\ UNCHANGED <<taken, slab, lists, thread>>
               ELSE /\ __kmem_cache_free(t, o.page, o.at, size)
                    /\ UNCHANGED waiting
  BY DEF kmem_cache_free
<1>2. thread[t] = Idle BY DEF kmem_cache_free
<1>3. o \in live /\ o \in held /\ o.cache \in Caches
  <2>1. o \in Objects BY DEF SlobInv, Typed
  <2>2. QED BY <1>1, <2>1 DEF held, Objects
<1>4. PICK size, b, foot : size = CacheSize(o.cache) /\ b = o.at /\ foot = Footer(o.at, size) OBVIOUS
<1>5. size = o.size BY <1>3, <1>4 DEF SlobInv, AsRequested
<1>6. CASE o.cache \in RcuCaches
  <2>1. /\ page' = [page EXCEPT ![o.page].mem[foot] = size]
        /\ waiting' = waiting \cup {[o |-> o, foot |-> foot]}
        /\ UNCHANGED <<taken, slab, lists, thread>> /\ live' = live \ {o}
    BY <1>1, <1>4, <1>6
  <2>2. QED BY <1>2, <1>3, <1>4, <1>5, <1>6, <2>1, Defers
<1>7. CASE o.cache \notin RcuCaches
  <2>1. __kmem_cache_free(t, o.page, b, size) /\ UNCHANGED waiting /\ live' = live \ {o}
    BY <1>1, <1>4, <1>7
  <2>2. Loses(o) BY <1>3, <2>1, LosesLive
  <2>3. QED BY <1>2, <1>3, <1>4, <1>5, <2>1, <2>2, CacheFrees
<1>8. QED BY <1>6, <1>7

\* A page goes back to the page allocator.
LEMMA ReleasesPage ==
  ASSUME SlobInv, NEW t \in Threads, ReleasePage(t)
  PROVE  Keeps
<1>1. PICK p : p = thread[t].page OBVIOUS
<1>2. /\ thread[t].step = "release" /\ slab' = slab \ {p} /\ taken' = taken \ {p}
      /\ page' = [page EXCEPT ![p] = JunkPage] /\ thread' = [thread EXCEPT ![t] = Idle]
      /\ UNCHANGED <<lists, live, waiting>>
  BY <1>1 DEF ReleasePage
<1>3. ArenaThread[t] = AR!With("release", p) BY <1>1, <1>2, ThreadView DEF SlobInv, Idle
<1>4. /\ p \in Pages /\ p \in InFlight /\ AR!Has(t, p)
      /\ ThreadsTyped' /\ AR!Becomes(t, AR!Idle) /\ InFlight' = InFlight \ {p}
  BY <1>1, <1>2, PutsDown DEF SlobInv, AR!Inv
<1>5. Settled' = Settled BY <1>2, <1>4, SettledAfter DEF Settled
<1>6. p \notin Settled BY <1>4 DEF Settled
<1>7. page \in [Pages -> PageRecords] BY DEF SlobInv, Typed
<1>8. page' \in [Pages -> PageRecords] /\ \A q \in Pages : q # p => page'[q] = page[q]
  BY <1>2, <1>4, <1>7, JunkIs
<1>9. Settled \subseteq Pages BY SettledView
<1>10. \A q \in Settled' : page'[q] = page[q] BY <1>5, <1>6, <1>8, <1>9
<1>11. PagesExact' /\ ArenaFree' = [q \in Pages |-> IF q \in Settled' THEN ArenaFree[q] ELSE {}]
  BY <1>5, <1>8, <1>10, PagesStay
<1>12. ArenaFree' = ArenaFree BY <1>5, <1>11, ArenaFreeIs
<1>13. lists' \in [ListNames -> Seq(Pages)] /\ ListsOnce' /\ ArenaListed' = ArenaListed BY <1>2, ListsKept
<1>14. \A u \in held : u.page # p /\ u.page \in Pages
  <2>1. AR!FlightsApart BY DEF SlobInv, AR!Inv
  <2>2. \A u \in held : Image(u) \in ArenaObjects /\ Image(u).page = u.page /\ u.page \in Pages BY HeldIs
  <2>3. QED BY <1>4, <2>1, <2>2 DEF AR!FlightsApart
<1>15. Kept /\ SlabKept BY <1>2, <1>8, <1>14 DEF Kept, SlabKept
<1>16. /\ AsRequested' /\ OnePerPlace' /\ WaitingOnce' /\ SizesIntact'
       /\ live' \subseteq Objects /\ waiting' \subseteq [o : Objects, foot : Offsets]
  BY <1>2, <1>15, ObjectsLess
<1>17. held' = held BY <1>2 DEF held
<1>18. ArenaObjects' = ArenaObjects BY <1>17, ImagesKept
<1>19. AR!Release(t, p) BY <1>2, <1>3, <1>4, <1>12, <1>13, <1>18 DEF AR!Release
<1>20. AR!Next BY <1>4, <1>19 DEF AR!Next
<1>21. QED BY <1>4, <1>8, <1>11, <1>13, <1>16, <1>20, Closes

--------------------------------------------------------------------------------
\* At the start nothing is held, and no page is taken.
LEMMA SlobInit == Init => SlobInv /\ AR!Init
<1> SUFFICES ASSUME Init PROVE SlobInv /\ AR!Init OBVIOUS
<1>1. held = {} BY DEF Init, held
<1>2. ThreadsTyped BY DEF Init, ThreadsTyped, Doings
<1>3. InFlight = {} /\ Settled = {}
  <2>1. \A t \in Threads : thread[t].step = "idle" BY DEF Init, Idle
  <2>2. InFlight = {} BY <2>1 DEF InFlight
  <2>3. slab = {} BY DEF Init
  <2>4. QED BY <2>2, <2>3 DEF Settled
<1>4. AR!Init
  <2>1. ArenaObjects = {} BY <1>1 DEF ArenaObjects
  <2>2. ArenaFree = [p \in Pages |-> {}] BY <1>3, ArenaFreeIs
  <2>3. ArenaListed = {} BY DEF ArenaListed, Init, ToSet
  <2>4. ArenaThread = [t \in Threads |-> AR!Idle]
    <3>1. \A t \in Threads : ArenaThread[t] = AR!Idle
      <4> SUFFICES ASSUME NEW t \in Threads PROVE ArenaThread[t] = AR!Idle OBVIOUS
      <4>1. thread[t] = Idle BY DEF Init
      <4>2. ArenaThread[t] = Shown(thread[t]) BY <1>2, ThreadView
      <4>3. QED BY <4>1, <4>2, ShownIs
    <3>2. ArenaThread = [t \in Threads |-> ArenaThread[t]] BY DEF ArenaThread
    <3>3. QED BY <3>1, <3>2
  <2>5. QED BY <2>1, <2>2, <2>3, <2>4 DEF AR!Init, Init
<1>5. AR!Inv BY <1>4, Cuts, AR!InvInit
<1>6. page \in [Pages -> PageRecords] BY JunkIs DEF Init
<1>7. lists \in [ListNames -> Seq(Pages)] /\ \A l \in ListNames : lists[l] = <<>> BY DEF Init
<1>8. Typed BY <1>6, <1>7 DEF Init, Typed
<1>9. ListsOnce BY <1>7 DEF ListsOnce, Distinct, ToSet
<1>10. AsRequested /\ OnePerPlace BY <1>1 DEF AsRequested, OnePerPlace
<1>11. WaitingOnce /\ SizesIntact BY DEF Init, WaitingOnce, SizesIntact
<1>12. PagesExact BY <1>3 DEF PagesExact
<1>13. QED BY <1>2, <1>4, <1>5, <1>8, <1>9, <1>10, <1>11, <1>12 DEF SlobInv

\* Nothing happens.
LEMMA SlobStutters == ASSUME SlobInv, UNCHANGED vars PROVE Keeps
<1>1. ThreadsTyped' /\ ArenaThread' = ArenaThread /\ InFlight' = InFlight BY Stands DEF SlobInv, vars
<1>2. UNCHANGED <<page, taken, slab, lists, live, waiting, thread>> BY DEF vars
<1>3. Settled' = Settled BY <1>1, <1>2, SettledAfter DEF Settled
<1>4. page' \in [Pages -> PageRecords] BY <1>2 DEF SlobInv, Typed
<1>5. PagesExact' /\ ArenaFree' = [q \in Pages |-> IF q \in Settled' THEN ArenaFree[q] ELSE {}]
  BY <1>2, <1>3, <1>4, PagesStay
<1>6. ArenaFree' = ArenaFree BY <1>3, <1>5, ArenaFreeIs
<1>7. lists' \in [ListNames -> Seq(Pages)] /\ ListsOnce' /\ ArenaListed' = ArenaListed BY <1>2, ListsKept
<1>8. Kept /\ SlabKept BY <1>2 DEF Kept, SlabKept
<1>9. /\ AsRequested' /\ OnePerPlace' /\ WaitingOnce' /\ SizesIntact'
      /\ live' \subseteq Objects /\ waiting' \subseteq [o : Objects, foot : Offsets]
  BY <1>2, <1>8, ObjectsLess
<1>10. held' = held BY <1>2 DEF held
<1>11. ArenaObjects' = ArenaObjects BY <1>10, ImagesKept
<1>12. UNCHANGED (AR!vars) BY <1>1, <1>2, <1>6, <1>7, <1>11 DEF AR!vars
<1>13. QED BY <1>1, <1>4, <1>5, <1>7, <1>9, <1>12, Closes

\* Every step keeps the invariant, and is a step of SlobArena or none.
LEMMA SlobNext == ASSUME SlobInv, [Next]_vars PROVE Keeps
<1>1. ASSUME NEW t \in Threads, __do_kmalloc_node(t) PROVE Keeps BY <1>1, KmallocIs
<1>2. ASSUME NEW t \in Threads, slob_alloc_node(t) PROVE Keeps BY <1>2, CacheAllocIs
<1>3. ASSUME NEW t \in Threads, slob_new_pages(t) PROVE Keeps BY <1>3, NewPages
<1>4. ASSUME NEW t \in Threads, InstallPage(t) PROVE Keeps BY <1>4, InstallsPage
<1>5. ASSUME NEW t \in Threads, kfree(t) PROVE Keeps BY <1>5, KfreeIs
<1>6. ASSUME NEW t \in Threads, kmem_cache_free(t) PROVE Keeps BY <1>6, CacheFreeIs
<1>7. ASSUME NEW t \in Threads, kmem_rcu_free(t) PROVE Keeps BY <1>7, RcuFreeIs
<1>8. ASSUME NEW t \in Threads, ReleasePage(t) PROVE Keeps BY <1>8, ReleasesPage
<1>9. CASE UNCHANGED vars BY <1>9, SlobStutters
<1>10. QED BY <1>1, <1>2, <1>3, <1>4, <1>5, <1>6, <1>7, <1>8, <1>9 DEF Next

\* The invariant holds.
LEMMA SlobHolds == Spec => []SlobInv
<1>1. Init => SlobInv BY SlobInit
<1>2. SlobInv /\ [Next]_vars => SlobInv' BY SlobNext DEF Keeps
<1>3. QED BY <1>1, <1>2, PTL DEF Spec
--------------------------------------------------------------------------------
(* What holds of the allocator *)

\* What is asked for is typed.
LEMMA RequestsAre == SlobRequests \subseteq Requests
<1> SUFFICES ASSUME NEW req \in SlobRequests PROVE req \in Requests OBVIOUS
<1>1. PAGE_SIZE \in Nat BY PageIs
<1>2. /\ req.size \in 1 .. PAGE_SIZE - 1 /\ req.align \in 0 .. PAGE_SIZE /\ req.cache \in Caches \cup {kmalloc}
      /\ req = Request(req.size, req.align, req.cache)
  BY <1>1, Asked
<1>3. QED BY <1>2 DEF Requests, Request

\* For any pages, threads, sizes, alignments and caches the variables keep their
\* types: sp->units stays between none and the page, and what the free list writes
\* fits an s16 (set_slob, slob_page_alloc, slob_free).
THEOREM TypeCorrect == Spec => []TypeOK
<1>1. SlobInv => TypeOK
  <2> SUFFICES ASSUME SlobInv PROVE TypeOK OBVIOUS
  <2>1. page \in [Pages -> [units : 0 .. PageUnits, freelist : 0 .. PageUnits,
                            mem : [Offsets -> - PageUnits .. PAGE_SIZE]]]
    BY DEF SlobInv, Typed, PageRecords, Memories, Shorts, PAGE_SIZE
  <2>2. slab \subseteq taken /\ taken \subseteq Pages /\ \A l \in ListNames : lists[l] \in Seq(Pages)
    BY DEF SlobInv, Typed
  <2>3. live \subseteq Objects /\ waiting \subseteq [o : Objects, foot : Offsets] BY DEF SlobInv, Typed
  <2>4. \A t \in Threads :
          thread[t] \in {Idle} \cup [step : {"grow"}, req : Requests]
                       \cup [step : {"install"}, req : Requests, page : Pages]
                       \cup [step : {"release"}, page : Pages]
    BY RequestsAre DEF SlobInv, ThreadsTyped, Doings
  <2>5. QED BY <2>1, <2>2, <2>3, <2>4 DEF TypeOK
<1>2. QED BY <1>1, SlobHolds, PTL

\* The invariant, as FreeListExact says it of a page.
LEMMA ListExact ==
  ASSUME SlobInv, NEW p \in Settled
  PROVE  /\ FreeUnitsOf(page[p]) = Offsets \ HeldUnits(p)
         /\ page[p].units = Cardinality(FreeUnitsOf(page[p]))
         /\ \A f, g \in FreeBlocks(page[p]) : f < g => f + slob_units(page[p].mem, f) < g
<1>1. /\ Exact(page[p]) /\ FreeUnitsOf(page[p]) \subseteq Offsets
      /\ \A n \in Offsets : n \in FreeUnitsOf(page[p]) <=> ~ \E o \in held : o.page = p /\ n \in Units(o)
  BY SettledView
<1>2. HeldUnits(p) = UNION {Units(o) : o \in {x \in held : x.page = p}} BY DEF HeldUnits, Units, Run
<1>3. \A n : n \in HeldUnits(p) <=> \E o \in held : o.page = p /\ n \in Units(o) BY <1>2
<1>4. page[p].units = Cardinality(FreeUnitsOf(page[p])) /\ Separate(page[p], FreeBlocks(page[p])) BY <1>1 DEF Exact
<1>5. \A f, g \in FreeBlocks(page[p]) : f < g => f + slob_units(page[p].mem, f) < g
  BY <1>4 DEF Separate, Size
<1>6. FreeUnitsOf(page[p]) = Offsets \ HeldUnits(p) BY <1>1, <1>3
<1>7. QED BY <1>4, <1>5, <1>6

\* slob_free gives back what slob_alloc took, whatever threads do outside the lock:
\* the walk along a free list visits the units that no object has.
THEOREM FreeListsExact == Spec => []FreeListExact
<1>1. SlobInv => FreeListExact
  BY ListExact, FreeUnitsAre DEF FreeListExact
<1>2. QED BY <1>1, SlobHolds, PTL

\* The invariant, as PagesInPlace says it.
LEMMA InPlace == ASSUME SlobInv PROVE ListedIffPartlyFree /\ NoPageLeaks
<1>1. ASSUME NEW p \in Pages
      PROVE  LET places == UNION {{l} \X {i \in DOMAIN lists[l] : lists[l][i] = p} : l \in ListNames}
             IN  Cardinality(places) = IF p \in Settled /\ page[p].units \in 1 .. PageUnits - 1 THEN 1 ELSE 0
  <2> DEFINE At(l) == {i \in DOMAIN lists[l] : lists[l][i] = p}
             places == UNION {{l} \X At(l) : l \in ListNames}
  <2>1. p \in ArenaListed <=> p \in Settled /\ page[p].units \in 1 .. PageUnits - 1
    <3>1. p \in ArenaListed => p \in Settled
      BY InFlightView DEF SlobInv, AR!Inv, AR!ListedIffPartlyFree
    <3>2. ASSUME p \in Settled PROVE p \in ArenaListed <=> page[p].units \in 1 .. PageUnits - 1
      <4>1. /\ Exact(page[p]) /\ FreeUnitsOf(page[p]) # Offsets
            /\ p \in ArenaListed <=> FreeUnitsOf(page[p]) # {}
        BY <3>2, SettledView
      <4> DEFINE pg == page[p]
      <4> HIDE DEF pg
      <4>2. /\ pg.units = 0 <=> FreeUnitsOf(pg) = {}
            /\ pg.units = PageUnits <=> FreeUnitsOf(pg) = Offsets
            /\ pg.units \in 0 .. PageUnits
        BY <4>1, CountTells DEF pg
      <4> DEFINE n == pg.units
      <4>3. n \in 0 .. PageUnits /\ n # PageUnits /\ PageUnits \in Nat BY <4>1, <4>2, Sizes DEF pg
      <4>4. p \in ArenaListed <=> n # 0 BY <4>1, <4>2 DEF pg
      <4> HIDE DEF n
      <4>5. n \in 1 .. PageUnits - 1 <=> n # 0 BY <4>3
      <4>6. QED BY <4>4, <4>5 DEF n, pg
    <3>3. QED BY <3>1, <3>2
  <2>2. CASE p \in ArenaListed
    <3>1. PICK l \in ListNames : p \in ToSet(lists[l]) BY <2>2 DEF ArenaListed
    <3>2. PICK i \in DOMAIN lists[l] : lists[l][i] = p BY <3>1 DEF ToSet
    <3>3. \A m \in ListNames : m # l => p \notin ToSet(lists[m]) BY <3>1 DEF SlobInv, ListsOnce
    <3>4. \A m \in ListNames : m # l => At(m) = {} BY <3>3, ListedView
    <3>5. Distinct(lists[l]) BY DEF SlobInv, ListsOnce
    <3>6. At(l) = {i} BY <3>2, <3>5 DEF Distinct
    <3>7. places = {<<l, i>>}
      <4>1. {l} \X At(l) = {<<l, i>>} BY <3>6
      <4>2. \A m \in ListNames : m # l => {m} \X At(m) = {} BY <3>4
      <4> HIDE DEF At
      <4>3. places = {l} \X At(l) BY <4>2
      <4>4. QED BY <4>1, <4>3
    <3> HIDE DEF places
    <3>8. Cardinality(places) = 1 BY <3>7, FS_Singleton
    <3>9. QED BY <2>1, <2>2, <3>8 DEF places
  <2>3. CASE p \notin ArenaListed
    <3>1. \A m \in ListNames : p \notin ToSet(lists[m]) BY <2>3 DEF ArenaListed
    <3>2. \A m \in ListNames : At(m) = {} BY <3>1, ListedView
    <3>3. \A m \in ListNames : {m} \X At(m) = {} BY <3>2
    <3>4. places = {} BY <3>3
    <3> HIDE DEF places
    <3>5. Cardinality(places) = 0 BY <3>4, FS_EmptySet
    <3>6. QED BY <2>1, <2>3, <3>5 DEF places
  <2>4. QED BY <2>2, <2>3
<1>2. ListedIffPartlyFree BY <1>1 DEF ListedIffPartlyFree
<1>3. NoPageLeaks
  <2>1. taken = {x.page : x \in ArenaObjects} \cup AR!InFlight BY DEF SlobInv, AR!Inv, AR!NoPageLeaks
  <2>2. {x.page : x \in ArenaObjects} = {o.page : o \in held}
    <3>1. \A o \in held : Image(o) \in ArenaObjects /\ Image(o).page = o.page BY HeldIs
    <3>2. \A x \in ArenaObjects : \E o \in held : x = Image(o) BY Images
    <3>3. QED BY <3>1, <3>2
  <2>3. InFlight = AR!InFlight BY InFlightView DEF SlobInv
  <2>4. QED BY <2>1, <2>2, <2>3 DEF NoPageLeaks
<1>4. QED BY <1>2, <1>3

\* Every partly free page is on one list and once, and the page allocator has out
\* the pages in use and no others.
THEOREM PagesAreInPlace == Spec => []PagesInPlace
<1>1. SlobInv => PagesInPlace BY InPlace DEF PagesInPlace
<1>2. QED BY <1>1, SlobHolds, PTL

\* BUG_ON(!b), slob.c:408: slob_alloc finds room in the page it has just got.
THEOREM NoBugOn == Spec => []NoBug
<1>1. SlobInv => NoBug
  <2> SUFFICES ASSUME SlobInv, NEW t \in Threads, thread[t].step = "install"
               PROVE  slob_page_alloc(FreshPage, thread[t].req.size, thread[t].req.align).block # NULL
    BY DEF NoBug
  <2>1. PICK size, align : size = thread[t].req.size /\ align = thread[t].req.align OBVIOUS
  <2>2. thread[t].req \in SlobRequests BY ThreadView DEF SlobInv, Idle
  <2>3. size \in Nat \ {0} /\ size < PAGE_SIZE /\ align \in Nat BY <2>1, <2>2, Asked
  <2>4. size <= PageUnits * SLOB_UNIT BY <2>3, PageIs
  <2>5. slob_page_alloc(FreshPage, size, align).block # NULL BY <2>3, <2>4, FreshHasRoom
  <2>6. QED BY <2>1, <2>5
<1>2. QED BY <1>1, SlobHolds, PTL

\* The sizes that kfree and kmem_rcu_free read back are those that were written.
THEOREM SizesStay == Spec => []SizesIntact
<1>1. SlobInv => SizesIntact BY DEF SlobInv
<1>2. QED BY <1>1, SlobHolds, PTL

\* SlobArenaProofs says of itself what SlobArena says.
LEMMA ArenaSame ==
  /\ AR!Init => Arena!Init
  /\ [AR!Next]_(AR!vars) => [Arena!Next]_(Arena!vars)
BY DEF AR!Init, Arena!Init, AR!Idle, Arena!Idle, AR!Next, Arena!Next, AR!vars, Arena!vars,
       AR!Grow, Arena!Grow, AR!NoPage, Arena!NoPage, AR!Alloc, Arena!Alloc, AR!Install, Arena!Install,
       AR!AllocPage, Arena!AllocPage, AR!FreePage, Arena!FreePage, AR!Free, Arena!Free,
       AR!FreeLast, Arena!FreeLast, AR!TakePage, Arena!TakePage, AR!Release, Arena!Release,
       AR!Objects, Arena!Objects, AR!Offsets, Arena!Offsets, AR!UnitsOf, Arena!UnitsOf,
       AR!Growing, Arena!Growing, AR!With, Arena!With, AR!Becomes, Arena!Becomes

\* The lists threaded through memory do what sets of free units would: every step of
\* the allocator is one of SlobArena, or none.
THEOREM MemoryIsArena == Spec => ImplementsArena
<1>1. Init => Arena!Init BY SlobInit, ArenaSame
<1>2. SlobInv /\ [Next]_vars => [Arena!Next]_(Arena!vars) BY SlobNext, ArenaSame DEF Keeps
<1>3. QED BY <1>1, <1>2, SlobHolds, PTL DEF Spec, ImplementsArena, Arena!Spec

\* So callers see a heap: what is given out shares no memory with what is held, and
\* is theirs until they give it back.
THEOREM CallersSeeAHeap == Spec => AR!ImplementsHeap
<1>1. Init => AR!Init BY SlobInit
<1>2. SlobInv /\ [Next]_vars => [AR!Next]_(AR!vars) BY SlobNext DEF Keeps
<1>3. Spec => AR!Spec BY <1>1, <1>2, SlobHolds, PTL DEF Spec, AR!Spec
<1>4. AR!Spec => AR!ImplementsHeap BY Cuts, AR!ArenaIsHeap
<1>5. QED BY <1>3, <1>4
--------------------------------------------------------------------------------
(* First fit *)

\* A page on a list that could serve a request is one of those that have enough.
LEMMA CouldServe ==
  ASSUME SlobInv, NEW req \in SlobRequests, NEW l \in ListNames, NEW p \in ToSet(lists[l]), Fits(p, req)
  PROVE  \E i \in Enough(l, req) : lists[l][i] = p
<1>1. PICK i \in DOMAIN lists[l] : lists[l][i] = p BY DEF ToSet
<1>2. PICK pg, size, align : pg = page[p] /\ size = req.size /\ align = req.align OBVIOUS
<1>3. Exact(pg) BY <1>1, <1>2, ListCounts
<1>4. size \in Nat \ {0} /\ align \in Nat BY <1>2, Asked
<1>5. slob_page_alloc(pg, size, align).block # NULL BY <1>2 DEF Fits
<1>6. pg.units >= SLOB_UNITS(size) BY <1>3, <1>4, <1>5, RoomIsCounted
<1>7. i \in Enough(l, req) BY <1>1, <1>2, <1>6 DEF Enough
<1>8. QED BY <1>1, <1>7

\* Who goes for a page.
LEMMA GrowsAlone ==
  ASSUME SlobInv, [Next]_vars, NEW t \in Threads, thread[t] = Idle, thread'[t].step = "grow"
  PROVE  \E req \in SlobRequests :
           slob_alloc(t, req) /\ Found(ListOf(req.size), req) = {} /\ thread'[t].req = req
<1>1. thread \in [Threads -> Doings] BY DEF SlobInv, ThreadsTyped
<1>2. thread[t].step = "idle" BY DEF Idle
<1>3. ~ UNCHANGED vars BY <1>2 DEF vars
<1>4. PICK z \in Threads :
        \/ __do_kmalloc_node(z) \/ slob_alloc_node(z)
        \/ slob_new_pages(z) \/ InstallPage(z)
        \/ kfree(z) \/ kmem_cache_free(z) \/ kmem_rcu_free(z)
        \/ ReleasePage(z)
  BY <1>3 DEF Next
<1>5. ASSUME NEW req \in SlobRequests, slob_alloc(z, req)
      PROVE  z = t /\ Found(ListOf(req.size), req) = {} /\ thread'[t].req = req
  <2>1. CASE Found(ListOf(req.size), req) = {}
    <3>1. thread' = [thread EXCEPT ![z] = [step |-> "grow", req |-> req]]
      BY <1>5, <2>1 DEF slob_alloc, Found
    <3>2. z = t BY <1>1, <1>2, <3>1
    <3>3. QED BY <1>1, <2>1, <3>1, <3>2
  <2>2. CASE Found(ListOf(req.size), req) # {}
    <3>1. thread' = thread BY <1>5, <2>2 DEF slob_alloc, Found
    <3>2. QED BY <1>2, <3>1
  <2>3. QED BY <2>1, <2>2
<1>6. CASE \E req \in SlobRequests : slob_alloc(z, req) BY <1>5, <1>6
<1>7. ASSUME \/ thread' = thread
             \/ \E d : d.step # "grow" /\ thread' = [thread EXCEPT ![z] = d]
      PROVE  FALSE
  BY <1>1, <1>2, <1>7
<1>8. Idle.step # "grow" BY DEF Idle
<1>9. ASSUME NEW p, NEW b, NEW size, slob_free(z, p, b, size) PROVE FALSE
  <2>1. [step |-> "release", page |-> p].step # "grow" OBVIOUS
  <2>2. QED BY <1>7, <1>9, <2>1 DEF slob_free
<1>10. ASSUME NEW p, NEW b, NEW size, __kmem_cache_free(z, p, b, size) PROVE FALSE
  BY <1>7, <1>9, <1>10 DEF __kmem_cache_free, PageFree
<1>11. ASSUME NEW c, NEW size, PageAlloc(z, c, size) PROVE FALSE BY <1>7, <1>11 DEF PageAlloc
<1>12. CASE __do_kmalloc_node(z)
  <2>1. \E req \in SlobRequests : slob_alloc(z, req) BY <1>11, <1>12 DEF __do_kmalloc_node, SlobRequests
  <2>2. QED BY <1>6, <2>1
<1>13. CASE slob_alloc_node(z)
  <2>1. \E req \in SlobRequests : slob_alloc(z, req) BY <1>11, <1>13 DEF slob_alloc_node, SlobRequests
  <2>2. QED BY <1>6, <2>1
<1>14. CASE slob_new_pages(z)
  <2>1. thread[z].step = "grow" BY <1>14 DEF slob_new_pages
  <2>2. z # t BY <1>2, <2>1
  <2>3. thread'[t] = thread[t] BY <1>1, <1>14, <2>2 DEF slob_new_pages
  <2>4. QED BY <1>2, <2>3
<1>15. CASE InstallPage(z) BY <1>7, <1>8, <1>15 DEF InstallPage
<1>16. CASE kfree(z) BY <1>7, <1>9, <1>16 DEF kfree, PageFree
<1>17. CASE kmem_cache_free(z) BY <1>7, <1>10, <1>17 DEF kmem_cache_free
<1>18. CASE kmem_rcu_free(z) BY <1>10, <1>18 DEF kmem_rcu_free
<1>19. CASE ReleasePage(z) BY <1>7, <1>8, <1>19 DEF ReleasePage
<1>20. QED BY <1>4, <1>12, <1>13, <1>14, <1>15, <1>16, <1>17, <1>18, <1>19

\* NoNeedlessGrowth, of a step.
GrowsOnNeed ==
  \A t \in Threads :
    thread[t] = Idle /\ thread'[t].step = "grow" =>
      LET req == thread'[t].req IN
      \A p \in ToSet(lists[ListOf(req.size)]) : ~Fits(p, req)

\* A4OldFiles: the search goes through all of its list, and the lock is dropped for a
\* new page only if no page there could serve.
THEOREM FirstFitGrowsOnNeed == ASSUME ~BestFit PROVE Spec => NoNeedlessGrowth
<1>1. ASSUME SlobInv, [Next]_vars, NEW t \in Threads, thread[t] = Idle, thread'[t].step = "grow",
             NEW p \in ToSet(lists[ListOf(thread'[t].req.size)]), Fits(p, thread'[t].req)
      PROVE  FALSE
  <2>1. PICK req \in SlobRequests : Found(ListOf(req.size), req) = {} /\ thread'[t].req = req
    BY <1>1, GrowsAlone
  <2>2. PICK l : l = ListOf(req.size) OBVIOUS
  <2>3. l \in ListNames BY <2>2 DEF ListOf, ListNames
  <2>4. p \in ToSet(lists[l]) /\ Fits(p, req) BY <1>1, <2>1, <2>2
  <2>5. PICK i \in Enough(l, req) : lists[l][i] = p BY <1>1, <2>3, <2>4, CouldServe
  <2>6. i \in Tried(l, req) BY <1>1, <2>3, <2>5, TriedAre
  <2>7. i \in Found(l, req) BY <2>4, <2>5, <2>6 DEF Found
  <2>8. QED BY <2>1, <2>2, <2>7
<1>2. SlobInv /\ [Next]_vars => GrowsOnNeed BY <1>1 DEF GrowsOnNeed
<1>3. Spec => [][GrowsOnNeed]_vars BY <1>2, SlobHolds, PTL DEF Spec
<1>4. QED BY <1>3 DEF NoNeedlessGrowth, GrowsOnNeed
--------------------------------------------------------------------------------
(* Best fit, and the counters as watchers *)

\* Where an object comes from that is in a page already in use.
LEMMA ServedFromList ==
  ASSUME SlobInv, [Next]_vars, NEW o \in live' \ live, o.page \in Settled
  PROVE  \E req \in SlobRequests : \E i \in Tried(ListOf(req.size), req) :
           o.page = lists[ListOf(req.size)][i] /\ o.size = req.size /\ o.cache = req.cache
<1>1. ~ UNCHANGED vars BY DEF vars
<1>2. PICK z \in Threads :
        \/ __do_kmalloc_node(z) \/ slob_alloc_node(z)
        \/ slob_new_pages(z) \/ InstallPage(z)
        \/ kfree(z) \/ kmem_cache_free(z) \/ kmem_rcu_free(z)
        \/ ReleasePage(z)
  BY <1>1 DEF Next
<1> DEFINE Goal == \E req \in SlobRequests : \E i \in Tried(ListOf(req.size), req) :
                     o.page = lists[ListOf(req.size)][i] /\ o.size = req.size /\ o.cache = req.cache
<1>3. ASSUME NEW req \in SlobRequests, slob_alloc(z, req) PROVE Goal
  <2>1. PICK l : l = ListOf(req.size) OBVIOUS
  <2>2. l \in ListNames BY <2>1 DEF ListOf, ListNames
  <2>3. Found(l, req) = {j \in Tried(l, req) : Fits(lists[l][j], req)} BY DEF Found
  <2>4. Found(l, req) # {} BY <1>3, <2>1, <2>3 DEF slob_alloc
  <2>5. PICK i, p, a : /\ i = Min(Found(l, req)) /\ p = lists[l][i]
                       /\ a = slob_page_alloc(page[p], req.size, req.align)
    OBVIOUS
  <2>6. i \in Tried(l, req) BY <2>2, <2>3, <2>4, <2>5, FoundIs
  <2>7. live' = live \cup {Object(p, a.block, req)}
    BY <1>3, <2>1, <2>3, <2>4, <2>5 DEF slob_alloc
  <2>8. o = Object(p, a.block, req) BY <2>7
  <2>9. o.page = p /\ o.size = req.size /\ o.cache = req.cache BY <2>8 DEF Object
  <2>10. QED BY <2>1, <2>5, <2>6, <2>9
<1>4. ASSUME NEW c, NEW size, PageAlloc(z, c, size) PROVE FALSE
  <2>1. PICK p \in Pages \ taken : live' = live \cup {Object(p, 0, Request(size, 0, c))} BY <1>4 DEF PageAlloc
  <2>2. o.page = p BY <2>1 DEF Object
  <2>3. p \notin Settled BY DEF Settled, SlobInv, Typed
  <2>4. QED BY <2>2, <2>3
<1>5. CASE __do_kmalloc_node(z)
  <2>1. \E req \in SlobRequests : slob_alloc(z, req) BY <1>4, <1>5 DEF __do_kmalloc_node, SlobRequests
  <2>2. QED BY <1>3, <2>1
<1>6. CASE slob_alloc_node(z)
  <2>1. \E req \in SlobRequests : slob_alloc(z, req) BY <1>4, <1>6 DEF slob_alloc_node, SlobRequests
  <2>2. QED BY <1>3, <2>1
<1>7. CASE InstallPage(z)
  <2>1. /\ thread[z].step = "install"
        /\ \E at, req : live' = live \cup {Object(thread[z].page, at, req)}
    BY <1>7 DEF InstallPage
  <2>2. PICK at, req : live' = live \cup {Object(thread[z].page, at, req)} BY <2>1
  <2>3. o.page = thread[z].page BY <2>2 DEF Object
  <2>4. thread[z].page \in InFlight BY <2>1 DEF InFlight
  <2>5. QED BY <2>3, <2>4 DEF Settled
<1>8. CASE slob_new_pages(z) \/ ReleasePage(z) BY <1>8 DEF slob_new_pages, ReleasePage
<1>9. CASE kfree(z) BY <1>9 DEF kfree
<1>10. CASE kmem_cache_free(z) BY <1>10 DEF kmem_cache_free
<1>11. CASE kmem_rcu_free(z) BY <1>11 DEF kmem_rcu_free
<1>12. QED BY <1>2, <1>5, <1>6, <1>7, <1>8, <1>9, <1>10, <1>11

\* SmallestPageServes, of a step.
SmallestServes ==
  \A o \in live' \ live :
    o.page \in Settled =>
      LET req == Request(o.size, IF o.cache = kmalloc THEN KmallocAlign
                                 ELSE CacheAlign[o.cache], o.cache)
      IN  \A p \in ToSet(lists[ListOf(o.size)]) :
            Fits(p, req) => page[o.page].units <= page[p].units

\* With best fit, the position that was tried is one with the fewest.
LEMMA SmallestIs ==
  ASSUME BestFit, SlobInv, [Next]_vars, NEW o \in live' \ live, o.page \in Settled,
         NEW asked, asked = Request(o.size, IF o.cache = kmalloc THEN KmallocAlign
                                            ELSE CacheAlign[o.cache], o.cache),
         NEW p \in ToSet(lists[ListOf(o.size)]), Fits(p, asked)
  PROVE  page[o.page].units <= page[p].units
<1>1. PICK req \in SlobRequests : \E i \in Tried(ListOf(req.size), req) :
        o.page = lists[ListOf(req.size)][i] /\ o.size = req.size /\ o.cache = req.cache
  BY ServedFromList
<1>2. PICK l : l = ListOf(req.size) OBVIOUS
<1>3. l \in ListNames BY <1>2 DEF ListOf, ListNames
<1>4. PICK i \in Tried(l, req) : o.page = lists[l][i] /\ o.size = req.size /\ o.cache = req.cache
  BY <1>1, <1>2
<1>5. asked = req BY <1>4, Asked
<1>6. p \in ToSet(lists[l]) /\ Fits(p, req) BY <1>2, <1>4, <1>5
<1>7. PICK j \in Enough(l, req) : lists[l][j] = p BY <1>3, <1>6, CouldServe
<1>8. page[lists[l][i]].units <= page[lists[l][j]].units BY <1>3, TriedAre
<1>9. QED BY <1>4, <1>7, <1>8

\* A4NewFiles: an object in a page already in use is in one with the fewest free units
\* of those that could serve it.
THEOREM BestFitServesSmallest == ASSUME BestFit PROVE Spec => SmallestPageServes
<1>1. SlobInv /\ [Next]_vars => SmallestServes BY SmallestIs DEF SmallestServes
<1>2. Spec => [][SmallestServes]_vars BY <1>1, SlobHolds, PTL DEF Spec
<1>3. QED BY <1>2 DEF SmallestPageServes, SmallestServes
--------------------------------------------------------------------------------
\* The counters only watch.
LEMMA RequestsServed ==
  ASSUME NEW t, NEW req \in SlobRequests, slob_alloc(t, req)
  PROVE  __do_kmalloc_node(t) \/ slob_alloc_node(t)
BY DEF SlobRequests, __do_kmalloc_node, slob_alloc_node

\* A step with the counters is one of the allocator, or none.
LEMMA CStepIs == ASSUME [CNext]_allVars PROVE [Next]_vars
<1>1. CASE UNCHANGED allVars BY <1>1 DEF allVars
<1>2. ASSUME NEW t \in Threads, ResetUnits(t) \/ ReadCount(t) \/ WriteCount(t) PROVE UNCHANGED vars
  BY <1>2 DEF ResetUnits, ReadCount, WriteCount
<1>3. ASSUME NEW t \in Threads, Search(t) PROVE Next
  <2>1. PICK req \in SlobRequests : slob_alloc(t, req) BY <1>3 DEF Search
  <2>2. __do_kmalloc_node(t) \/ slob_alloc_node(t) BY <2>1, RequestsServed
  <2>3. QED BY <2>2 DEF Next
<1>4. ASSUME NEW t \in Threads, Grow(t) \/ Install(t) \/ Release(t) PROVE Next
  BY <1>4 DEF Grow, Install, Release, Next
<1>5. ASSUME NEW t \in Threads, Uncounted(t) PROVE Next
  <2>1. CASE \E size \in KmallocSizes : ~FitsInAPage(size) /\ PageAlloc(t, kmalloc, size)
    <3>1. __do_kmalloc_node(t) BY <2>1 DEF __do_kmalloc_node
    <3>2. QED BY <3>1 DEF Next
  <2>2. CASE \E c \in Caches : CacheSize(c) >= PAGE_SIZE /\ PageAlloc(t, c, CacheSize(c))
    <3>1. PICK c \in Caches : CacheSize(c) >= PAGE_SIZE /\ PageAlloc(t, c, CacheSize(c)) BY <2>2
    <3>2. CacheSize(c) \in 1 .. PAGE_SIZE /\ PAGE_SIZE \in Nat BY SlobSizes, PageIs
    <3>3. ~(CacheSize(c) < PAGE_SIZE) BY <3>1, <3>2
    <3>4. slob_alloc_node(t) BY <3>1, <3>3 DEF slob_alloc_node
    <3>5. QED BY <3>4 DEF Next
  <2>3. CASE kfree(t) \/ kmem_cache_free(t) \/ kmem_rcu_free(t) BY <2>3 DEF Next
  <2>4. QED BY <1>5, <2>1, <2>2, <2>3 DEF Uncounted
<1>6. QED BY <1>1, <1>2, <1>3, <1>4, <1>5 DEF CNext

\* What is proved of the allocator holds of it with the counters of the assignment.
THEOREM CountersOnlyWatch == CSpec => Spec
<1>1. CInit => Init BY DEF CInit
<1>2. [CNext]_allVars => [Next]_vars BY CStepIs
<1>3. QED BY <1>1, <1>2, PTL DEF CSpec, Spec
--------------------------------------------------------------------------------
(* The count of pages *)

\* What a thread can have to do with the counters.
Countings == {Not, Entered} \cup {Reads(by) : by \in {1, -1}}
             \cup {Writes(by, read) : by \in {1, -1}, read \in Int}

\* What a thread has yet to add to pageCount.
Due(counts) == IF counts.at \in {"reads", "writes"} THEN counts.by ELSE 0
\* A page that it has marked and not counted.
Taking(does) == IF does.step = "install" THEN 1 ELSE 0

\* The types.
CountTyped == /\ counting \in [Threads -> Countings]
              /\ pageCount \in Int /\ IsFiniteSet(slab)

\* pageCount is right but for what the thread has yet to add.
CountExact(u) == /\ counting[u].at = "writes" => counting[u].read = pageCount
                 /\ Cardinality(slab) = pageCount + Due(counting[u]) + Taking(thread[u])

\* The invariant of the counts.
CountInv(u) == CountTyped /\ CountExact(u)

\* The values of counting, and what is due.
LEMMA CountingIs ==
  /\ Not.at = "no" /\ Due(Not) = 0 /\ Not \in Countings
  /\ Entered.at = "entered" /\ Due(Entered) = 0 /\ Entered \in Countings
  /\ \A by \in {1, -1} : /\ Reads(by).at = "reads" /\ Reads(by).by = by
                         /\ Due(Reads(by)) = by /\ Reads(by) \in Countings
  /\ \A by \in {1, -1}, read \in Int :
        /\ Writes(by, read).at = "writes" /\ Writes(by, read).by = by /\ Writes(by, read).read = read
        /\ Due(Writes(by, read)) = by /\ Writes(by, read) \in Countings
<1>1. /\ Not.at = "no" /\ Due(Not) = 0 /\ Not \in Countings
      /\ Entered.at = "entered" /\ Due(Entered) = 0 /\ Entered \in Countings
  BY DEF Not, Entered, Due, Countings
<1>2. \A by \in {1, -1} : /\ Reads(by).at = "reads" /\ Reads(by).by = by /\ Due(Reads(by)) = by
  BY DEF Reads, Due
<1>3. \A by \in {1, -1} : Reads(by) \in Countings BY DEF Countings
<1>4. \A by, read : /\ Writes(by, read).at = "writes" /\ Writes(by, read).by = by
                    /\ Writes(by, read).read = read /\ Due(Writes(by, read)) = by
  BY DEF Writes, Due
<1>5. \A by \in {1, -1}, read \in Int : Writes(by, read) \in Countings BY DEF Countings
<1>6. QED BY <1>1, <1>2, <1>3, <1>4, <1>5

\* A thread has one of them.
LEMMA CountingOf ==
  ASSUME CountTyped, NEW u \in Threads
  PROVE  \/ counting[u] = Not \/ counting[u] = Entered
         \/ \E by \in {1, -1} : counting[u] = Reads(by)
         \/ \E by \in {1, -1}, read \in Int : counting[u] = Writes(by, read)
BY DEF CountTyped, Countings

\* Only on the way to InstallPage is a page marked and not counted.
LEMMA TakingIs ==
  /\ Taking(Idle) = 0
  /\ \A req : Taking([step |-> "grow", req |-> req]) = 0
  /\ \A req, p : Taking([step |-> "install", req |-> req, page |-> p]) = 1
  /\ \A p : Taking([step |-> "release", page |-> p]) = 0
BY DEF Taking, Idle

\* A thread goes on to something else, and the pages with PG_slab stay.
LEMMA NotTaking ==
  ASSUME SlobInv, NEW u \in Threads, thread[u] = Idle, NEW d,
         thread' = [thread EXCEPT ![u] = d], Taking(d) = 0
  PROVE  Taking(thread'[u]) = Taking(thread[u])
BY TakingIs DEF SlobInv, ThreadsTyped

\* A search takes no page.
LEMMA SearchTakes ==
  ASSUME SlobInv, NEW u \in Threads, NEW req, slob_alloc(u, req)
  PROVE  slab' = slab /\ Taking(thread'[u]) = Taking(thread[u])
<1>1. thread[u] = Idle /\ slab' = slab BY DEF slob_alloc
<1>2. thread' = thread \/ thread' = [thread EXCEPT ![u] = [step |-> "grow", req |-> req]] BY DEF slob_alloc
<1>3. QED BY <1>1, <1>2, NotTaking, TakingIs

\* slob_free returns none.
LEMMA FreeTakes ==
  ASSUME SlobInv, NEW u \in Threads, thread[u] = Idle, NEW p, NEW b, NEW size, slob_free(u, p, b, size)
  PROVE  slab' = slab /\ Taking(thread'[u]) = Taking(thread[u])
<1>1. slab' = slab BY DEF slob_free
<1>2. thread' = thread \/ thread' = [thread EXCEPT ![u] = [step |-> "release", page |-> p]] BY DEF slob_free
<1>3. QED BY <1>1, <1>2, NotTaking, TakingIs

\* Nor does __kmem_cache_free.
LEMMA CacheFreeTakes ==
  ASSUME SlobInv, NEW u \in Threads, thread[u] = Idle, NEW p, NEW b, NEW size, __kmem_cache_free(u, p, b, size)
  PROVE  slab' = slab /\ Taking(thread'[u]) = Taking(thread[u])
<1>1. CASE size < PAGE_SIZE BY <1>1, FreeTakes DEF __kmem_cache_free
<1>2. CASE ~(size < PAGE_SIZE) BY <1>2 DEF __kmem_cache_free, PageFree
<1>3. QED BY <1>1, <1>2

\* Nor does what leaves the counters alone.
LEMMA UncountedTakes ==
  ASSUME SlobInv, NEW u \in Threads, Uncounted(u)
  PROVE  slab' = slab /\ Taking(thread'[u]) = Taking(thread[u])
<1>1. ASSUME NEW c, NEW size, PageAlloc(u, c, size) PROVE slab' = slab /\ thread' = thread
  BY <1>1 DEF PageAlloc
<1>2. CASE kfree(u)
  <2>1. thread[u] = Idle BY <1>2 DEF kfree
  <2>2. \/ \E p, b, size : slob_free(u, p, b, size)
        \/ \E p : PageFree(p)
    BY <1>2 DEF kfree
  <2>3. QED BY <2>1, <2>2, FreeTakes DEF PageFree
<1>3. CASE kmem_cache_free(u)
  <2>1. thread[u] = Idle BY <1>3 DEF kmem_cache_free
  <2>2. \/ \E p, b, size : __kmem_cache_free(u, p, b, size)
        \/ UNCHANGED <<taken, slab, lists, thread>>
    BY <1>3 DEF kmem_cache_free
  <2>3. QED BY <2>1, <2>2, CacheFreeTakes
<1>4. CASE kmem_rcu_free(u)
  <2>1. thread[u] = Idle BY <1>4 DEF kmem_rcu_free
  <2>2. \E p, b, size : __kmem_cache_free(u, p, b, size) BY <1>4 DEF kmem_rcu_free
  <2>3. QED BY <2>1, <2>2, CacheFreeTakes
<1>5. QED BY <1>1, <1>2, <1>3, <1>4 DEF Uncounted

\* The counters and what they count stay.
LEMMA CountStays ==
  ASSUME NEW u \in Threads, CountInv(u), UNCHANGED <<counting, pageCount>>,
         slab' = slab, Taking(thread'[u]) = Taking(thread[u])
  PROVE  CountInv(u)'
BY DEF CountInv, CountTyped, CountExact

\* A thread has something else to do with the counters.
LEMMA CountingMoves ==
  ASSUME CountTyped, NEW u \in Threads, NEW what \in Countings, Becomes(u, what)
  PROVE  counting' \in [Threads -> Countings] /\ counting'[u] = what
BY DEF CountTyped, Becomes

\* ResetUnits.
LEMMA ResetKeeps == ASSUME NEW u \in Threads, CountInv(u), ResetUnits(u) PROVE CountInv(u)'
<1>1. counting[u] = Not /\ UNCHANGED <<slab, thread, pageCount>> BY DEF ResetUnits, vars
<1>2. counting' \in [Threads -> Countings] /\ counting'[u] = Entered BY CountingIs, CountingMoves DEF ResetUnits, CountInv
<1>3. Due(counting'[u]) = Due(counting[u]) /\ counting'[u].at # "writes" BY <1>1, <1>2, CountingIs
<1>4. QED BY <1>1, <1>2, <1>3 DEF CountInv, CountTyped, CountExact

\* Search.
LEMMA SearchKeeps == ASSUME SlobInv, NEW u \in Threads, CountInv(u), Search(u) PROVE CountInv(u)'
<1>1. counting[u] = Entered /\ pageCount' = pageCount BY DEF Search
<1>2. slab' = slab /\ Taking(thread'[u]) = Taking(thread[u]) BY SearchTakes DEF Search
<1>3. counting' \in [Threads -> Countings] /\ counting'[u] = Not BY CountingIs, CountingMoves DEF Search, CountInv
<1>4. Due(counting'[u]) = Due(counting[u]) /\ counting'[u].at # "writes" BY <1>1, <1>3, CountingIs
<1>5. QED BY <1>1, <1>2, <1>3, <1>4 DEF CountInv, CountTyped, CountExact

\* Grow: the page is marked, and due.
LEMMA GrowKeeps == ASSUME SlobInv, NEW u \in Threads, CountInv(u), Grow(u) PROVE CountInv(u)'
<1>1. thread[u].step = "grow" /\ UNCHANGED <<counting, pageCount>> BY DEF Grow, slob_new_pages, counters
<1>2. Taking(thread[u]) = 0 BY <1>1 DEF Taking
<1>3. CASE thread' = [thread EXCEPT ![u] = Idle] /\ slab' = slab
  <2>1. thread'[u] = Idle BY <1>3 DEF SlobInv, ThreadsTyped
  <2>2. QED BY <1>1, <1>2, <1>3, <2>1, TakingIs, CountStays
<1>4. ASSUME NEW p \in Pages \ taken, slab' = slab \cup {p},
             thread' = [thread EXCEPT ![u] = [step |-> "install", req |-> thread[u].req, page |-> p]]
      PROVE  CountInv(u)'
  <2>1. thread'[u] = [step |-> "install", req |-> thread[u].req, page |-> p]
    BY <1>4 DEF SlobInv, ThreadsTyped
  <2>2. Taking(thread'[u]) = 1 BY <2>1, TakingIs
  <2>3. p \notin slab BY <1>4 DEF SlobInv, Typed
  <2>4. IsFiniteSet(slab') /\ Cardinality(slab') = Cardinality(slab) + 1
    BY <1>4, <2>3, FS_AddElement DEF CountInv, CountTyped
  <2>5. pageCount \in Int /\ Due(counting[u]) \in Int
    <3>1. pageCount \in Int /\ CountTyped BY DEF CountInv, CountTyped
    <3>2. Due(counting[u]) \in {0, 1, -1} BY <3>1, CountingOf, CountingIs
    <3>3. QED BY <3>1, <3>2
  <2>6. Cardinality(slab') = pageCount + Due(counting[u]) + 1
    BY <1>2, <2>4, <2>5 DEF CountInv, CountExact
  <2>7. QED BY <1>1, <2>2, <2>4, <2>6 DEF CountInv, CountTyped, CountExact
<1>5. QED BY <1>3, <1>4 DEF Grow, slob_new_pages

\* Install: it is still due.
LEMMA InstallKeeps == ASSUME SlobInv, NEW u \in Threads, CountInv(u), Install(u) PROVE CountInv(u)'
<1>1. /\ counting[u] = Not /\ thread[u].step = "install" /\ UNCHANGED <<slab, pageCount>>
      /\ thread' = [thread EXCEPT ![u] = Idle]
  BY DEF Install, InstallPage
<1>2. Taking(thread[u]) = 1 BY <1>1 DEF Taking
<1>3. thread'[u] = Idle BY <1>1 DEF SlobInv, ThreadsTyped
<1>4. counting' \in [Threads -> Countings] /\ counting'[u] = Reads(1) BY CountingIs, CountingMoves DEF Install, CountInv
<1>5. Due(counting[u]) = 0 /\ Due(counting'[u]) = 1 /\ counting'[u].at # "writes" /\ Taking(thread'[u]) = 0
  BY <1>1, <1>3, <1>4, CountingIs, TakingIs
<1>6. pageCount \in Int /\ Cardinality(slab) = pageCount + 0 + 1
  BY <1>2, <1>5 DEF CountInv, CountTyped, CountExact
<1>7. Cardinality(slab) = pageCount + 1 + 0 BY <1>6
<1>8. QED BY <1>1, <1>4, <1>5, <1>7 DEF CountInv, CountTyped, CountExact

\* Release: a page less, and one less due.
LEMMA ReleaseKeeps == ASSUME SlobInv, NEW u \in Threads, CountInv(u), Release(u) PROVE CountInv(u)'
<1>1. PICK p : p = thread[u].page OBVIOUS
<1>2. /\ counting[u] = Not /\ thread[u].step = "release" /\ slab' = slab \ {p} /\ pageCount' = pageCount
      /\ thread' = [thread EXCEPT ![u] = Idle]
  BY <1>1 DEF Release, ReleasePage
<1>3. Taking(thread[u]) = 0 BY <1>2 DEF Taking
<1>4. thread'[u] = Idle BY <1>2 DEF SlobInv, ThreadsTyped
<1>5. counting' \in [Threads -> Countings] /\ counting'[u] = Reads(-1) BY CountingIs, CountingMoves DEF Release, CountInv
<1>6. Due(counting[u]) = 0 /\ Due(counting'[u]) = -1 /\ counting'[u].at # "writes" /\ Taking(thread'[u]) = 0
  BY <1>2, <1>4, <1>5, CountingIs, TakingIs
<1>7. p \in slab
  <2>1. p \in Pages /\ AR!Has(u, p) BY <1>1, <1>2, PutsDown DEF SlobInv, AR!Inv
  <2>2. AR!FlightsApart BY DEF SlobInv, AR!Inv
  <2>3. QED BY <2>1, <2>2 DEF AR!FlightsApart
<1>8. IsFiniteSet(slab') /\ Cardinality(slab') = Cardinality(slab) - 1
  BY <1>2, <1>7, FS_RemoveElement DEF CountInv, CountTyped
<1>9. pageCount \in Int /\ Cardinality(slab) = pageCount + 0 + 0
  BY <1>3, <1>6 DEF CountInv, CountTyped, CountExact
<1>10. Cardinality(slab') = pageCount + (-1) + 0 BY <1>8, <1>9
<1>11. QED BY <1>2, <1>5, <1>6, <1>8, <1>10 DEF CountInv, CountTyped, CountExact

\* ReadCount.
LEMMA ReadKeeps == ASSUME NEW u \in Threads, CountInv(u), ReadCount(u) PROVE CountInv(u)'
<1>1. counting[u].at = "reads" /\ UNCHANGED <<slab, thread, pageCount>> BY DEF ReadCount, vars
<1>2. pageCount \in Int /\ CountTyped BY DEF CountInv, CountTyped
<1>3. PICK by \in {1, -1} : counting[u] = Reads(by) BY <1>1, <1>2, CountingOf, CountingIs
<1>4. PICK n \in Int : n = pageCount BY <1>2
<1>5. Becomes(u, Writes(by, n)) BY <1>3, <1>4, CountingIs DEF ReadCount
<1>6. counting' \in [Threads -> Countings] /\ counting'[u] = Writes(by, n) BY <1>2, <1>5, CountingIs, CountingMoves
<1>7. Due(counting'[u]) = Due(counting[u]) /\ counting'[u].read = n BY <1>3, <1>6, CountingIs
<1>8. QED BY <1>1, <1>4, <1>6, <1>7 DEF CountInv, CountTyped, CountExact

\* WriteCount: with no other thread, what was read is still so.
LEMMA WriteKeeps == ASSUME NEW u \in Threads, CountInv(u), WriteCount(u) PROVE CountInv(u)'
<1>1. /\ counting[u].at = "writes" /\ UNCHANGED <<slab, thread>>
      /\ pageCount' = counting[u].read + counting[u].by
  BY DEF WriteCount, vars
<1>2. pageCount \in Int /\ CountTyped BY DEF CountInv, CountTyped
<1>3. PICK by \in {1, -1}, read \in Int : counting[u] = Writes(by, read) BY <1>1, <1>2, CountingOf, CountingIs
<1>4. read = pageCount /\ Due(counting[u]) = by /\ counting[u].by = by /\ counting[u].read = read
  BY <1>1, <1>3, CountingIs DEF CountInv, CountExact
<1>5. pageCount' = pageCount + by BY <1>1, <1>4
<1>6. counting' \in [Threads -> Countings] /\ counting'[u] = Not
  BY <1>2, CountingIs, CountingMoves DEF WriteCount
<1>7. Due(counting'[u]) = 0 /\ counting'[u].at # "writes" BY <1>6, CountingIs
<1>8. Taking(thread[u]) \in {0, 1} BY DEF Taking
<1>9. Cardinality(slab) = pageCount + by + Taking(thread[u]) BY <1>4 DEF CountInv, CountExact
<1>10. Cardinality(slab) = pageCount' + 0 + Taking(thread[u]) BY <1>2, <1>5, <1>8, <1>9
<1>11. pageCount' \in Int BY <1>2, <1>5
<1>12. QED BY <1>1, <1>6, <1>7, <1>10, <1>11 DEF CountInv, CountTyped, CountExact

\* Every step keeps the invariant of the counts.
LEMMA CountNext ==
  ASSUME NEW u, Threads = {u}, SlobInv, CountInv(u), [CNext]_allVars PROVE CountInv(u)'
<1>1. u \in Threads OBVIOUS
<1>2. CASE UNCHANGED allVars
  <2>1. UNCHANGED <<counting, pageCount, slab, thread>> BY <1>2 DEF allVars, vars, counters
  <2>2. QED BY <1>1, <2>1, CountStays
<1>3. CASE Uncounted(u)
  <2>1. UNCHANGED <<counting, pageCount>> BY <1>3 DEF Uncounted, counters
  <2>2. QED BY <1>1, <1>3, <2>1, UncountedTakes, CountStays
<1>4. CASE CNext
  <2>1. \/ ResetUnits(u) \/ Search(u) \/ Grow(u) \/ Install(u) \/ Release(u)
        \/ ReadCount(u) \/ WriteCount(u) \/ Uncounted(u)
    BY <1>4 DEF CNext
  <2>2. QED BY <1>1, <1>3, <2>1, ResetKeeps, SearchKeeps, GrowKeeps, InstallKeeps, ReleaseKeeps,
               ReadKeeps, WriteKeeps
<1>5. QED BY <1>2, <1>4

\* A page has PageUnits units.
LEMMA WholePageUnits == SLOB_UNITS(PAGE_SIZE) = PageUnits
<1> DEFINE a == PAGE_SIZE + SLOB_UNIT - 1
           n == a \div SLOB_UNIT
           m == PageUnits * SLOB_UNIT
<1>1. SLOB_UNIT \in Nat \ {0} /\ PageUnits \in Nat \ {0} BY Sizes
<1>2. PAGE_SIZE = m /\ m \in Nat BY <1>1, PageIs
<1>3. a \in Nat /\ a = m + SLOB_UNIT - 1 BY <1>1, <1>2
<1>4. n \in Nat /\ n * SLOB_UNIT <= a /\ a < n * SLOB_UNIT + SLOB_UNIT BY <1>1, <1>3, Division
<1> HIDE DEF a, n
<1>5. n >= PageUnits BY <1>1, <1>2, <1>3, DivisionBelow DEF n
<1>6. n <= PageUnits
  <2> SUFFICES ASSUME PageUnits + 1 <= n PROVE FALSE BY <1>1, <1>4
  <2>1. (PageUnits + 1) * SLOB_UNIT <= n * SLOB_UNIT BY <1>1, <1>4
  <2>2. (PageUnits + 1) * SLOB_UNIT = m + SLOB_UNIT BY <1>1
  <2>3. QED BY <1>1, <1>2, <1>3, <1>4, <2>1, <2>2
<1>7. n = PageUnits BY <1>1, <1>4, <1>5, <1>6
<1>8. QED BY <1>7 DEF SLOB_UNITS, n, a

\* With one thread, sys_slob_used tells the units of the pages that the allocator
\* has: each page is counted once when it comes and once when it goes.
THEOREM OneThreadCountsPages ==
  ASSUME NEW u, Threads = {u}
  PROVE  CSpec => []PagesCounted
<1>1. CInit => CountInv(u)
  <2> SUFFICES ASSUME CInit PROVE CountInv(u) OBVIOUS
  <2>1. u \in Threads OBVIOUS
  <2>2. slab = {} /\ pageCount = 0 /\ counting = [t \in Threads |-> Not] /\ thread[u] = Idle
    BY <2>1 DEF CInit, Init
  <2>3. counting \in [Threads -> Countings] /\ counting[u] = Not BY <2>1, <2>2, CountingIs
  <2>4. Cardinality(slab) = 0 /\ IsFiniteSet(slab) BY <2>2, FS_EmptySet
  <2>5. Due(counting[u]) = 0 /\ counting[u].at # "writes" /\ Taking(thread[u]) = 0
    BY <2>2, <2>3, CountingIs, TakingIs
  <2>6. QED BY <2>2, <2>3, <2>4, <2>5 DEF CountInv, CountTyped, CountExact
<1>2. SlobInv /\ CountInv(u) /\ [CNext]_allVars => CountInv(u)' BY CountNext
<1>3. CountInv(u) => PagesCounted
  <2> SUFFICES ASSUME CountInv(u), Quiet PROVE sys_slob_used = PageUnits * Cardinality(slab) BY DEF PagesCounted
  <2>1. thread[u] = Idle /\ counting[u] = Not BY DEF Quiet
  <2>2. pageCount \in Int /\ Cardinality(slab) = pageCount + 0 + 0
    BY <2>1, CountingIs, TakingIs DEF CountInv, CountTyped, CountExact
  <2>3. Cardinality(slab) = pageCount BY <2>2
  <2>4. QED BY <2>3, WholePageUnits DEF sys_slob_used
<1>4. CSpec => []SlobInv BY CountersOnlyWatch, SlobHolds, PTL
<1>5. QED BY <1>1, <1>2, <1>3, <1>4, PTL DEF CSpec
================================================================================
