----------------------------- MODULE SlobArenaProofs ----------------------------
(***************************************************************************)
(* For any pages, any units to a page and any threads: no two objects of   *)
(* the allocator share memory, the lists hold the partly free pages, no    *)
(* page leaks, and callers see the heap of module Heap.                    *)
(***************************************************************************)
EXTENDS SlobArena, TLAPS

\* A page is cut into units.
Cut == PageUnits \in Nat

--------------------------------------------------------------------------------
\* Runs of units, so that the rest need not look into them.

\* An object has units, and they are in its page.
LEMMA Runs ==
  ASSUME Cut, NEW o \in Objects
  PROVE  UnitsOf(o) \subseteq Offsets /\ UnitsOf(o) # {} /\ o.page \in Pages
<1>1. /\ o.page \in Pages /\ o.at \in Offsets /\ o.units \in 1 .. PageUnits
      /\ o.at + o.units <= PageUnits
  BY DEF Objects
<1>2. o.at \in UnitsOf(o)  BY <1>1 DEF UnitsOf, Offsets, Cut
<1>3. UnitsOf(o) \subseteq Offsets  BY <1>1 DEF UnitsOf, Offsets, Cut
<1> QED  BY <1>1, <1>2, <1>3

\* Runs without a common unit lie one behind the other.
LEMMA RunsApart ==
  ASSUME Cut, NEW o \in Objects, NEW u \in Objects, UnitsOf(o) \cap UnitsOf(u) = {}
  PROVE  H!Apart(o, u)
<1>1. /\ o.at \in Offsets /\ o.units \in 1 .. PageUnits
      /\ u.at \in Offsets /\ u.units \in 1 .. PageUnits
  BY DEF Objects
<1>2. /\ o.at \notin UnitsOf(o) \/ o.at \notin UnitsOf(u)
      /\ u.at \notin UnitsOf(o) \/ u.at \notin UnitsOf(u)
  OBVIOUS
<1> QED  BY <1>1, <1>2 DEF UnitsOf, Offsets, H!Apart, Cut

\* What a thread may be doing.
Doings == {Idle, Growing} \cup [step : {"install", "release"}, page : Pages]

LEMMA DoingsDiffer ==
  ASSUME NEW p, NEW s \in {"install", "release"}
  PROVE  /\ With(s, p) # Idle /\ With(s, p) # Growing /\ Idle # Growing
         /\ p \in Pages => With(s, p) \in Doings
         /\ \A q, z : With(s, p) = With(z, q) => s = z /\ p = q
BY DEF With, Idle, Growing, Doings

--------------------------------------------------------------------------------
(***************************************************************************)
(* The inductive invariant.  The parts that the runs check say nothing of  *)
(* two objects, nor of a page while one thread is about to use or return   *)
(* it; a step needs both.                                                  *)
(***************************************************************************)

Has(t, p) == thread[t] = With("install", p) \/ thread[t] = With("release", p)

\* No two objects have a unit in common.
NeverShared ==
  \A o, u \in objects : o = u \/ o.page # u.page \/ UnitsOf(o) \cap UnitsOf(u) = {}

\* A page that a thread is about to use or return is empty, and in no other hands.
FlightsApart ==
  \A t \in Threads, p \in Pages : Has(t, p) =>
    /\ p \in slab
    /\ \A o \in objects : o.page # p
    /\ \A z \in Threads : Has(z, p) => z = t

\* An object that is not in a page cut into objects has its page to itself.
WholeAlone ==
  \A o, u \in objects : o.page = u.page /\ o.page \notin slab => o = u

Inv ==
  /\ TypeOK /\ FreeIsTheRest /\ ListedIffPartlyFree /\ NoPageLeaks
  /\ NeverShared /\ FlightsApart /\ WholeAlone

LEMMA Flight ==
  ASSUME NEW p \in Pages
  PROVE  p \in InFlight <=> \E t \in Threads : Has(t, p)
BY DEF InFlight, Has

LEMMA InvInit == ASSUME Cut PROVE Init => Inv
<1> SUFFICES ASSUME Init  PROVE Inv  OBVIOUS
<1>1. \A t \in Threads, p \in Pages : ~ Has(t, p)
  BY DoingsDiffer DEF Init, Has
<1>2. InFlight = {}  BY <1>1, Flight DEF InFlight
<1>3. TypeOK  BY DEF Init, TypeOK
<1> QED
  BY <1>1, <1>2, <1>3
  DEF Inv, Init, FreeIsTheRest, ListedIffPartlyFree, NoPageLeaks, NeverShared,
      FlightsApart, WholeAlone, Settled

--------------------------------------------------------------------------------
\* What a step does to the pages in flight.

LEMMA Becoming ==
  ASSUME TypeOK, NEW t \in Threads, NEW what, Becomes(t, what)
  PROVE  \A z \in Threads, p \in Pages :
           Has(z, p)' <=> IF z = t THEN what \in {With("install", p), With("release", p)}
                                   ELSE Has(z, p)
BY DEF TypeOK, Becomes, Has

LEMMA Standing ==
  ASSUME thread' = thread
  PROVE  InFlight' = InFlight /\ \A z \in Threads, p \in Pages : Has(z, p)' <=> Has(z, p)
BY DEF InFlight, Has

\* The thread had no page in flight and has none now.
LEMMA StillNone ==
  ASSUME TypeOK, NEW t \in Threads, thread[t] \in {Idle, Growing},
         NEW what \in {Idle, Growing}, Becomes(t, what)
  PROVE  InFlight' = InFlight /\ \A z \in Threads, p \in Pages : Has(z, p)' <=> Has(z, p)
<1>1. \A p \in Pages : ~ Has(t, p)  BY DoingsDiffer DEF Has
<1>2. \A p \in Pages : what \notin {With("install", p), With("release", p)}
  BY DoingsDiffer
<1>3. \A z \in Threads, p \in Pages : Has(z, p)' <=> Has(z, p)
  BY <1>1, <1>2, Becoming
<1>4. InFlight' = {p \in Pages : \E z \in Threads : Has(z, p)'}  BY DEF InFlight, Has
<1>5. InFlight = {p \in Pages : \E z \in Threads : Has(z, p)}  BY DEF InFlight, Has
<1> QED  BY <1>3, <1>4, <1>5

\* It has page p in flight from now on.
LEMMA TakesOff ==
  ASSUME TypeOK, NEW t \in Threads, thread[t] \in {Idle, Growing},
         NEW s \in {"install", "release"}, NEW p \in Pages, Becomes(t, With(s, p))
  PROVE  /\ InFlight' = InFlight \cup {p}
         /\ \A z \in Threads, q \in Pages : Has(z, q)' <=> Has(z, q) \/ (z = t /\ q = p)
<1>1. \A q \in Pages : ~ Has(t, q)  BY DoingsDiffer DEF Has
<1>2. \A q \in Pages : With(s, p) \in {With("install", q), With("release", q)} <=> q = p
  BY DoingsDiffer
<1>3. \A z \in Threads, q \in Pages : Has(z, q)' <=> Has(z, q) \/ (z = t /\ q = p)
  BY <1>1, <1>2, Becoming
<1>4. InFlight' = {q \in Pages : \E z \in Threads : Has(z, q)'}  BY DEF InFlight, Has
<1>5. InFlight = {q \in Pages : \E z \in Threads : Has(z, q)}  BY DEF InFlight, Has
<1> QED  BY <1>3, <1>4, <1>5

\* It had page p in flight, and has none now.
LEMMA Lands ==
  ASSUME TypeOK, FlightsApart, NEW t \in Threads, NEW p \in Pages, Has(t, p), Becomes(t, Idle)
  PROVE  /\ InFlight' = InFlight \ {p}
         /\ \A z \in Threads, q \in Pages : Has(z, q)' <=> Has(z, q) /\ q # p
<1>1. \A q \in Pages : Has(t, q) => q = p  BY DoingsDiffer DEF Has
<1>2. \A q \in Pages : Idle \notin {With("install", q), With("release", q)}
  BY DoingsDiffer
<1>3. \A z \in Threads : Has(z, p) => z = t  BY DEF FlightsApart
<1>4. \A z \in Threads, q \in Pages : Has(z, q)' <=> Has(z, q) /\ q # p
  BY <1>1, <1>2, <1>3, Becoming
<1>5. InFlight' = {q \in Pages : \E z \in Threads : Has(z, q)'}  BY DEF InFlight, Has
<1>6. InFlight = {q \in Pages : \E z \in Threads : Has(z, q)}  BY DEF InFlight, Has
<1> QED  BY <1>4, <1>5, <1>6

--------------------------------------------------------------------------------
\* The invariant, action by action.

\* Nothing but a thread changes, and it has no page in flight.
LEMMA GrowStep ==
  ASSUME Inv, NEW t \in Threads, Grow(t) \/ NoPage(t)
  PROVE  Inv'
<1>1. PICK what \in {Idle, Growing} : thread[t] \in {Idle, Growing} /\ Becomes(t, what)
  BY DEF Grow, NoPage
<1>2. InFlight' = InFlight /\ \A z \in Threads, p \in Pages : Has(z, p)' <=> Has(z, p)
  BY <1>1, StillNone DEF Inv
<1>3. UNCHANGED <<objects, free, listed, taken, slab>>  BY DEF Grow, NoPage
<1>4. TypeOK'  BY <1>1, <1>3 DEF Inv, TypeOK, Becomes
<1> QED
  BY <1>2, <1>3, <1>4
  DEF Inv, FreeIsTheRest, ListedIffPartlyFree, NoPageLeaks, NeverShared, FlightsApart,
      WholeAlone, Settled, UnitsOf, Offsets

\* The units of a new object were free, so no object has them.
LEMMA AllocApart ==
  ASSUME Cut, Inv, NEW t, NEW o \in Objects, Alloc(t, o)
  PROVE  /\ o.page \in Settled
         /\ \A u \in objects : o.page # u.page \/ UnitsOf(o) \cap UnitsOf(u) = {}
<1>1. o.page \in Settled  BY DEF Alloc, Inv, ListedIffPartlyFree
<1>2. \A n \in UnitsOf(o) : n \in Offsets /\ n \in free[o.page]  BY Runs DEF Alloc
<1>3. \A n \in UnitsOf(o), u \in objects : o.page = u.page => n \notin UnitsOf(u)
  BY <1>1, <1>2 DEF Inv, FreeIsTheRest
<1> QED  BY <1>1, <1>3

LEMMA AllocStep ==
  ASSUME Cut, Inv, NEW t \in Threads, NEW o \in Objects, Alloc(t, o)
  PROVE  Inv'
<1>1. /\ UnitsOf(o) \subseteq Offsets /\ UnitsOf(o) # {} /\ o.page \in Pages
      /\ \A u \in objects : u \in Objects
  BY Runs DEF Inv, TypeOK
<1>2. InFlight' = InFlight /\ \A z \in Threads, p \in Pages : Has(z, p)' <=> Has(z, p)
  BY Standing DEF Alloc
<1>3. /\ free' = [free EXCEPT ![o.page] = @ \ UnitsOf(o)]
      /\ listed' = IF free'[o.page] = {} THEN listed \ {o.page} ELSE listed
      /\ objects' = objects \cup {o}
      /\ UNCHANGED <<taken, slab, thread>>
      /\ UnitsOf(o) \subseteq free[o.page] /\ o.page \in listed
  BY DEF Alloc
<1>4. Settled' = Settled /\ o.page \in Settled  BY <1>2, <1>3, AllocApart DEF Settled
<1>5. free \in [Pages -> SUBSET Offsets]  BY DEF Inv, TypeOK
<1>6. free'[o.page] = free[o.page] \ UnitsOf(o) /\ \A p \in Pages \ {o.page} : free'[p] = free[p]
  BY <1>1, <1>3, <1>5
<1>7. TypeOK'  BY <1>1, <1>3 DEF Inv, TypeOK, Offsets
<1>8. FreeIsTheRest'
  <2> SUFFICES ASSUME NEW p \in Settled, NEW n \in Offsets
               PROVE  n \in free'[p] <=> ~ \E u \in objects' : u.page = p /\ n \in UnitsOf(u)
    BY <1>4 DEF FreeIsTheRest, Offsets, UnitsOf
  <2>1. p \in Pages  BY DEF Settled, Inv, TypeOK
  <2>2. n \in free[p] <=> ~ \E u \in objects : u.page = p /\ n \in UnitsOf(u)
    BY DEF Inv, FreeIsTheRest
  <2> QED  BY <1>3, <1>6, <2>1, <2>2
<1>9. ListedIffPartlyFree'
  <2>1. listed' = {p \in Settled : free'[p] # {}}
    BY <1>3, <1>4, <1>6 DEF Inv, ListedIffPartlyFree, Settled, TypeOK
  <2>2. \A p \in Settled : free'[p] # Offsets
    BY <1>1, <1>4, <1>6 DEF Inv, ListedIffPartlyFree, Settled, TypeOK
  <2> QED  BY <1>4, <2>1, <2>2 DEF ListedIffPartlyFree, Offsets
<1>10. NoPageLeaks'
  <2>1. o.page \in taken  BY <1>4 DEF Inv, TypeOK, Settled
  <2> QED  BY <1>2, <1>3, <2>1 DEF Inv, NoPageLeaks
<1>11. NeverShared'  BY <1>3, AllocApart DEF Inv, NeverShared, UnitsOf
<1>12. FlightsApart'
  BY <1>2, <1>3, <1>4, Flight DEF Inv, FlightsApart, Settled
<1>13. WholeAlone'  BY <1>3, <1>4 DEF Inv, WholeAlone, Settled
<1> QED  BY <1>7, <1>8, <1>9, <1>10, <1>11, <1>12, <1>13 DEF Inv

LEMMA TakePageStep ==
  ASSUME Inv, NEW t \in Threads, NEW p \in Pages, TakePage(t, p)
  PROVE  Inv'
<1>1. /\ InFlight' = InFlight \cup {p}
      /\ \A z \in Threads, q \in Pages : Has(z, q)' <=> Has(z, q) \/ (z = t /\ q = p)
  BY TakesOff DEF TakePage, Inv
<1>2. /\ p \notin taken /\ taken' = taken \cup {p} /\ slab' = slab \cup {p}
      /\ UNCHANGED <<objects, free, listed>>
  BY DEF TakePage
<1>3. p \notin slab /\ p \notin InFlight /\ \A o \in objects : o.page # p
  BY <1>2 DEF Inv, TypeOK, NoPageLeaks
<1>4. Settled' = Settled  BY <1>1, <1>2, <1>3 DEF Settled
<1>5. TypeOK'
  <2>1. With("install", p) \in Doings  BY DoingsDiffer
  <2> QED  BY <1>2, <2>1 DEF Inv, TypeOK, TakePage, Becomes, Doings
<1>6. FreeIsTheRest' /\ ListedIffPartlyFree'
  BY <1>2, <1>4 DEF Inv, FreeIsTheRest, ListedIffPartlyFree, UnitsOf, Offsets
<1>7. NoPageLeaks'  BY <1>1, <1>2 DEF Inv, NoPageLeaks
<1>8. NeverShared'  BY <1>2 DEF Inv, NeverShared, UnitsOf
<1>9. FlightsApart'  BY <1>1, <1>2, <1>3, Flight DEF Inv, FlightsApart
<1>10. WholeAlone'  BY <1>2 DEF Inv, WholeAlone
<1> QED  BY <1>5, <1>6, <1>7, <1>8, <1>9, <1>10 DEF Inv

LEMMA InstallStep ==
  ASSUME Cut, Inv, NEW t \in Threads, NEW o \in Objects, Install(t, o)
  PROVE  Inv' /\ \A u \in objects : o.page # u.page
<1>1. UnitsOf(o) \subseteq Offsets /\ UnitsOf(o) # {} /\ o.page \in Pages
  BY Runs
<1>2. Has(t, o.page)  BY DEF Install, Has
<1>3. /\ InFlight' = InFlight \ {o.page}
      /\ \A z \in Threads, q \in Pages : Has(z, q)' <=> Has(z, q) /\ q # o.page
  BY <1>1, <1>2, Lands DEF Install, Inv
<1>4. /\ free' = [free EXCEPT ![o.page] = Offsets \ UnitsOf(o)]
      /\ listed' = IF free'[o.page] = {} THEN listed ELSE listed \cup {o.page}
      /\ objects' = objects \cup {o}
      /\ UNCHANGED <<taken, slab>>
  BY DEF Install
<1>5. o.page \in slab /\ o.page \in InFlight /\ \A u \in objects : o.page # u.page
  BY <1>1, <1>2, Flight DEF Inv, FlightsApart
<1>6. Settled' = Settled \cup {o.page} /\ o.page \notin Settled
  BY <1>3, <1>4, <1>5 DEF Settled
<1>7. free \in [Pages -> SUBSET Offsets]  BY DEF Inv, TypeOK
<1>8. free'[o.page] = Offsets \ UnitsOf(o) /\ \A p \in Pages \ {o.page} : free'[p] = free[p]
  BY <1>1, <1>4, <1>7
<1>9. TypeOK'  BY <1>1, <1>4 DEF Inv, TypeOK, Install, Becomes, Offsets
<1>10. FreeIsTheRest'
  <2> SUFFICES ASSUME NEW p \in Settled \cup {o.page}, NEW n \in Offsets
               PROVE  n \in free'[p] <=> ~ \E u \in objects' : u.page = p /\ n \in UnitsOf(u)
    BY <1>6 DEF FreeIsTheRest, Offsets, UnitsOf
  <2>1. CASE p = o.page  BY <1>4, <1>5, <1>8, <2>1
  <2>2. CASE p # o.page
    <3>1. p \in Settled /\ p \in Pages  BY <2>2 DEF Settled, Inv, TypeOK
    <3>2. n \in free[p] <=> ~ \E u \in objects : u.page = p /\ n \in UnitsOf(u)
      BY <3>1 DEF Inv, FreeIsTheRest
    <3> QED  BY <1>4, <1>8, <2>2, <3>1, <3>2
  <2> QED  BY <2>1, <2>2
<1>11. ListedIffPartlyFree'
  <2>1. Settled \subseteq Pages  BY DEF Settled, Inv, TypeOK
  <2>2. listed' = {p \in Settled' : free'[p] # {}}
    BY <1>1, <1>4, <1>6, <1>8, <2>1 DEF Inv, ListedIffPartlyFree
  <2>3. \A p \in Settled' : free'[p] # Offsets
    BY <1>1, <1>6, <1>8, <2>1 DEF Inv, ListedIffPartlyFree
  <2> QED  BY <2>2, <2>3 DEF ListedIffPartlyFree, Offsets
<1>12. NoPageLeaks'
  BY <1>3, <1>4, <1>5 DEF Inv, NoPageLeaks
<1>13. NeverShared'  BY <1>4, <1>5 DEF Inv, NeverShared, UnitsOf
<1>14. FlightsApart'  BY <1>3, <1>4 DEF Inv, FlightsApart
<1>15. WholeAlone'  BY <1>4, <1>5 DEF Inv, WholeAlone
<1> QED  BY <1>5, <1>9, <1>10, <1>11, <1>12, <1>13, <1>14, <1>15 DEF Inv
\* The page was not taken, so it is neither in use nor in flight.
LEMMA AllocPageStep ==
  ASSUME Cut, Inv, NEW t \in Threads, NEW o \in Objects, AllocPage(t, o)
  PROVE  Inv' /\ \A u \in objects : o.page # u.page
<1>1. InFlight' = InFlight /\ \A z \in Threads, p \in Pages : Has(z, p)' <=> Has(z, p)
  BY Standing DEF AllocPage
<1>2. /\ o.page \notin taken /\ taken' = taken \cup {o.page} /\ objects' = objects \cup {o}
      /\ UNCHANGED <<free, listed, slab, thread>>
  BY DEF AllocPage
<1>3. /\ o.page \notin slab /\ o.page \notin InFlight /\ o.page \in Pages
      /\ \A u \in objects : o.page # u.page
  BY <1>2, Runs DEF Inv, TypeOK, NoPageLeaks
<1>4. Settled' = Settled  BY <1>1, <1>2 DEF Settled
<1>5. TypeOK'  BY <1>2, <1>3 DEF Inv, TypeOK, Offsets
<1>6. FreeIsTheRest'
  BY <1>2, <1>3, <1>4 DEF Inv, FreeIsTheRest, Settled, UnitsOf, Offsets
<1>7. ListedIffPartlyFree'  BY <1>2, <1>4 DEF Inv, ListedIffPartlyFree, Offsets
<1>8. NoPageLeaks'  BY <1>1, <1>2 DEF Inv, NoPageLeaks
<1>9. NeverShared'  BY <1>2, <1>3 DEF Inv, NeverShared, UnitsOf
<1>10. FlightsApart'  BY <1>1, <1>2, <1>3 DEF Inv, FlightsApart
<1>11. WholeAlone'  BY <1>2, <1>3 DEF Inv, WholeAlone
<1> QED  BY <1>3, <1>5, <1>6, <1>7, <1>8, <1>9, <1>10, <1>11 DEF Inv

\* No other object is in the page, so it may go back.
LEMMA FreePageStep ==
  ASSUME Cut, Inv, NEW t \in Threads, NEW o \in objects, FreePage(t, o)
  PROVE  Inv'
<1>1. InFlight' = InFlight /\ \A z \in Threads, p \in Pages : Has(z, p)' <=> Has(z, p)
  BY Standing DEF FreePage
<1>2. /\ o.page \notin slab /\ taken' = taken \ {o.page} /\ objects' = objects \ {o}
      /\ UNCHANGED <<free, listed, slab, thread>>
  BY DEF FreePage
<1>3. /\ o.page \notin InFlight
      /\ \A u \in objects' : o.page # u.page
  BY <1>2, Flight DEF Inv, FlightsApart, WholeAlone, InFlight, Has
<1>4. Settled' = Settled  BY <1>1, <1>2 DEF Settled
<1>5. TypeOK'  BY <1>2 DEF Inv, TypeOK, Offsets
<1>6. FreeIsTheRest'
  BY <1>2, <1>4 DEF Inv, FreeIsTheRest, Settled, UnitsOf, Offsets
<1>7. ListedIffPartlyFree'  BY <1>2, <1>4 DEF Inv, ListedIffPartlyFree, Offsets
<1>8. NoPageLeaks'  BY <1>1, <1>2, <1>3 DEF Inv, NoPageLeaks
<1>9. NeverShared'  BY <1>2 DEF Inv, NeverShared, UnitsOf
<1>10. FlightsApart'  BY <1>1, <1>2 DEF Inv, FlightsApart
<1>11. WholeAlone'  BY <1>2 DEF Inv, WholeAlone
<1> QED  BY <1>5, <1>6, <1>7, <1>8, <1>9, <1>10, <1>11 DEF Inv

\* A page that holds an object is in no thread's hands.
LEMMA HeldIsSettled ==
  ASSUME Inv, NEW o \in objects, o.page \in slab
  PROVE  o.page \in Settled
<1>1. o.page \notin InFlight  BY DEF Inv, FlightsApart, InFlight, Has
<1> QED  BY <1>1 DEF Settled

LEMMA FreeStep ==
  ASSUME Cut, Inv, NEW t \in Threads, NEW o \in objects, Free(t, o)
  PROVE  Inv'
<1>1. UnitsOf(o) \subseteq Offsets /\ UnitsOf(o) # {} /\ o.page \in Pages
  BY Runs DEF Inv, TypeOK
<1>2. InFlight' = InFlight /\ \A z \in Threads, p \in Pages : Has(z, p)' <=> Has(z, p)
  BY Standing DEF Free
<1>3. /\ o.page \in slab /\ free[o.page] \cup UnitsOf(o) # Offsets
      /\ free' = [free EXCEPT ![o.page] = @ \cup UnitsOf(o)]
      /\ listed' = listed \cup {o.page} /\ objects' = objects \ {o}
      /\ UNCHANGED <<taken, slab, thread>>
  BY DEF Free
<1>4. Settled' = Settled /\ o.page \in Settled  BY <1>2, <1>3, HeldIsSettled DEF Settled
<1>5. free \in [Pages -> SUBSET Offsets]  BY DEF Inv, TypeOK
<1>6. free'[o.page] = free[o.page] \cup UnitsOf(o) /\ \A p \in Pages \ {o.page} : free'[p] = free[p]
  BY <1>1, <1>3, <1>5
<1>7. Settled \subseteq Pages  BY DEF Settled, Inv, TypeOK
<1>8. TypeOK'  BY <1>1, <1>3 DEF Inv, TypeOK, Offsets
<1>9. \A p \in Settled, n \in Offsets :
        n \in free'[p] <=> ~ \E u \in objects' : u.page = p /\ n \in UnitsOf(u)
  <2> SUFFICES ASSUME NEW p \in Settled, NEW n \in Offsets
               PROVE  n \in free'[p] <=> ~ \E u \in objects' : u.page = p /\ n \in UnitsOf(u)
    OBVIOUS
  <2>1. n \in free[p] <=> ~ \E u \in objects : u.page = p /\ n \in UnitsOf(u)
    BY DEF Inv, FreeIsTheRest
  <2>2. \A u \in objects' : u \in objects /\ (u.page = o.page => UnitsOf(o) \cap UnitsOf(u) = {})
    BY <1>3 DEF Inv, NeverShared
  <2> QED  BY <1>3, <1>6, <1>7, <2>1, <2>2
<1>10. FreeIsTheRest'  BY <1>4, <1>9 DEF FreeIsTheRest, Offsets, UnitsOf
<1>11. ListedIffPartlyFree'
  <2>1. listed' = {p \in Settled : free'[p] # {}}
    BY <1>1, <1>3, <1>4, <1>6, <1>7 DEF Inv, ListedIffPartlyFree
  <2>2. \A p \in Settled : free'[p] # Offsets
    BY <1>3, <1>6, <1>7 DEF Inv, ListedIffPartlyFree
  <2> QED  BY <1>4, <2>1, <2>2 DEF ListedIffPartlyFree, Offsets
<1>12. NoPageLeaks'
  <2>1. PICK n \in Offsets : n \notin free'[o.page]
    <3>1. free'[o.page] \subseteq Offsets  BY <1>1, <1>5, <1>6
    <3> QED  BY <1>3, <1>6, <3>1
  <2>2. PICK u \in objects' : u.page = o.page  BY <1>4, <1>9, <2>1
  <2> QED  BY <1>2, <1>3, <2>2 DEF Inv, NoPageLeaks
<1>13. NeverShared'  BY <1>3 DEF Inv, NeverShared, UnitsOf
<1>14. FlightsApart'  BY <1>2, <1>3 DEF Inv, FlightsApart
<1>15. WholeAlone'  BY <1>3 DEF Inv, WholeAlone
<1> QED  BY <1>8, <1>10, <1>11, <1>12, <1>13, <1>14, <1>15 DEF Inv
\* The last object leaves the page empty, and the page goes into the thread's hands.
LEMMA FreeLastStep ==
  ASSUME Cut, Inv, NEW t \in Threads, NEW o \in objects, FreeLast(t, o)
  PROVE  Inv'
<1>1. /\ UnitsOf(o) \subseteq Offsets /\ o.page \in Pages
      /\ \A u \in objects : UnitsOf(u) \subseteq Offsets /\ UnitsOf(u) # {}
  BY Runs DEF Inv, TypeOK
<1>2. /\ InFlight' = InFlight \cup {o.page}
      /\ \A z \in Threads, q \in Pages : Has(z, q)' <=> Has(z, q) \/ (z = t /\ q = o.page)
  BY <1>1, TakesOff DEF FreeLast, Inv
<1>3. /\ o.page \in slab /\ free[o.page] \cup UnitsOf(o) = Offsets
      /\ free' = [free EXCEPT ![o.page] = {}]
      /\ listed' = listed \ {o.page} /\ objects' = objects \ {o}
      /\ UNCHANGED <<taken, slab>>
  BY DEF FreeLast
<1>4. o.page \in Settled  BY <1>3, HeldIsSettled
<1>5. \A u \in objects' : u.page # o.page
  <2> SUFFICES ASSUME NEW u \in objects', u.page = o.page  PROVE FALSE  OBVIOUS
  <2>1. u \in objects /\ UnitsOf(o) \cap UnitsOf(u) = {}
    BY <1>3 DEF Inv, NeverShared
  <2>2. PICK n \in Offsets : n \in UnitsOf(u)  BY <1>1, <2>1
  <2>3. n \in free[o.page]  BY <1>3, <2>1, <2>2
  <2> QED  BY <1>4, <2>1, <2>2, <2>3 DEF Inv, FreeIsTheRest
<1>6. Settled' = Settled \ {o.page}  BY <1>2, <1>3 DEF Settled
<1>7. Settled \subseteq Pages  BY DEF Settled, Inv, TypeOK
<1>8. \A p \in Pages \ {o.page} : free'[p] = free[p]
  BY <1>1, <1>3 DEF Inv, TypeOK
<1>9. TypeOK'
  <2>1. With("release", o.page) \in Doings  BY <1>1, DoingsDiffer
  <2> QED  BY <1>3, <2>1 DEF Inv, TypeOK, FreeLast, Becomes, Doings, Offsets
<1>10. FreeIsTheRest'
  BY <1>3, <1>6, <1>7, <1>8 DEF Inv, FreeIsTheRest, Offsets, UnitsOf
<1>11. ListedIffPartlyFree'
  BY <1>3, <1>6, <1>7, <1>8 DEF Inv, ListedIffPartlyFree, Offsets
<1>12. NoPageLeaks'
  BY <1>2, <1>3 DEF Inv, NoPageLeaks
<1>13. NeverShared'  BY <1>3 DEF Inv, NeverShared, UnitsOf
<1>14. FlightsApart'
  <2>1. \A z \in Threads : ~ Has(z, o.page)
    BY <1>1, <1>4, Flight DEF Settled
  <2> QED  BY <1>2, <1>3, <1>5, <2>1 DEF Inv, FlightsApart
<1>15. WholeAlone'  BY <1>3 DEF Inv, WholeAlone
<1> QED  BY <1>9, <1>10, <1>11, <1>12, <1>13, <1>14, <1>15 DEF Inv

LEMMA ReleaseStep ==
  ASSUME Inv, NEW t \in Threads, NEW p \in Pages, Release(t, p)
  PROVE  Inv'
<1>1. Has(t, p)  BY DEF Release, Has
<1>2. /\ InFlight' = InFlight \ {p}
      /\ \A z \in Threads, q \in Pages : Has(z, q)' <=> Has(z, q) /\ q # p
  BY <1>1, Lands DEF Release, Inv
<1>3. /\ slab' = slab \ {p} /\ taken' = taken \ {p}
      /\ UNCHANGED <<objects, free, listed>>
  BY DEF Release
<1>4. p \in InFlight /\ \A o \in objects : o.page # p
  BY <1>1, Flight DEF Inv, FlightsApart
<1>5. Settled' = Settled  BY <1>2, <1>3, <1>4 DEF Settled
<1>6. TypeOK'  BY <1>3 DEF Inv, TypeOK, Release, Becomes, Offsets
<1>7. FreeIsTheRest' /\ ListedIffPartlyFree'
  BY <1>3, <1>5 DEF Inv, FreeIsTheRest, ListedIffPartlyFree, UnitsOf, Offsets
<1>8. NoPageLeaks'  BY <1>2, <1>3, <1>4 DEF Inv, NoPageLeaks
<1>9. NeverShared'  BY <1>3 DEF Inv, NeverShared, UnitsOf
<1>10. FlightsApart'  BY <1>2, <1>3 DEF Inv, FlightsApart
<1>11. WholeAlone'  BY <1>3, <1>4 DEF Inv, WholeAlone
<1> QED  BY <1>6, <1>7, <1>8, <1>9, <1>10, <1>11 DEF Inv

LEMMA InvNext ==
  ASSUME Cut, Inv, [Next]_vars
  PROVE  Inv'
<1>1. CASE UNCHANGED vars
  BY <1>1 DEF vars, Inv, TypeOK, FreeIsTheRest, ListedIffPartlyFree, NoPageLeaks, NeverShared,
     FlightsApart, WholeAlone, Settled, InFlight, Has, UnitsOf, Offsets
<1>2. ASSUME NEW t \in Threads, Grow(t) \/ NoPage(t)  PROVE Inv'
  BY <1>2, GrowStep
<1>3. ASSUME NEW t \in Threads, NEW o \in Objects, Alloc(t, o) \/ Install(t, o) \/ AllocPage(t, o)
      PROVE  Inv'
  BY <1>3, AllocStep, InstallStep, AllocPageStep
<1>4. ASSUME NEW t \in Threads, NEW o \in objects, FreePage(t, o) \/ Free(t, o) \/ FreeLast(t, o)
      PROVE  Inv'
  BY <1>4, FreePageStep, FreeStep, FreeLastStep
<1>5. ASSUME NEW t \in Threads, NEW p \in Pages, TakePage(t, p) \/ Release(t, p)
      PROVE  Inv'
  BY <1>5, TakePageStep, ReleaseStep
<1> QED  BY <1>1, <1>2, <1>3, <1>4, <1>5 DEF Next

LEMMA InvHolds == ASSUME Cut PROVE Spec => []Inv
<1>1. Init => Inv  BY InvInit
<1>2. Inv /\ [Next]_vars => Inv'  BY InvNext
<1> QED  BY <1>1, <1>2, PTL DEF Spec

--------------------------------------------------------------------------------
\* Every variable of the allocator keeps its type.
THEOREM TypeCorrect == ASSUME Cut PROVE Spec => []TypeOK
<1>1. Inv => TypeOK  BY DEF Inv
<1> QED  BY <1>1, InvHolds, PTL

\* The units of a page are free or an object's (slob_free gives back what
\* slob_alloc took), the lists hold the pages with free units, and the page
\* allocator has out what is in use: with threads that take and return pages
\* outside the lock.
THEOREM PagesAccountedFor ==
  ASSUME Cut PROVE Spec => [](FreeIsTheRest /\ ListedIffPartlyFree /\ NoPageLeaks)
<1>1. Inv => FreeIsTheRest /\ ListedIffPartlyFree /\ NoPageLeaks  BY DEF Inv
<1> QED  BY <1>1, InvHolds, PTL

\* A step gives out an object apart from all that are held, takes one back, or
\* is not seen by the callers.
LEMMA HeapStep == ASSUME Cut, Inv, [Next]_vars PROVE [H!Next]_objects
<1>1. \A o \in objects : o \in Objects  BY DEF Inv, TypeOK
<1>2. ASSUME NEW o \in Objects, objects' = objects \cup {o},
             \A u \in objects : o.page # u.page \/ UnitsOf(o) \cap UnitsOf(u) = {}
      PROVE  H!Next
  <2>1. \A u \in objects : H!Apart(o, u)
    BY <1>1, <1>2, RunsApart DEF H!Apart
  <2>2. o \in H!Objects  BY DEF Objects, H!Objects, Offsets
  <2>3. H!Alloc(o) /\ o \in objects'  BY <1>2, <2>1, <2>2 DEF H!Alloc
  <2> QED  BY <2>3 DEF H!Next
<1>3. ASSUME NEW t \in Threads, NEW o \in Objects, Alloc(t, o)  PROVE H!Next
  BY <1>2, <1>3, AllocApart DEF Alloc
<1>4. ASSUME NEW t \in Threads, NEW o \in Objects, Install(t, o)  PROVE H!Next
  BY <1>2, <1>4, InstallStep DEF Install
<1>5. ASSUME NEW t \in Threads, NEW o \in Objects, AllocPage(t, o)  PROVE H!Next
  BY <1>2, <1>5, AllocPageStep DEF AllocPage
<1>6. ASSUME NEW t \in Threads, NEW o \in objects, FreePage(t, o) \/ Free(t, o) \/ FreeLast(t, o)
      PROVE  H!Next
  BY <1>6 DEF FreePage, Free, FreeLast, H!Next, H!Free
<1>7. ASSUME NEW t \in Threads, NEW p \in Pages,
             TakePage(t, p) \/ Release(t, p)
      PROVE  objects' = objects
  BY <1>7 DEF TakePage, Release
<1>8. ASSUME NEW t \in Threads, Grow(t) \/ NoPage(t)  PROVE objects' = objects
  BY <1>8 DEF Grow, NoPage
<1>9. CASE UNCHANGED vars  BY <1>9 DEF vars
<1> QED  BY <1>3, <1>4, <1>5, <1>6, <1>7, <1>8, <1>9 DEF Next

\* Callers see a heap: what kmalloc and kmem_cache_alloc give out shares no
\* memory with what is held, and only kfree and kmem_cache_free end that.
THEOREM ArenaIsHeap == ASSUME Cut PROVE Spec => ImplementsHeap
<1>1. Init => H!Init  BY DEF Init, H!Init
<1>2. Inv /\ [Next]_vars => [H!Next]_objects  BY HeapStep
<1> QED  BY <1>1, <1>2, InvHolds, PTL DEF Spec, ImplementsHeap, H!Spec
================================================================================
