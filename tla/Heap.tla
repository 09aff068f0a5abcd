---------------------------------- MODULE Heap ---------------------------------
(***************************************************************************)
(* What a kernel allocator promises its callers: the objects in their      *)
(* hands never share memory, and one leaves their hands only when a caller *)
(* gives it back.  An object is a run of units within a page.              *)
(***************************************************************************)
EXTENDS Integers

CONSTANTS Pages, PageUnits

VARIABLE objects

Objects == {o \in [page : Pages, at : 0 .. PageUnits - 1, units : 1 .. PageUnits] :
              o.at + o.units <= PageUnits}

Apart(o, u) == \/ o.page # u.page
               \/ o.at + o.units <= u.at
               \/ u.at + u.units <= o.at

Init == objects = {}

Alloc(o) == /\ o \in Objects
            /\ \A u \in objects : Apart(o, u)
            /\ objects' = objects \cup {o}

Free(o) == objects' = objects \ {o}

Next == \/ \E o \in objects' : Alloc(o)
        \/ \E o \in objects : Free(o)

Spec == Init /\ [][Next]_objects
================================================================================
