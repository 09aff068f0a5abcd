----------------------------- MODULE MCBarberShops -----------------------------
(***************************************************************************)
(* Instances for TLC of the two programs for one exercise, each of which   *)
(* counts customers in a variable that threads change under different      *)
(* mutexes, or none: a behaviour is one of either program, with four       *)
(* customers and three chairs.                                             *)
(***************************************************************************)
EXTENDS SleepingBarber, FiniteSets

VARIABLES
  program,
  number, current, next, nextOf, add_lock, barber_lock, ref, barberAt, copy,
  linePc, lineSeen

CONSTANT LineCustomers

ASSUME LineCustomersAssumption ==
  IsFiniteSet(LineCustomers) /\ LineCustomers \cap {"one", "NULL", "nobody"} = {}

L == INSTANCE BarberLine WITH
       Customers <- LineCustomers, chairs <- Chairs, pc <- linePc, seen <- lineSeen

lineVars == <<number, current, next, nextOf, add_lock, barber_lock, ref, barberAt, copy,
              linePc, lineSeen>>
shops == <<program, vars, lineVars>>

EitherInit == program \in {"sleeping barber", "line"} /\ Init /\ L!Init

InShop(step) == program = "sleeping barber" /\ step /\ UNCHANGED <<program, lineVars>>
InLine(step) == program = "line" /\ step /\ UNCHANGED <<program, vars>>

EitherNext ==
  \/ InShop(Arrive) \/ InShop(SpuriousWakeup) \/ InShop(barberShop)
  \/ \E c \in Customers : InShop(waiting_Room(c))
  \/ \E c \in LineCustomers : InLine(L!customer(c))
  \/ InLine(L!barber) \/ InLine(L!sig_catch) \/ InLine(L!Main)

EitherShop == EitherInit /\ [][EitherNext]_shops

EitherSpec ==
  /\ EitherShop
  /\ WF_shops(InShop(barberShop))
  /\ \A c \in Customers : WF_shops(InShop(waiting_Room(c)))

\* The properties of the program with the line.
NoDeadChair == L!NoDeadChair
NumberInRange == L!NumberInRange
NumberIsOfCustomers == L!NumberIsOfCustomers
NeverFaults == L!NeverFaults
================================================================================
