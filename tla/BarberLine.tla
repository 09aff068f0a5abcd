------------------------------- MODULE BarberLine ------------------------------
(***************************************************************************)
(* Concurrency4b.c of the root directory: a barber shop with a line of     *)
(* chairs.  The chair of a customer is a local variable of line_push, in a *)
(* list that nobody ever walks; customers join the line under one mutex    *)
(* and leave it under another; the barber only looks at the number.  A     *)
(* step is a lock, an unlock or an access to what is shared.               *)
(***************************************************************************)
EXTENDS Integers, FiniteSets

CONSTANTS
  Customers,  \* c1 to c4 of main
  chairs      \* global_queue.chairs: 3

One == "one"     \* the chair in main, which lives as long as the program
NULL == "NULL"
NoThread == "nobody"
Seats == {One} \cup Customers   \* a customer's chair is in the frame of his push

VARIABLES
  number,     \* global_queue.number_of_customers
  current,    \* global_queue.current
  next,       \* global_queue.next
  nextOf,     \* the field next of the chairs
  add_lock, barber_lock,
  pc,
  ref,        \* what a customer's line_push has read of current
  seen,       \* what a customer has read of number in order to change it, or else 0
  barberAt,   \* where barber is
  copy        \* copy_of_customer_number, less the cuts already made

line == <<number, current, next, nextOf>>
locks == <<add_lock, barber_lock>>
barberVars == <<barberAt, copy>>
vars == <<line, locks, pc, ref, seen, barberVars>>

Goes(c, label) == pc' = [pc EXCEPT ![c] = label]

Init ==
  /\ number = 0 /\ current = One /\ next = NULL
  /\ nextOf = [x \in Seats |-> NULL]
  /\ add_lock = NoThread /\ barber_lock = NoThread
  /\ pc = [c \in Customers |-> "look"]
  /\ ref = [c \in Customers |-> NULL]
  /\ seen = [c \in Customers |-> 0]
  /\ barberAt = "copy" /\ copy = 0

\* The end of the process, with all its threads.
End ==
  /\ pc' = [c \in Customers |-> "killed"]
  /\ barberAt' = "killed"
  /\ UNCHANGED <<line, locks, ref, seen, copy>>

--------------------------------------------------------------------------------
Look(c) ==
  /\ pc[c] = "look"
  /\ Goes(c, IF number >= chairs THEN "gone" ELSE "lock add")
  /\ UNCHANGED <<line, locks, ref, seen, barberVars>>

\* Slips: no second look at the number; a chair popped as if it were in the line.
JustLink(c) ==
  /\ pc[c] = "test"
  /\ Goes(c, "link")
  /\ UNCHANGED <<line, locks, ref, seen, barberVars>>

PopFollowing(c) ==
  /\ pc[c] = "pop"
  /\ current' = IF current = NULL THEN NULL ELSE nextOf[current]
  /\ Goes(c, "unlock barber")
  /\ UNCHANGED <<number, next, nextOf, locks, ref, seen, barberVars>>

LockAdd(c) ==
  /\ pc[c] = "lock add"
  /\ add_lock = NoThread
  /\ add_lock' = c
  /\ Goes(c, "ref")
  /\ UNCHANGED <<line, barber_lock, ref, seen, barberVars>>

\* line_push.
Ref(c) ==
  /\ pc[c] = "ref"
  /\ ref' = [ref EXCEPT ![c] = current]
  /\ Goes(c, "test")
  /\ UNCHANGED <<line, locks, seen, barberVars>>

\* The caller is not told that there was no room, and goes on as if there was.
\* The walk to the end of the line is none: global_queue.next is NULL.
TestAgain(c) ==
  /\ pc[c] = "test"
  /\ next = NULL
  /\ Goes(c, IF number >= chairs THEN "unlock add" ELSE "link")
  /\ UNCHANGED <<line, locks, ref, seen, barberVars>>

Link(c) ==
  /\ pc[c] = "link"
  /\ ref[c] # NULL
  /\ nextOf' = [nextOf EXCEPT ![ref[c]] = c, ![c] = NULL]
  /\ Goes(c, "join")
  /\ UNCHANGED <<number, current, next, locks, ref, seen, barberVars>>

\* The dereference of NULL, when someone has been popped.
Fault(c) ==
  /\ pc[c] = "link"
  /\ ref[c] = NULL
  /\ End

\* The reads of ++ and of --.
Read(c) ==
  /\ pc[c] \in {"join", "part"}
  /\ seen' = [seen EXCEPT ![c] = number]
  /\ Goes(c, IF pc[c] = "join" THEN "joining" ELSE "parting")
  /\ UNCHANGED <<line, locks, ref, barberVars>>

WriteNumber(c, n) ==
  /\ number' = n
  /\ seen' = [seen EXCEPT ![c] = 0]
  /\ UNCHANGED <<current, next, nextOf, locks, ref, barberVars>>

Join(c) ==
  /\ pc[c] = "joining"
  /\ WriteNumber(c, seen[c] + 1)
  /\ Goes(c, "unlock add")

UnlockAdd(c) ==
  /\ pc[c] = "unlock add"
  /\ add_lock' = NoThread
  /\ ref' = [ref EXCEPT ![c] = NULL]
  /\ Goes(c, "lock barber")
  /\ UNCHANGED <<line, barber_lock, seen, barberVars>>

\* He gets his hair cut.
LockBarber(c) ==
  /\ pc[c] = "lock barber"
  /\ barber_lock = NoThread
  /\ barber_lock' = c
  /\ Goes(c, "part")
  /\ UNCHANGED <<line, add_lock, ref, seen, barberVars>>

\* line_pop.
Part(c) ==
  /\ pc[c] = "parting"
  /\ WriteNumber(c, seen[c] - 1)
  /\ Goes(c, "pop")

Pop(c) ==
  /\ pc[c] = "pop"
  /\ current' = next
  /\ next' = IF next # NULL THEN nextOf[next] ELSE next
  /\ Goes(c, "unlock barber")
  /\ UNCHANGED <<number, nextOf, locks, ref, seen, barberVars>>

UnlockBarber(c) ==
  /\ pc[c] = "unlock barber"
  /\ barber_lock' = NoThread
  /\ Goes(c, "gone")
  /\ UNCHANGED <<line, add_lock, ref, seen, barberVars>>

customer(c) ==
  \/ Look(c) \/ LockAdd(c) \/ Ref(c) \/ TestAgain(c) \/ Link(c) \/ Fault(c) \/ Read(c)
  \/ Join(c) \/ UnlockAdd(c) \/ LockBarber(c) \/ Part(c) \/ Pop(c) \/ UnlockBarber(c)

--------------------------------------------------------------------------------
\* The number is copied before the barber waits for it to be other than zero.
Copy ==
  /\ barberAt = "copy"
  /\ copy' = number
  /\ barberAt' = "sleep"
  /\ UNCHANGED <<line, locks, pc, ref, seen>>

Wake ==
  /\ barberAt = "sleep"
  /\ number # 0
  /\ barberAt' = "cut"
  /\ UNCHANGED <<line, locks, pc, ref, seen, copy>>

Cut ==
  /\ barberAt = "cut"
  /\ IF copy > 0
     THEN copy' = copy - 1 /\ UNCHANGED barberAt
     ELSE copy' = 0 /\ barberAt' = "copy"
  /\ UNCHANGED <<line, locks, pc, ref, seen>>

barber == Copy \/ Wake \/ Cut

sig_catch == barberAt # "killed" /\ End

\* main loops for ever.
Main == UNCHANGED vars

Next == (\E c \in Customers : customer(c)) \/ barber \/ sig_catch \/ Main

Spec == Init /\ [][Next]_vars

--------------------------------------------------------------------------------
TypeOK ==
  /\ number \in Int /\ copy \in Int
  /\ current \in Seats \cup {NULL} /\ next \in Seats \cup {NULL}
  /\ nextOf \in [Seats -> Seats \cup {NULL}]
  /\ add_lock \in Customers \cup {NoThread} /\ barber_lock \in Customers \cup {NoThread}
  /\ pc \in [Customers -> {"look", "lock add", "ref", "test", "link", "join", "joining",
                           "unlock add", "lock barber", "part", "parting", "pop",
                           "unlock barber", "gone", "killed"}]
  /\ ref \in [Customers -> Seats \cup {NULL}]
  /\ seen \in [Customers -> Int]
  /\ barberAt \in {"copy", "sleep", "cut", "killed"}

\* The chairs whose memory is there: those of customers in line_push.
Alive == {One} \cup {c \in Customers : pc[c] \in {"ref", "test", "link", "join", "joining"}}

\* The line holds pointers to chairs that are gone, but nobody follows one: what
\* is dereferenced is NULL or alive.
NoDeadChair ==
  /\ \A c \in Customers : pc[c] = "link" => ref[c] \in Alive \cup {NULL}
  /\ current \in Alive \cup {NULL}

\* However updates are lost between those who join, under one mutex, and those who
\* leave, under another, there are never more customers than chairs, and each of
\* the customers can have taken away but one.
NumberInRange == number \in -Cardinality(Customers) .. chairs

\* What a comment promises, a double check that the queue is not full: no one goes
\* to the barber who has not joined the line, and the number counts the line.
NumberIsOfCustomers == number >= 0

\* The program runs until it is interrupted.
NeverFaults == \A c \in Customers : pc[c] = "link" => ref[c] # NULL
================================================================================
