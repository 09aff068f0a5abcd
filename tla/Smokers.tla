--------------------------------- MODULE Smokers -------------------------------
(***************************************************************************)
(* Concurrency5/Concurrency5.c: an agent puts two of three ingredients on  *)
(* a table, and the smoker who has the third takes them.  One semaphore    *)
(* guards the table, and a smoker who takes the items posts it twice.  A   *)
(* step is a semaphore call or one access to the table.                    *)
(***************************************************************************)
EXTENDS Integers, FiniteSets

CONSTANT
  SEM_VALUE_MAX  \* sem_post fails beyond it: 2^31 - 1

Ingredients == 0 .. 2
Smoker == Ingredients   \* a smoker is named by the ingredient that he has
Agent == 3
Threads == Smoker \cup {Agent}

VARIABLES
  table,        \* the value of the semaphore
  table_used,   \* whether the items on the table have been used
  table_items,
  drawn,        \* item1 and item2 of the agent, until they are on the table
  pc,
  overtaken     \* history: whether others have written to the table since a
                \* smoker saw that there is something on it, until he posts

locals == <<drawn, pc>>
vars == <<table, table_used, table_items, locals, overtaken>>

Goes(t, label) == pc' = [pc EXCEPT ![t] = label]

\* Globals of C are zero.
Init ==
  /\ table = 1
  /\ table_used = TRUE
  /\ table_items = <<0, 0>>
  /\ drawn = <<0, 0>>
  /\ pc = [t \in Threads |-> "wait"]
  /\ overtaken = [i \in Smoker |-> FALSE]

\* The smokers who go by what they have seen of the table.
Relying == {i \in Smoker : pc[i] \in {"first", "second", "pick", "use"}}

\* What a write to the table by t does to the others.
Overtake(t) == overtaken' = [i \in Smoker |-> i # t /\ (overtaken[i] \/ i \in Relying)]

\* A smoker goes on if what he has seen allows it, or else posts.
GoesOn(i, allowed, label) ==
  /\ Goes(i, IF allowed THEN label ELSE "post")
  /\ overtaken' = [overtaken EXCEPT ![i] = @ /\ allowed]

--------------------------------------------------------------------------------
sem_wait(t) ==
  /\ pc[t] = "wait"
  /\ table > 0
  /\ table' = table - 1
  /\ Goes(t, "test")
  /\ UNCHANGED <<table_used, table_items, drawn, overtaken>>

\* What posting leaves in the semaphore.
Posted == IF table < SEM_VALUE_MAX THEN table + 1 ELSE table

sem_post(t) ==
  /\ pc[t] = "post"
  /\ table' = Posted
  /\ Goes(t, "wait")
  /\ UNCHANGED <<table_used, table_items, drawn, overtaken>>

\* rand, twice, if the last items have been used.
Draw ==
  /\ pc[Agent] = "test"
  /\ IF table_used
     THEN \E items \in Ingredients \X Ingredients :
            IF items[1] # items[2]
            THEN Goes(Agent, "put first") /\ drawn' = items
            ELSE Goes(Agent, "post") /\ UNCHANGED drawn
     ELSE Goes(Agent, "post") /\ UNCHANGED drawn
  /\ UNCHANGED <<table, table_used, table_items, overtaken>>

PutFirst ==
  /\ pc[Agent] = "put first"
  /\ table_items' = [table_items EXCEPT ![1] = drawn[1]]
  /\ Overtake(Agent)
  /\ Goes(Agent, "put second")
  /\ UNCHANGED <<table, table_used, drawn>>

PutSecond ==
  /\ pc[Agent] = "put second"
  /\ table_items' = [table_items EXCEPT ![2] = drawn[2]]
  /\ drawn' = <<0, 0>>
  /\ Overtake(Agent)
  /\ Goes(Agent, "announce")
  /\ UNCHANGED <<table, table_used>>

Announce ==
  /\ pc[Agent] = "announce"
  /\ table_used' = FALSE
  /\ Overtake(Agent)
  /\ Goes(Agent, "post")
  /\ UNCHANGED <<table, table_items, drawn>>

agent == sem_wait(Agent) \/ Draw \/ PutFirst \/ PutSecond \/ Announce \/ sem_post(Agent)

\* A smoker looks whether there is something on the table, and what it is.
Look(i) ==
  /\ pc[i] = "test"
  /\ GoesOn(i, ~table_used, "first")
  /\ UNCHANGED <<table, table_used, table_items, drawn>>

\* Slips: he looks at one item only; he forgets to say that the items are used.
LookAtFirstOnly(i) ==
  /\ pc[i] = "first"
  /\ GoesOn(i, table_items[1] # i, "pick")
  /\ UNCHANGED <<table, table_used, table_items, drawn>>

LookAtFirst(i) ==
  /\ pc[i] = "first"
  /\ GoesOn(i, table_items[1] # i, "second")
  /\ UNCHANGED <<table, table_used, table_items, drawn>>

LookAtSecond(i) ==
  /\ pc[i] = "second"
  /\ GoesOn(i, table_items[2] # i, "pick")
  /\ UNCHANGED <<table, table_used, table_items, drawn>>

\* The post in the branches for each smoker, one of two: the one at the end of
\* the loop follows.
Pick(i) ==
  /\ pc[i] = "pick"
  /\ table' = Posted
  /\ Goes(i, "use")
  /\ UNCHANGED <<table_used, table_items, drawn, overtaken>>

UseSilently(i) ==
  /\ pc[i] = "use"
  /\ Overtake(i)
  /\ Goes(i, "post")
  /\ UNCHANGED <<table, table_used, table_items, drawn>>

Use(i) ==
  /\ pc[i] = "use"
  /\ table_used' = TRUE
  /\ Overtake(i)
  /\ Goes(i, "post")
  /\ UNCHANGED <<table, table_items, drawn>>

smokers(i) ==
  sem_wait(i) \/ Look(i) \/ LookAtFirst(i) \/ LookAtSecond(i) \/ Pick(i) \/ Use(i) \/ sem_post(i)

Next == agent \/ \E i \in Smoker : smokers(i)

Spec == Init /\ [][Next]_vars

\* Every thread runs; a semaphore that is posted again and again lets everyone in.
FairSpec ==
  /\ Spec
  /\ WF_vars(agent) /\ SF_vars(sem_wait(Agent))
  /\ \A i \in Smoker : WF_vars(smokers(i)) /\ SF_vars(sem_wait(i))

--------------------------------------------------------------------------------
TypeOK ==
  /\ table \in 0 .. SEM_VALUE_MAX
  /\ table_used \in BOOLEAN
  /\ table_items \in Ingredients \X Ingredients
  /\ drawn \in Ingredients \X Ingredients
  /\ pc \in [Threads -> {"wait", "test", "put first", "put second", "announce",
                         "first", "second", "pick", "use", "post"}]
  /\ overtaken \in [Smoker -> BOOLEAN]

OnTable == {table_items[1], table_items[2]}

\* The items are taken by the smoker who has neither, and by no other before he
\* says so - although he lets others in first - as long as no thread writes to
\* the table that he is looking at.
TakenByTheRightOne ==
  \A i \in Smoker : pc[i] \in {"pick", "use"} /\ ~overtaken[i] =>
    ~table_used /\ OnTable = Ingredients \ {i}

\* How many threads may be at the table together: those that are not waiting, and
\* those that the semaphore would let in.
Permits == table + Cardinality({t \in Threads : pc[t] # "wait"})

\* Only a smoker who has picked up the items makes room for one more thread at the
\* table, and no place at it is ever lost below the limit of a semaphore.
PlacesGrowByPicks ==
  [][/\ Permits' > Permits => \E s \in Smoker : pc[s] = "pick" /\ pc'[s] = "use"
     /\ Permits' < Permits => table = SEM_VALUE_MAX]_vars

\* What the agent puts on the table is taken in the end, whatever has been torn
\* apart before.
AllTakenInTheEnd == ~table_used ~> table_used

\* What the names of the semaphore and the messages say: one thread at a time is
\* at the table, and who picks up the items has neither of them.
OneAtTheTable == Cardinality({t \in Threads : pc[t] \notin {"wait", "post"}}) <= 1
PicksUpTheOthers == \A i \in Smoker : pc[i] = "pick" => i \notin OnTable
================================================================================
