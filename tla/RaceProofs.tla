------------------------------- MODULE RaceProofs ------------------------------
(***************************************************************************)
(* What is proved of the programs that have races: the two barber shops,   *)
(* the smokers and the resource for three, as their MC modules have them.  *)
(***************************************************************************)
EXTENDS MCBarberShops, MCSmokers, MCResourceThree, FiniteSetTheorems, TLAPS

--------------------------------------------------------------------------------
\* The barber shop with condition variables: an inductive invariant of it.

\* Who decides owns the mutex.
OwnerDecides == \A c \in Customers : pc[c] \in Deciding => queue = c

Arrived == \A c \in Customers : pc[c] # "none" => c <= i

\* curr is one too large only while a customer sees that it is and takes it back.
NotTooLarge ==
  /\ curr <= Chairs
  /\ curr = Chairs =>
       \E c \in Customers : pc[c] \in {"free chair?", "full?", "read again", "leave"}
  /\ \A c \in Customers :
       /\ pc[c] = "enter" => seen["customer"] <= Chairs - 1
       /\ pc[c] = "leave" => seen["customer"] <= Chairs
  /\ barber = "count" => seen["barber"] <= Chairs

\* Without a race the barber has a customer, and who is refused sees a full shop.
NotTooSmall ==
  ~raced =>
    /\ curr >= 0
    /\ barber \in {"cut", "count"} => curr >= 1
    /\ \A c \in Customers :
         /\ pc[c] \in {"full?", "read again"} => curr >= Chairs
         /\ pc[c] = "leave" => seen["customer"] >= Chairs

ShopInv == TypeOK /\ Arrived /\ OwnerDecides /\ NotTooLarge /\ NotTooSmall

LEMMA ShopInit == Init => ShopInv
<1> SUFFICES ASSUME Init PROVE ShopInv OBVIOUS
<1>1. curr \in Int BY DEF Init
<1>2. queue \in Customers \cup {Nobody} /\ i \in 0 .. Chairs + 1 BY ChairsAssumption DEF Init
<1>3. pc \in [Customers -> Deciding \cup {"none", "lock", "to wait", "waiting"}] BY DEF Init
<1>4. barber = "look" /\ raced = FALSE /\ sleeping = FALSE BY DEF Init
<1>5. seen \in [{"customer", "barber"} -> Int] BY DEF Init
<1>6. TypeOK BY <1>1, <1>2, <1>3, <1>4, <1>5 DEF TypeOK
<1>7. \A c \in Customers : pc[c] = "none" BY DEF Init
<1>8. OwnerDecides BY <1>7 DEF OwnerDecides, Deciding
<1>9. NotTooLarge BY <1>7, <1>4, ChairsAssumption DEF NotTooLarge, Init
<1>10. NotTooSmall BY <1>7, <1>4, ChairsAssumption DEF NotTooSmall, Init
<1>11. Arrived BY <1>7 DEF Arrived
<1>12. QED BY <1>6, <1>8, <1>9, <1>10, <1>11 DEF ShopInv

\* At most one customer decides.
LEMMA OneDecides ==
  ASSUME ShopInv, NEW c \in Customers, pc[c] \in Deciding
  PROVE  /\ queue = c /\ queue # Nobody
         /\ \A d \in Customers \ {c} : pc[d] \notin Deciding
BY ChairsAssumption DEF ShopInv, OwnerDecides, Customers, Nobody

LEMMA Numbers ==
  ASSUME ShopInv
  PROVE  /\ curr \in Int /\ Chairs \in Int /\ Chairs >= 2 /\ i \in Int
         /\ seen["customer"] \in Int /\ seen["barber"] \in Int
<1>1. curr \in Int BY DEF ShopInv, TypeOK
<1>2. Chairs \in Int /\ Chairs >= 2 BY ChairsAssumption
<1>3. i \in 0 .. Chairs + 1 BY DEF ShopInv, TypeOK
<1>4. seen \in [{"customer", "barber"} -> Int] BY DEF ShopInv, TypeOK
<1>5. seen["customer"] \in Int BY <1>4
<1>6. seen["barber"] \in Int BY <1>4
<1>7. i \in Int BY <1>2, <1>3
<1>8. QED BY <1>1, <1>2, <1>5, <1>6, <1>7

LEMMA Moved ==
  ASSUME ShopInv, NEW c \in Customers, NEW label, Goes(c, label)
  PROVE  /\ pc'[c] = label
         /\ \A d \in Customers \ {c} : pc'[d] = pc[d]
         /\ label \in Deciding \cup {"none", "lock", "to wait", "waiting"} =>
              pc' \in [Customers -> Deciding \cup {"none", "lock", "to wait", "waiting"}]
BY DEF ShopInv, TypeOK, Goes

LEMMA SeenNow ==
  ASSUME ShopInv, NEW who \in {"customer", "barber"}, NEW n \in Int,
         seen' = [seen EXCEPT ![who] = n]
  PROVE  /\ seen' \in [{"customer", "barber"} -> Int]
         /\ seen'[who] = n
         /\ \A o \in {"customer", "barber"} \ {who} : seen'[o] = seen[o]
BY DEF ShopInv, TypeOK

LEMMA Written ==
  ASSUME ShopInv, NEW who \in {"customer", "barber"}, NEW change \in {1, -1}, WriteBy(who, change)
  PROVE  /\ curr' \in Int
         /\ seen[who] >= 0 => curr' = seen[who] + change
         /\ seen[who] < 0 => curr' <= 0
         /\ curr # seen[who] => raced'
         /\ raced => raced'
         /\ who = "barber" /\ Refused => raced'
         /\ raced' \in BOOLEAN
         /\ seen' \in [{"customer", "barber"} -> Int]
         /\ seen'[who] = 0
         /\ \A o \in {"customer", "barber"} \ {who} : seen'[o] = seen[o]
<1>1. seen[who] \in Int BY DEF ShopInv, TypeOK
<1>2. curr' = IF seen[who] + change < -2 THEN -2 ELSE seen[who] + change BY DEF WriteBy, LeastCurr
<1> DEFINE s == seen[who]
<1>3. s \in Int BY <1>1
<1>4. curr' = IF s + change < -2 THEN -2 ELSE s + change BY <1>2
<1> HIDE DEF s
<1>5. /\ curr' \in Int
      /\ s >= 0 => curr' = s + change
      /\ s < 0 => curr' <= 0
  <2>1. CASE change = 1 BY <1>3, <1>4, <2>1
  <2>2. CASE change = -1 BY <1>3, <1>4, <2>2
  <2>3. QED BY <2>1, <2>2
<1>6. raced' = (raced \/ curr # seen[who] \/ (who = "barber" /\ Refused)) BY DEF WriteBy
<1>7. raced' \in BOOLEAN /\ (curr # seen[who] => raced') /\ (raced => raced')
      /\ (who = "barber" /\ Refused => raced')
  BY <1>6
<1>8. seen' = [seen EXCEPT ![who] = 0] BY DEF WriteBy
<1>9. /\ seen' \in [{"customer", "barber"} -> Int] /\ seen'[who] = 0
      /\ \A o \in {"customer", "barber"} \ {who} : seen'[o] = seen[o]
  <2>1. 0 \in Int OBVIOUS
  <2>2. QED BY ONLY <1>8, <2>1, SeenNow, ShopInv, who \in {"customer", "barber"}
<1>10. QED BY <1>5, <1>7, <1>9 DEF s

Labels == Deciding \cup {"none", "lock", "to wait", "waiting"}
SeesItFull == {"free chair?", "full?", "read again", "leave"}

\* A customer who neither reads curr into his hands nor writes it.
LEMMA QuietStep ==
  ASSUME ShopInv, NEW c \in Customers, NEW label \in Labels \ {"enter", "leave"}, Goes(c, label),
         UNCHANGED <<curr, seen>>, raced => raced', raced' \in BOOLEAN, sleeping' \in BOOLEAN,
         i' \in 0 .. Chairs + 1, i' \in {i, i + 1}, c <= i', queue' \in Customers \cup {Nobody},
         barber' = barber \/ barber' \in {"awake", "look"},
         pc[c] \in SeesItFull => label \in SeesItFull \/ curr # Chairs,
         label \in {"full?", "read again"} => curr >= Chairs,
         label \in Deciding => queue' = c,
         \A d \in Customers \ {c} : pc[d] \in Deciding => queue' = queue
  PROVE  ShopInv'
<1>1. /\ pc'[c] = label /\ \A d \in Customers \ {c} : pc'[d] = pc[d]
      /\ pc' \in [Customers -> Labels]
  BY Moved DEF Labels
<1>2. TypeOK' BY <1>1 DEF ShopInv, TypeOK, Labels
<1>3. OwnerDecides' BY <1>1 DEF ShopInv, OwnerDecides
<1>4. NotTooLarge'
  <2>1. curr = Chairs => \E d \in Customers : pc'[d] \in SeesItFull
    <3> SUFFICES ASSUME curr = Chairs PROVE \E d \in Customers : pc'[d] \in SeesItFull OBVIOUS
    <3>1. PICK d \in Customers : pc[d] \in SeesItFull BY DEF ShopInv, NotTooLarge, SeesItFull
    <3>2. CASE d = c
      <4>1. label \in SeesItFull BY <3>1, <3>2
      <4>2. QED BY <1>1, <4>1
    <3>3. CASE d # c BY <1>1, <3>1, <3>3
    <3>4. QED BY <3>2, <3>3
  <2>2. \A d \in Customers : pc'[d] \in {"enter", "leave"} => pc'[d] = pc[d] BY <1>1
  <2>3. QED BY <2>1, <2>2 DEF ShopInv, NotTooLarge, SeesItFull
<1>5. NotTooSmall'
  <2>1. \A d \in Customers : pc'[d] \in {"full?", "read again"} => curr >= Chairs \/ pc'[d] = pc[d] BY <1>1
  <2>2. \A d \in Customers : pc'[d] = "leave" => pc'[d] = pc[d] BY <1>1
  <2>3. QED BY <2>1, <2>2 DEF ShopInv, NotTooSmall
<1>6. Arrived'
  <2>1. \A d \in Customers : pc'[d] # "none" => d = c \/ d <= i BY <1>1 DEF ShopInv, Arrived
  <2>2. i <= i' /\ i \in Int /\ i' \in Int BY ONLY Numbers, ShopInv, i' \in {i, i + 1}
  <2>3. \A d \in Customers : d \in Int BY ONLY Numbers, ShopInv DEF Customers
  <2>4. QED BY ONLY <2>1, <2>2, <2>3, c <= i' DEF Arrived
<1>7. QED BY <1>2, <1>3, <1>4, <1>5, <1>6 DEF ShopInv

LEMMA EnterStep ==
  ASSUME ShopInv, NEW c \in Customers, Enter(c)
  PROVE  ShopInv'
<1> USE DEF Deciding
<1>1. queue = c /\ pc[c] = "enter" /\ \A d \in Customers \ {c} : pc[d] \notin Deciding
  BY OneDecides DEF Enter
<1>2. pc'[c] = "free chair?" /\ (\A d \in Customers \ {c} : pc'[d] = pc[d])
      /\ pc' \in [Customers -> Deciding \cup {"none", "lock", "to wait", "waiting"}]
  BY Moved DEF Enter
<1>3. UNCHANGED <<sleeping, queue, i, barber>> /\ WriteBy("customer", 1) BY DEF Enter
<1>4. /\ curr' \in Int /\ (seen["customer"] >= 0 => curr' = seen["customer"] + 1)
      /\ (seen["customer"] < 0 => curr' <= 0)
  BY <1>3, Written
<1>5. TypeOK' BY <1>2, <1>3, Written DEF ShopInv, TypeOK
<1>6. OwnerDecides' BY <1>1, <1>2, <1>3 DEF OwnerDecides
<1>7. NotTooLarge'
  <2>1. seen["customer"] <= Chairs - 1 BY <1>1 DEF ShopInv, NotTooLarge
  <2>2. curr' <= Chairs BY <1>4, <2>1, Numbers
  <2>3. seen'["barber"] = seen["barber"] BY <1>3, Written
  <2>4. \A d \in Customers : pc'[d] \notin {"enter", "leave"} BY <1>1, <1>2
  <2>5. barber' = "count" => seen'["barber"] <= Chairs BY <1>3, <2>3 DEF ShopInv, NotTooLarge
  <2>6. QED BY <1>2, <2>2, <2>4, <2>5 DEF NotTooLarge
<1>8. NotTooSmall'
  <2> SUFFICES ASSUME ~raced' PROVE NotTooSmall' BY DEF NotTooSmall
  <2>1. ~raced /\ curr = seen["customer"] BY <1>3, Written
  <2>2. curr >= 0 /\ (barber \in {"cut", "count"} => curr >= 1) BY <2>1 DEF ShopInv, NotTooSmall
  <2>3. curr' = curr + 1 BY <1>4, <2>1, <2>2, Numbers
  <2>4. \A d \in Customers : pc'[d] \notin {"full?", "read again", "leave"} BY <1>1, <1>2
  <2>5. curr' >= 0 /\ curr' >= 1 BY <2>2, <2>3, Numbers
  <2>6. QED BY <2>4, <2>5 DEF NotTooSmall
<1>9. Arrived' BY <1>1, <1>2, <1>3 DEF ShopInv, Arrived
<1>10. QED BY <1>5, <1>6, <1>7, <1>8, <1>9 DEF ShopInv

LEMMA LeaveStep ==
  ASSUME ShopInv, NEW c \in Customers, Leave(c)
  PROVE  ShopInv'
<1>1. queue = c /\ pc[c] = "leave" /\ \A d \in Customers \ {c} : pc[d] \notin Deciding
  BY OneDecides DEF Leave, Deciding
<1>2. pc'[c] = "unlock" /\ (\A d \in Customers \ {c} : pc'[d] = pc[d])
      /\ pc' \in [Customers -> Labels]
  BY Moved DEF Leave, Labels, Deciding
<1>3. UNCHANGED <<sleeping, queue, i, barber>> /\ WriteBy("customer", -1) BY DEF Leave
<1>4. /\ curr' \in Int /\ (seen["customer"] >= 0 => curr' = seen["customer"] - 1)
      /\ (seen["customer"] < 0 => curr' <= 0)
      /\ seen'["barber"] = seen["barber"]
  BY <1>3, Written
<1>5. TypeOK' BY <1>2, <1>3, Written DEF ShopInv, TypeOK, Labels
<1>6. OwnerDecides' BY <1>1, <1>2, <1>3 DEF OwnerDecides
<1>7. NotTooLarge'
  <2>1. seen["customer"] <= Chairs BY <1>1 DEF ShopInv, NotTooLarge
  <2>2. curr' < Chairs BY <1>4, <2>1, Numbers
  <2>3. curr' <= Chairs /\ curr' # Chairs BY <2>2, <1>4, Numbers
  <2>4. \A d \in Customers : pc'[d] \notin {"enter", "leave"} BY <1>1, <1>2 DEF Deciding
  <2>5. barber' = "count" => seen'["barber"] <= Chairs BY <1>3, <1>4 DEF ShopInv, NotTooLarge
  <2>6. QED BY <2>3, <2>4, <2>5 DEF NotTooLarge
<1>8. NotTooSmall'
  <2> SUFFICES ASSUME ~raced' PROVE NotTooSmall' BY DEF NotTooSmall
  <2>1. ~raced BY <1>3, Written
  <2>2. seen["customer"] >= Chairs BY <1>1, <2>1 DEF ShopInv, NotTooSmall
  <2>3. curr' >= 0 /\ curr' >= 1 BY <1>4, <2>2, Numbers
  <2>4. \A d \in Customers : pc'[d] \notin {"full?", "read again", "leave"} BY <1>1, <1>2 DEF Deciding
  <2>5. QED BY <2>3, <2>4 DEF NotTooSmall
<1>9. Arrived' BY <1>1, <1>2, <1>3 DEF ShopInv, Arrived
<1>10. QED BY <1>5, <1>6, <1>7, <1>8, <1>9 DEF ShopInv

LEMMA ReadStep ==
  ASSUME ShopInv, NEW c \in Customers, Read(c)
  PROVE  ShopInv'
<1>1. /\ queue = c /\ pc[c] \in {"read", "read again"}
      /\ \A d \in Customers \ {c} : pc[d] \notin Deciding
  BY OneDecides DEF Read, Deciding
<1> DEFINE label == IF pc[c] = "read" THEN "enter" ELSE "leave"
<1>2. pc'[c] = label /\ (\A d \in Customers \ {c} : pc'[d] = pc[d])
      /\ pc' \in [Customers -> Labels]
  <2>1. Goes(c, label) /\ label \in Labels BY DEF Read, Labels, Deciding
  <2> HIDE DEF label
  <2>2. QED BY <2>1, Moved DEF Labels
<1>3. UNCHANGED <<curr, sleeping, queue, i, barber, raced>> BY DEF Read
<1>4. seen' = [seen EXCEPT !["customer"] = curr] /\ curr \in Int BY Numbers DEF Read, ReadBy
<1>5. /\ seen' \in [{"customer", "barber"} -> Int]
      /\ seen'["customer"] = curr /\ seen'["barber"] = seen["barber"]
  BY ONLY <1>4, SeenNow, ShopInv
<1>6. TypeOK' BY <1>2, <1>3, <1>5 DEF ShopInv, TypeOK, Labels
<1>7. OwnerDecides' BY <1>1, <1>2, <1>3 DEF OwnerDecides
<1>8. label = "enter" => curr # Chairs
  BY <1>1 DEF ShopInv, NotTooLarge, Deciding
<1>9. NotTooLarge'
  <2>0. curr <= Chairs BY DEF ShopInv, NotTooLarge
  <2>1. curr <= Chairs /\ (curr # Chairs => curr <= Chairs - 1) BY ONLY <2>0, Numbers, ShopInv
  <2>2. curr = Chairs => \E d \in Customers : pc'[d] \in SeesItFull BY <1>2, <1>8 DEF SeesItFull
  <2>3. \A d \in Customers : pc'[d] = "enter" => d = c /\ label = "enter" BY <1>1, <1>2 DEF Deciding
  <2>4. \A d \in Customers : pc'[d] = "enter" => curr <= Chairs - 1 BY <1>8, <2>1, <2>3
  <2>5. barber = "count" => seen["barber"] <= Chairs BY DEF ShopInv, NotTooLarge
  <2>6. QED BY ONLY <1>3, <1>5, <2>1, <2>2, <2>4, <2>5 DEF NotTooLarge, SeesItFull
<1>10. NotTooSmall'
  <2> SUFFICES ASSUME ~raced PROVE NotTooSmall' BY <1>3 DEF NotTooSmall
  <2>1. curr >= 0 /\ (barber \in {"cut", "count"} => curr >= 1) BY DEF ShopInv, NotTooSmall
  <2>2. pc[c] = "read again" => curr >= Chairs BY DEF ShopInv, NotTooSmall
  <2>3. \A d \in Customers : pc'[d] = "leave" => d = c /\ pc[c] = "read again"
    BY <1>1, <1>2 DEF Deciding
  <2>4. \A d \in Customers : pc'[d] = "leave" => seen'["customer"] >= Chairs BY <1>5, <2>2, <2>3
  <2>5. curr' >= 0 /\ (barber' \in {"cut", "count"} => curr' >= 1) BY <1>3, <2>1
  <2>6. \A d \in Customers : pc'[d] \notin {"full?", "read again"}
    <3>1. pc'[c] \notin {"full?", "read again"} BY <1>2
    <3>2. QED BY <1>1, <1>2, <3>1 DEF Deciding
  <2>7. QED BY <2>4, <2>5, <2>6 DEF NotTooSmall
<1>11. Arrived' BY <1>1, <1>2, <1>3 DEF ShopInv, Arrived
<1>12. QED BY <1>6, <1>7, <1>9, <1>10, <1>11 DEF ShopInv

LEMMA CustomerStep ==
  ASSUME ShopInv, NEW c \in Customers, waiting_Room(c)
  PROVE  ShopInv'
<1> USE DEF Labels, Deciding, SeesItFull
<1>1. TypeOK BY DEF ShopInv
<1>2. /\ sleeping \in BOOLEAN /\ raced \in BOOLEAN /\ i \in 0 .. Chairs + 1
      /\ queue \in Customers \cup {Nobody}
  BY <1>1 DEF TypeOK
<1>3. /\ pc[c] \in Deciding => queue = c /\ \A d \in Customers \ {c} : pc[d] \notin Deciding
      /\ pc[c] # "none" => c <= i
  BY OneDecides DEF ShopInv, Arrived
<1>4. \A d \in Customers : pc[d] \in Deciding => queue = d BY DEF ShopInv, OwnerDecides
<1>5. CASE LockQueue(c)
  <2>1. \A d \in Customers \ {c} : pc[d] \notin Deciding BY <1>5, OneDecides DEF LockQueue
  <2>2. QED BY ONLY <1>5, <1>2, <1>3, <2>1, QuietStep, ShopInv, c \in Customers DEF LockQueue
<1>6. CASE FindsChair(c)
  <2>1. CASE curr < Chairs
    <3>1. Goes(c, "asleep?") BY <1>6, <2>1 DEF FindsChair
    <3>2. curr # Chairs BY ONLY <2>1, Numbers, ShopInv
    <3>3. QED BY ONLY <1>6, <1>2, <1>3, <3>1, <3>2, QuietStep, ShopInv, c \in Customers DEF FindsChair
  <2>2. CASE ~(curr < Chairs)
    <3>1. Goes(c, "full?") BY <1>6, <2>2 DEF FindsChair
    <3>2. curr >= Chairs BY ONLY <2>2, Numbers, ShopInv
    <3>3. QED BY ONLY <1>6, <1>2, <1>3, <3>1, <3>2, QuietStep, ShopInv, c \in Customers DEF FindsChair
  <2>3. QED BY <2>1, <2>2
<1>7. CASE LooksAtBarber(c)
  <2>1. PICK label \in {"wake", "sit"} : Goes(c, label) BY <1>7 DEF LooksAtBarber
  <2>2. (raced => raced') /\ raced' \in BOOLEAN BY <1>7, <1>2 DEF LooksAtBarber
  <2>3. QED BY ONLY <1>7, <1>2, <1>3, <2>1, <2>2, QuietStep, ShopInv, c \in Customers DEF LooksAtBarber
<1>8. CASE WakesBarber(c)
  <2>1. (raced => raced') /\ raced' \in BOOLEAN BY <1>8, <1>2 DEF WakesBarber
  <2>2. barber' = barber \/ barber' \in {"awake", "look"} BY <1>8 DEF WakesBarber
  <2>3. QED BY ONLY <1>8, <1>2, <1>3, <2>1, <2>2, QuietStep, ShopInv, c \in Customers DEF WakesBarber
<1>9. CASE Sits(c)
  BY ONLY <1>9, <1>2, <1>3, QuietStep, ShopInv, c \in Customers DEF Sits
<1>10. CASE Waits(c)
  BY ONLY <1>10, <1>2, <1>3, QuietStep, ShopInv, c \in Customers DEF Waits
<1>11. CASE FindsItFull(c)
  <2>1. CASE curr >= Chairs
    <3>1. Goes(c, "read again") BY <1>11, <2>1 DEF FindsItFull
    <3>2. QED BY ONLY <1>11, <1>2, <1>3, <2>1, <3>1, QuietStep, ShopInv, c \in Customers DEF FindsItFull
  <2>2. CASE ~(curr >= Chairs)
    <3>1. Goes(c, "lock") /\ curr # Chairs BY <1>11, <2>2, Numbers DEF FindsItFull
    <3>2. QED BY ONLY <1>11, <1>2, <1>3, <3>1, QuietStep, ShopInv, c \in Customers DEF FindsItFull
  <2>3. QED BY <2>1, <2>2
<1>12. CASE Unlock(c)
  BY ONLY <1>12, <1>2, <1>3, QuietStep, ShopInv, c \in Customers DEF Unlock
<1>13. QED
  BY <1>5, <1>6, <1>7, <1>8, <1>9, <1>10, <1>11, <1>12, ReadStep, EnterStep, LeaveStep DEF waiting_Room

\* The barber, who does not count.
LEMMA BarberQuiet ==
  ASSUME ShopInv, UNCHANGED <<curr, seen, queue, i, pc, raced>>, sleeping' \in BOOLEAN,
         barber' \in {"look", "doze", "to sleep", "asleep", "awake", "cut", "call"},
         barber' = "cut" => curr # 0
  PROVE  ShopInv'
<1>1. TypeOK' BY DEF ShopInv, TypeOK
<1>2. OwnerDecides' BY DEF ShopInv, OwnerDecides
<1>3. NotTooLarge' BY DEF ShopInv, NotTooLarge
<1>4. NotTooSmall'
  <2>1. curr # 0 /\ curr >= 0 => curr >= 1 BY ONLY Numbers, ShopInv
  <2>2. QED BY <2>1 DEF ShopInv, NotTooSmall
<1>5. Arrived' BY DEF ShopInv, Arrived
<1>6. QED BY <1>1, <1>2, <1>3, <1>4, <1>5 DEF ShopInv

LEMMA CutStep == ASSUME ShopInv, Cut PROVE ShopInv'
<1>1. UNCHANGED <<curr, sleeping, queue, i, pc, raced>> /\ barber = "cut" /\ barber' = "count" BY DEF Cut
<1>2. seen' = [seen EXCEPT !["barber"] = curr] /\ curr \in Int BY Numbers DEF Cut, ReadBy
<1>3. /\ seen' \in [{"customer", "barber"} -> Int]
      /\ seen'["barber"] = curr /\ seen'["customer"] = seen["customer"]
  BY ONLY <1>2, SeenNow, ShopInv
<1>4. TypeOK' BY <1>1, <1>3 DEF ShopInv, TypeOK
<1>5. OwnerDecides' BY <1>1 DEF ShopInv, OwnerDecides
<1>6. NotTooLarge' BY <1>1, <1>3 DEF ShopInv, NotTooLarge
<1>7. NotTooSmall' BY <1>1, <1>3 DEF ShopInv, NotTooSmall
<1>8. Arrived' BY <1>1 DEF ShopInv, Arrived
<1>9. QED BY <1>4, <1>5, <1>6, <1>7, <1>8 DEF ShopInv

LEMMA CountStep == ASSUME ShopInv, Count PROVE ShopInv'
<1>1. UNCHANGED <<sleeping, queue, i, pc>> /\ barber = "count" /\ barber' = "call" /\ WriteBy("barber", -1)
  BY DEF Count
<1>2. /\ curr' \in Int /\ (seen["barber"] >= 0 => curr' = seen["barber"] - 1)
      /\ (seen["barber"] < 0 => curr' <= 0)
      /\ seen'["customer"] = seen["customer"]
  BY <1>1, Written
<1>3. TypeOK' BY <1>1, Written DEF ShopInv, TypeOK
<1>4. OwnerDecides' BY <1>1 DEF ShopInv, OwnerDecides
<1>5. NotTooLarge'
  <2>1. seen["barber"] <= Chairs BY <1>1 DEF ShopInv, NotTooLarge
  <2>2. curr' < Chairs BY <1>2, <2>1, Numbers
  <2>3. curr' <= Chairs /\ curr' # Chairs BY <2>2, <1>2, Numbers
  <2>4. QED BY <1>1, <1>2, <2>3 DEF ShopInv, NotTooLarge
<1>6. NotTooSmall'
  <2> SUFFICES ASSUME ~raced' PROVE NotTooSmall' BY DEF NotTooSmall
  <2>1. ~raced /\ ~Refused /\ curr = seen["barber"] BY <1>1, Written
  <2>2. curr >= 1 BY <1>1, <2>1 DEF ShopInv, NotTooSmall
  <2>3. curr' >= 0 BY <1>2, <2>1, <2>2, Numbers
  <2>4. \A c \in Customers : pc[c] \notin {"full?", "read again"}
    BY <2>1, OneDecides DEF Refused, Deciding
  <2>5. QED BY <1>1, <1>2, <2>1, <2>3, <2>4 DEF ShopInv, NotTooSmall
<1>7. Arrived' BY <1>1 DEF ShopInv, Arrived
<1>8. QED BY <1>3, <1>4, <1>5, <1>6, <1>7 DEF ShopInv

LEMMA OtherSteps ==
  ASSUME ShopInv, Arrive \/ SpuriousWakeup \/ barberShop
  PROVE  ShopInv'
<1> USE DEF Labels, Deciding
<1>1. /\ sleeping \in BOOLEAN /\ raced \in BOOLEAN /\ i \in 0 .. Chairs + 1
      /\ queue \in Customers \cup {Nobody}
  BY DEF ShopInv, TypeOK
<1>2. ASSUME NEW c \in Customers, pc[c] = "waiting", Goes(c, "lock"),
             UNCHANGED <<curr, sleeping, queue, i, seen, raced>>, barber' \in {barber, "look"}
      PROVE  ShopInv'
  <2>1. c <= i BY <1>2 DEF ShopInv, Arrived
  <2>2. pc[c] \notin SeesItFull BY <1>2 DEF SeesItFull
  <2>3. QED BY ONLY <1>1, <1>2, <2>1, <2>2, QuietStep, ShopInv
<1>3. CASE Arrive
  <2>1. i + 1 \in Customers /\ i + 1 \in 0 .. Chairs + 1 /\ i + 1 > i /\ i + 1 <= i + 1
    BY ONLY <1>3, <1>1, Numbers, ShopInv DEF Arrive, Customers
  <2>2. PICK c \in Customers : c = i + 1 BY <2>1
  <2>3. pc[c] = "none" BY <2>1, <2>2, Numbers DEF ShopInv, Arrived
  <2>4. i' = c /\ c \in 0 .. Chairs + 1 /\ i' \in {i, i + 1} /\ c <= i' BY <1>3, <2>1, <2>2 DEF Arrive
  <2>5. Goes(c, "lock") BY <1>3, <2>2 DEF Arrive
  <2>6. pc[c] \notin SeesItFull BY <2>3 DEF SeesItFull
  <2>7. UNCHANGED <<curr, sleeping, queue, barber, seen, raced>> BY <1>3 DEF Arrive
  <2>8. QED BY ONLY <1>1, <2>4, <2>5, <2>6, <2>7, QuietStep, ShopInv, c \in Customers
<1>4. CASE SpuriousWakeup
  <2>1. CASE barber' = "awake" /\ UNCHANGED pc BY ONLY <1>1, <1>4, <2>1, BarberQuiet, ShopInv DEF SpuriousWakeup
  <2>2. QED BY <1>2, <1>4, <2>1 DEF SpuriousWakeup
<1>5. CASE Look BY ONLY <1>1, <1>5, BarberQuiet, ShopInv DEF Look
<1>6. CASE Doze BY ONLY <1>1, <1>6, BarberQuiet, ShopInv DEF Doze
<1>7. CASE Sleep BY ONLY <1>1, <1>7, BarberQuiet, ShopInv DEF Sleep
<1>8. CASE Awake BY ONLY <1>1, <1>8, BarberQuiet, ShopInv DEF Awake
<1>9. CASE Call
  <2>1. CASE UNCHANGED pc BY ONLY <1>1, <1>9, <2>1, BarberQuiet, ShopInv DEF Call
  <2>2. CASE \E c \in Customers : pc[c] = "waiting" /\ Goes(c, "lock")
    BY ONLY <1>2, <1>9, <2>2, ShopInv DEF Call
  <2>3. QED BY <1>9, <2>1, <2>2 DEF Call
<1>10. QED BY <1>3, <1>4, <1>5, <1>6, <1>7, <1>8, <1>9, CutStep, CountStep DEF barberShop

LEMMA ShopStep == ShopInv /\ [Next]_vars => ShopInv'
<1>1. CASE Next BY <1>1, CustomerStep, OtherSteps DEF Next
<1>2. CASE UNCHANGED vars
  BY <1>2 DEF vars, ShopInv, TypeOK, Arrived, OwnerDecides, NotTooLarge, NotTooSmall
<1>3. QED BY <1>1, <1>2

--------------------------------------------------------------------------------
\* The line.  A chair in it is that of main, or none.
Adding == {"ref", "test", "link", "join", "joining", "unlock add"}
OnlyOneChair ==
  /\ next = L!NULL /\ current \in {L!One, L!NULL}
  /\ \A c \in LineCustomers : ref[c] \in {L!One, L!NULL}

\* Those who join change the number one at a time, those who leave take from it.
JoinersAlone == \A c \in LineCustomers : linePc[c] \in Adding => add_lock = c
RoomForJoiner ==
  /\ number <= Chairs
  /\ \A c \in LineCustomers :
       /\ linePc[c] \in {"link", "join"} => number <= Chairs - 1
       /\ linePc[c] = "joining" => lineSeen[c] <= Chairs - 1
       /\ linePc[c] = "parting" => lineSeen[c] <= Chairs

\* Who has left has taken one off the number, at most.
Parted == {c \in LineCustomers : linePc[c] \in {"pop", "unlock barber", "gone", "killed"}}
OneOffEach ==
  /\ number >= -Cardinality(Parted)
  /\ \A c \in LineCustomers :
       linePc[c] \in {"joining", "parting"} => lineSeen[c] >= -Cardinality(Parted)

LineInv == L!TypeOK /\ OnlyOneChair /\ JoinersAlone /\ RoomForJoiner /\ OneOffEach

LEMMA Distinct == \A c \in LineCustomers : c # L!One /\ c # L!NULL /\ c # L!NoThread
BY LineCustomersAssumption DEF L!One, L!NULL, L!NoThread

LEMMA PartedFact ==
  /\ IsFiniteSet(Parted) /\ Cardinality(Parted) \in Nat
  /\ Cardinality(Parted) <= Cardinality(LineCustomers)
<1>1. Parted \subseteq LineCustomers BY DEF Parted
<1>2. QED BY <1>1, LineCustomersAssumption, FS_Subset, FS_CardinalityType

LEMMA PartedGrows ==
  ASSUME Parted \subseteq Parted'
  PROVE  /\ Cardinality(Parted) \in Nat /\ Cardinality(Parted') \in Nat
         /\ Cardinality(Parted) <= Cardinality(Parted')
<1>1. Parted' \subseteq LineCustomers BY DEF Parted
<1>2. IsFiniteSet(Parted') BY <1>1, LineCustomersAssumption, FS_Subset
<1>3. QED BY <1>2, PartedFact, FS_Subset, FS_CardinalityType

LEMMA LineInit == L!Init => LineInv
<1> SUFFICES ASSUME L!Init PROVE LineInv OBVIOUS
<1>1. \A c \in LineCustomers : linePc[c] = "look" /\ ref[c] = L!NULL BY DEF L!Init
<1>2. number = 0 /\ current = L!One /\ next = L!NULL /\ Chairs >= 0 BY ChairsAssumption DEF L!Init
<1>3. L!TypeOK BY DEF L!Init, L!TypeOK, L!Seats
<1>4. number >= -Cardinality(Parted) BY <1>2, PartedFact
<1>5. OnlyOneChair BY <1>1, <1>2 DEF OnlyOneChair
<1>6. JoinersAlone BY <1>1 DEF JoinersAlone, Adding
<1>7. RoomForJoiner BY <1>1, <1>2 DEF RoomForJoiner
<1>8. OneOffEach BY <1>1, <1>4 DEF OneOffEach
<1>9. QED BY <1>3, <1>5, <1>6, <1>7, <1>8 DEF LineInv

LineLabels == {"look", "lock add", "ref", "test", "link", "join", "joining", "unlock add", "lock barber",
               "part", "parting", "pop", "unlock barber", "gone", "killed"}

LEMMA LineMoved ==
  ASSUME LineInv, NEW c \in LineCustomers, NEW label \in LineLabels, L!Goes(c, label)
  PROVE  /\ linePc'[c] = label
         /\ \A d \in LineCustomers \ {c} : linePc'[d] = linePc[d]
         /\ linePc' \in [LineCustomers -> LineLabels]
BY DEF LineInv, L!TypeOK, L!Goes, LineLabels

LEMMA LineNumbers ==
  ASSUME LineInv
  PROVE  number \in Int /\ Chairs \in Int /\ \A c \in LineCustomers : lineSeen[c] \in Int
<1>1. number \in Int /\ lineSeen \in [LineCustomers -> Int] BY DEF LineInv, L!TypeOK
<1>2. Chairs \in Int BY ChairsAssumption
<1>3. QED BY <1>1, <1>2

LEMMA LessIsAbove == ASSUME NEW n \in Int, NEW p \in Nat, NEW q \in Nat, n >= -p, p <= q PROVE n >= -q
OBVIOUS

\* What is not lower than the customers who had left is not lower than those who have.
LEMMA StillAbove ==
  ASSUME Parted \subseteq Parted', NEW n \in Int, n >= -Cardinality(Parted)
  PROVE  n >= -Cardinality(Parted')
BY PartedGrows, LessIsAbove

\* A customer who neither reads the number into his hands nor writes it.
LEMMA LineQuiet ==
  ASSUME LineInv, NEW c \in LineCustomers, NEW label \in LineLabels \ {"joining", "parting"},
         L!Goes(c, label), UNCHANGED <<number, lineSeen>>, L!TypeOK', OnlyOneChair',
         label \in Adding => add_lock' = c,
         \A d \in LineCustomers \ {c} : linePc[d] \in Adding => add_lock' = add_lock,
         label \in {"link", "join"} => number <= Chairs - 1,
         linePc[c] \notin {"pop", "unlock barber", "gone", "killed"} \/ label \in {"pop", "unlock barber", "gone", "killed"}
  PROVE  LineInv'
<1>1. /\ linePc'[c] = label /\ \A d \in LineCustomers \ {c} : linePc'[d] = linePc[d]
  BY LineMoved
<1>2. JoinersAlone' BY <1>1 DEF LineInv, JoinersAlone
<1>3. RoomForJoiner'
  <2>1. \A d \in LineCustomers : linePc'[d] \in {"link", "join"} => number <= Chairs - 1 BY <1>1 DEF LineInv, RoomForJoiner
  <2>2. \A d \in LineCustomers : linePc'[d] \in {"joining", "parting"} => linePc'[d] = linePc[d] BY <1>1
  <2>3. QED BY <2>1, <2>2 DEF LineInv, RoomForJoiner
<1>4. OneOffEach'
  <2>1. Parted \subseteq Parted' BY <1>1 DEF Parted
  <2>2. \A d \in LineCustomers : linePc'[d] \in {"joining", "parting"} => linePc'[d] = linePc[d] BY <1>1
  <2>3. number' >= -Cardinality(Parted') BY <2>1, StillAbove, LineNumbers DEF LineInv, OneOffEach
  <2>4. \A d \in LineCustomers : linePc'[d] \in {"joining", "parting"} => lineSeen'[d] >= -Cardinality(Parted')
    BY <2>1, <2>2, StillAbove, LineNumbers DEF LineInv, OneOffEach
  <2>5. QED BY <2>3, <2>4 DEF OneOffEach
<1>5. QED BY <1>2, <1>3, <1>4 DEF LineInv

\* One label for another.
LEMMA LineGoes ==
  ASSUME LineInv, NEW c \in LineCustomers, NEW label \in LineLabels, L!Goes(c, label)
  PROVE  linePc' \in [LineCustomers -> LineLabels]
BY DEF LineInv, L!TypeOK, L!Goes, LineLabels

LEMMA LineKeepsType ==
  ASSUME LineInv, NEW c \in LineCustomers, L!customer(c)
  PROVE  L!TypeOK' /\ OnlyOneChair'
<1> USE DEF LineInv, L!TypeOK, OnlyOneChair, L!Seats, L!line, L!locks, L!barberVars, LineLabels
<1>1. CASE L!Look(c) BY <1>1 DEF L!Look, L!Goes
<1>2. CASE L!LockAdd(c) BY <1>2 DEF L!LockAdd, L!Goes
<1>3. CASE L!Ref(c) BY <1>3 DEF L!Ref, L!Goes
<1>4. CASE L!TestAgain(c) BY <1>4 DEF L!TestAgain, L!Goes
<1>5. CASE L!Link(c) BY <1>5 DEF L!Link, L!Goes
<1>6. CASE L!Fault(c) BY <1>6 DEF L!Fault, L!Goes, L!End
<1>7. CASE L!Read(c) BY <1>7 DEF L!Read, L!Goes
<1>8. CASE L!Join(c)
  <2>1. lineSeen[c] \in Int /\ number' = lineSeen[c] + 1 BY <1>8 DEF L!Join, L!WriteNumber
  <2>2. number' \in Int BY ONLY <2>1
  <2>3. linePc' \in [LineCustomers -> LineLabels] BY <1>8, LineGoes DEF L!Join
  <2>4. lineSeen' \in [LineCustomers -> Int]
    <3>1. lineSeen' = [lineSeen EXCEPT ![c] = 0] BY <1>8 DEF L!Join, L!WriteNumber
    <3>2. lineSeen \in [LineCustomers -> Int] OBVIOUS
    <3>3. QED BY ONLY <3>1, <3>2
  <2>5. QED BY <1>8, <2>2, <2>3, <2>4 DEF L!Join, L!WriteNumber
<1>9. CASE L!UnlockAdd(c) BY <1>9 DEF L!UnlockAdd, L!Goes
<1>10. CASE L!LockBarber(c) BY <1>10 DEF L!LockBarber, L!Goes
<1>11. CASE L!Part(c)
  <2>1. lineSeen[c] \in Int /\ number' = lineSeen[c] - 1 BY <1>11 DEF L!Part, L!WriteNumber
  <2>2. number' \in Int BY ONLY <2>1
  <2>3. linePc' \in [LineCustomers -> LineLabels] BY <1>11, LineGoes DEF L!Part
  <2>4. lineSeen' \in [LineCustomers -> Int]
    <3>1. lineSeen' = [lineSeen EXCEPT ![c] = 0] BY <1>11 DEF L!Part, L!WriteNumber
    <3>2. lineSeen \in [LineCustomers -> Int] OBVIOUS
    <3>3. QED BY ONLY <3>1, <3>2
  <2>5. QED BY <1>11, <2>2, <2>3, <2>4 DEF L!Part, L!WriteNumber
<1>12. CASE L!Pop(c) BY <1>12 DEF L!Pop, L!Goes
<1>13. CASE L!UnlockBarber(c) BY <1>13 DEF L!UnlockBarber, L!Goes
<1>14. QED BY <1>1, <1>2, <1>3, <1>4, <1>5, <1>6, <1>7, <1>8, <1>9, <1>10, <1>11, <1>12, <1>13 DEF L!customer

LEMMA LineReads ==
  ASSUME LineInv, NEW c \in LineCustomers, L!Read(c), L!TypeOK', OnlyOneChair'
  PROVE  LineInv'
<1> DEFINE label == IF linePc[c] = "join" THEN "joining" ELSE "parting"
<1>1. linePc'[c] = label /\ \A d \in LineCustomers \ {c} : linePc'[d] = linePc[d]
  BY DEF L!Read, L!Goes, LineInv, L!TypeOK
<1>2. lineSeen'[c] = number /\ \A d \in LineCustomers \ {c} : lineSeen'[d] = lineSeen[d]
  BY DEF L!Read, LineInv, L!TypeOK
<1>3. UNCHANGED <<number, add_lock>> /\ linePc[c] \in {"join", "part"} BY DEF L!Read, L!line, L!locks
<1>4. JoinersAlone' BY <1>1, <1>3 DEF LineInv, JoinersAlone, Adding
<1>5. RoomForJoiner'
  <2>1. number <= Chairs /\ (linePc[c] = "join" => number <= Chairs - 1) BY DEF LineInv, RoomForJoiner
  <2>2. \A d \in LineCustomers \ {c} :
          /\ linePc'[d] \in {"link", "join"} => number' <= Chairs - 1
          /\ linePc'[d] = "joining" => lineSeen'[d] <= Chairs - 1
          /\ linePc'[d] = "parting" => lineSeen'[d] <= Chairs
    BY <1>1, <1>2, <1>3 DEF LineInv, RoomForJoiner
  <2>3. /\ linePc'[c] \notin {"link", "join"}
        /\ linePc'[c] = "joining" => lineSeen'[c] <= Chairs - 1
        /\ linePc'[c] = "parting" => lineSeen'[c] <= Chairs
    BY <1>1, <1>2, <2>1
  <2>4. QED BY <1>3, <2>1, <2>2, <2>3 DEF RoomForJoiner
<1>6. OneOffEach'
  <2>1. Parted \subseteq Parted' BY <1>1, <1>3 DEF Parted
  <2>2. number >= -Cardinality(Parted') BY <2>1, StillAbove, LineNumbers DEF LineInv, OneOffEach
  <2>3. \A d \in LineCustomers \ {c} :
          linePc'[d] \in {"joining", "parting"} => lineSeen'[d] >= -Cardinality(Parted')
    BY <1>1, <1>2, <2>1, StillAbove, LineNumbers DEF LineInv, OneOffEach
  <2>4. QED BY <1>2, <1>3, <2>2, <2>3 DEF OneOffEach
<1>7. QED BY <1>4, <1>5, <1>6 DEF LineInv

LEMMA LineJoins ==
  ASSUME LineInv, NEW c \in LineCustomers, L!Join(c), L!TypeOK', OnlyOneChair'
  PROVE  LineInv'
<1>1. linePc'[c] = "unlock add" /\ \A d \in LineCustomers \ {c} : linePc'[d] = linePc[d]
  BY DEF L!Join, L!Goes, LineInv, L!TypeOK
<1>2. lineSeen'[c] = 0 /\ \A d \in LineCustomers \ {c} : lineSeen'[d] = lineSeen[d]
  BY DEF L!Join, L!WriteNumber, LineInv, L!TypeOK
<1>3. number' = lineSeen[c] + 1 /\ add_lock' = add_lock /\ linePc[c] = "joining"
  BY DEF L!Join, L!WriteNumber, L!locks
<1>4. add_lock = c BY <1>3 DEF LineInv, JoinersAlone, Adding
<1>5. \A d \in LineCustomers \ {c} : linePc'[d] \notin Adding BY <1>1, <1>4 DEF LineInv, JoinersAlone
<1>6. JoinersAlone' BY <1>3, <1>4, <1>5 DEF JoinersAlone
<1>7. RoomForJoiner'
  <2>1. lineSeen[c] <= Chairs - 1 BY <1>3 DEF LineInv, RoomForJoiner
  <2>2. number' <= Chairs BY <1>3, <2>1, LineNumbers
  <2>3. \A d \in LineCustomers \ {c} : linePc'[d] \notin {"link", "join", "joining"} BY <1>5 DEF Adding
  <2>4. \A d \in LineCustomers \ {c} : linePc'[d] = "parting" => lineSeen'[d] <= Chairs
    BY <1>1, <1>2 DEF LineInv, RoomForJoiner
  <2>5. QED BY <1>1, <2>2, <2>3, <2>4 DEF RoomForJoiner
<1>8. OneOffEach'
  <2>1. Parted \subseteq Parted' BY <1>1, <1>3 DEF Parted
  <2>2. lineSeen[c] >= -Cardinality(Parted') BY <1>3, <2>1, StillAbove, LineNumbers DEF LineInv, OneOffEach
  <2>3. number' >= -Cardinality(Parted')
    <3>1. lineSeen[c] \in Int /\ Cardinality(Parted') \in Nat BY <2>1, PartedGrows, LineNumbers
    <3>2. QED BY <1>3, <2>2, <3>1
  <2>4. \A d \in LineCustomers \ {c} :
          linePc'[d] \in {"joining", "parting"} => lineSeen'[d] >= -Cardinality(Parted')
    BY <1>1, <1>2, <2>1, StillAbove, LineNumbers DEF LineInv, OneOffEach
  <2>5. QED BY <1>1, <2>3, <2>4 DEF OneOffEach
<1>9. QED BY <1>6, <1>7, <1>8 DEF LineInv

LEMMA LineParts ==
  ASSUME LineInv, NEW c \in LineCustomers, L!Part(c), L!TypeOK', OnlyOneChair'
  PROVE  LineInv'
<1>1. linePc'[c] = "pop" /\ \A d \in LineCustomers \ {c} : linePc'[d] = linePc[d]
  BY DEF L!Part, L!Goes, LineInv, L!TypeOK
<1>2. lineSeen'[c] = 0 /\ \A d \in LineCustomers \ {c} : lineSeen'[d] = lineSeen[d]
  BY DEF L!Part, L!WriteNumber, LineInv, L!TypeOK
<1>3. number' = lineSeen[c] - 1 /\ add_lock' = add_lock /\ linePc[c] = "parting"
  BY DEF L!Part, L!WriteNumber, L!locks
<1>4. JoinersAlone' BY <1>1, <1>3 DEF LineInv, JoinersAlone, Adding
<1>5. RoomForJoiner'
  <2>1. lineSeen[c] <= Chairs BY <1>3 DEF LineInv, RoomForJoiner
  <2>2. number' <= Chairs - 1 /\ number' <= Chairs BY <1>3, <2>1, LineNumbers
  <2>3. \A d \in LineCustomers \ {c} :
          /\ linePc'[d] = "joining" => lineSeen'[d] <= Chairs - 1
          /\ linePc'[d] = "parting" => lineSeen'[d] <= Chairs
    BY <1>1, <1>2 DEF LineInv, RoomForJoiner
  <2>4. linePc'[c] \notin {"link", "join", "joining", "parting"} BY <1>1
  <2>5. QED BY <2>2, <2>3, <2>4 DEF RoomForJoiner
<1>6. OneOffEach'
  <2>1. Parted' = Parted \cup {c} /\ c \notin Parted BY <1>1, <1>3 DEF Parted
  <2>2. Parted \subseteq Parted' BY <2>1
  <2>3. Cardinality(Parted') = Cardinality(Parted) + 1 BY <2>1, PartedFact, FS_AddElement
  <2>4. lineSeen[c] >= -Cardinality(Parted) BY <1>3 DEF LineInv, OneOffEach
  <2>5. number' >= -Cardinality(Parted')
    <3>1. lineSeen[c] \in Int /\ Cardinality(Parted) \in Nat BY PartedFact, LineNumbers
    <3>2. QED BY <1>3, <2>3, <2>4, <3>1
  <2>6. \A d \in LineCustomers \ {c} :
          linePc'[d] \in {"joining", "parting"} => lineSeen'[d] >= -Cardinality(Parted')
    BY <1>1, <1>2, <2>2, StillAbove, LineNumbers DEF LineInv, OneOffEach
  <2>7. QED BY <1>1, <2>5, <2>6 DEF OneOffEach
<1>7. QED BY <1>4, <1>5, <1>6 DEF LineInv

\* The end of the process takes nothing off.
LEMMA LineEnds ==
  ASSUME LineInv, L!End, L!TypeOK', OnlyOneChair'
  PROVE  LineInv'
<1>1. \A c \in LineCustomers : linePc'[c] = "killed" BY DEF L!End
<1>2. UNCHANGED number BY DEF L!End, L!line
<1>3. JoinersAlone' BY <1>1 DEF JoinersAlone, Adding
<1>4. RoomForJoiner'
  <2>1. \A c \in LineCustomers : linePc'[c] \notin {"link", "join", "joining", "parting"} BY <1>1
  <2>2. number <= Chairs BY DEF LineInv, RoomForJoiner
  <2>3. number' <= Chairs BY <1>2, <2>2
  <2>4. \A c \in LineCustomers :
          /\ linePc'[c] \in {"link", "join"} => number' <= Chairs - 1
          /\ linePc'[c] = "joining" => lineSeen'[c] <= Chairs - 1
          /\ linePc'[c] = "parting" => lineSeen'[c] <= Chairs
    BY <2>1
  <2>5. QED BY <2>3, <2>4 DEF RoomForJoiner
<1>5. OneOffEach'
  <2>1. Parted \subseteq Parted' BY <1>1 DEF Parted
  <2>2. number >= -Cardinality(Parted') BY <2>1, StillAbove, LineNumbers DEF LineInv, OneOffEach
  <2>3. QED BY <1>1, <1>2, <2>2 DEF OneOffEach
<1>6. QED BY <1>3, <1>4, <1>5 DEF LineInv

LEMMA LineCustomerStep ==
  ASSUME LineInv, NEW c \in LineCustomers, L!customer(c)
  PROVE  LineInv'
<1>1. L!TypeOK' /\ OnlyOneChair' BY LineKeepsType
<1>2. \A d \in LineCustomers : linePc[d] \in Adding => add_lock = d BY DEF LineInv, JoinersAlone
<1>3. add_lock = L!NoThread => \A d \in LineCustomers : linePc[d] \notin Adding BY <1>2, Distinct
<1> USE DEF LineLabels, Adding, L!line, L!locks
<1>4. CASE L!Look(c)
  <2>1. PICK label \in {"gone", "lock add"} : L!Goes(c, label) BY <1>4 DEF L!Look
  <2>2. QED BY ONLY <1>1, <1>4, <2>1, LineQuiet, LineInv, c \in LineCustomers DEF L!Look
<1>5. CASE L!LockAdd(c)
  BY ONLY <1>1, <1>3, <1>5, LineQuiet, LineInv, c \in LineCustomers DEF L!LockAdd
<1>6. CASE L!Ref(c)
  BY ONLY <1>1, <1>2, <1>6, LineQuiet, LineInv, c \in LineCustomers DEF L!Ref
<1>7. CASE L!TestAgain(c)
  <2>1. CASE number >= Chairs
    <3>1. L!Goes(c, "unlock add") BY <1>7, <2>1 DEF L!TestAgain
    <3>2. QED BY ONLY <1>1, <1>2, <1>7, <3>1, LineQuiet, LineInv, c \in LineCustomers DEF L!TestAgain
  <2>2. CASE ~(number >= Chairs)
    <3>1. L!Goes(c, "link") BY <1>7, <2>2 DEF L!TestAgain
    <3>2. number <= Chairs - 1 BY ONLY <2>2, LineNumbers, LineInv
    <3>3. QED BY ONLY <1>1, <1>2, <1>7, <3>1, <3>2, LineQuiet, LineInv, c \in LineCustomers DEF L!TestAgain
  <2>3. QED BY <2>1, <2>2
<1>8. CASE L!Link(c)
  <2>1. number <= Chairs - 1 BY <1>8 DEF L!Link, LineInv, RoomForJoiner
  <2>2. QED BY ONLY <1>1, <1>2, <1>8, <2>1, LineQuiet, LineInv, c \in LineCustomers DEF L!Link
<1>9. CASE L!Fault(c) BY <1>1, <1>9, LineEnds DEF L!Fault
<1>10. CASE L!UnlockAdd(c)
  <2>1. \A d \in LineCustomers \ {c} : linePc[d] \notin Adding BY <1>2, <1>10 DEF L!UnlockAdd
  <2>2. QED BY ONLY <1>1, <1>10, <2>1, LineQuiet, LineInv, c \in LineCustomers DEF L!UnlockAdd
<1>11. CASE L!LockBarber(c)
  BY ONLY <1>1, <1>11, LineQuiet, LineInv, c \in LineCustomers DEF L!LockBarber
<1>12. CASE L!Pop(c)
  BY ONLY <1>1, <1>12, LineQuiet, LineInv, c \in LineCustomers DEF L!Pop
<1>13. CASE L!UnlockBarber(c)
  BY ONLY <1>1, <1>13, LineQuiet, LineInv, c \in LineCustomers DEF L!UnlockBarber
<1>14. QED
  BY <1>1, <1>4, <1>5, <1>6, <1>7, <1>8, <1>9, <1>10, <1>11, <1>12, <1>13,
     LineReads, LineJoins, LineParts DEF L!customer

LEMMA LineStep == LineInv /\ [L!Next]_L!vars => LineInv'
<1> SUFFICES ASSUME LineInv, [L!Next]_L!vars PROVE LineInv' OBVIOUS
<1> USE DEF L!line, L!locks, L!barberVars
<1>1. CASE UNCHANGED <<number, current, next, nextOf, add_lock, barber_lock, linePc, ref, lineSeen>>
           /\ barberAt' \in {"copy", "sleep", "cut", "killed"} /\ copy' \in Int
  <2>1. L!TypeOK' BY <1>1 DEF LineInv, L!TypeOK, L!Seats
  <2>2. Parted' = Parted BY <1>1 DEF Parted
  <2>3. QED BY <1>1, <2>1, <2>2 DEF LineInv, OnlyOneChair, JoinersAlone, RoomForJoiner, OneOffEach
<1>2. barberAt \in {"copy", "sleep", "cut", "killed"} /\ copy \in Int /\ number \in Int BY DEF LineInv, L!TypeOK
<1>3. CASE L!barber
  <2>1. CASE L!Copy BY <1>1, <1>2, <2>1 DEF L!Copy
  <2>2. CASE L!Wake BY <1>1, <1>2, <2>2 DEF L!Wake
  <2>3. CASE L!Cut BY <1>1, <1>2, <2>3 DEF L!Cut
  <2>4. QED BY <1>3, <2>1, <2>2, <2>3 DEF L!barber
<1>4. CASE L!sig_catch
  <2>1. L!TypeOK' /\ OnlyOneChair' BY <1>4 DEF L!sig_catch, L!End, LineInv, L!TypeOK, OnlyOneChair, L!Seats
  <2>2. QED BY <1>4, <2>1, LineEnds DEF L!sig_catch
<1>5. CASE UNCHANGED L!vars BY <1>1, <1>2, <1>5 DEF L!vars
<1>6. QED BY <1>3, <1>4, <1>5, LineCustomerStep DEF L!Next, L!Main

\* Each program runs as if the other were not there.
LEMMA EitherIsEach == EitherShop => Spec /\ L!Spec
<1>1. EitherInit => Init /\ L!Init BY DEF EitherInit
<1>2. [EitherNext]_shops => [Next]_vars /\ [L!Next]_L!vars
  BY DEF EitherNext, InShop, InLine, shops, lineVars, Next, L!Next, L!vars, L!line, L!locks, L!barberVars
<1>3. QED BY <1>1, <1>2, PTL DEF EitherShop, Spec, L!Spec

\* Whatever updates are lost, curr is never above the chairs, and below zero only
\* after a race.
THEOREM CurrStaysInRange == EitherShop => []CurrInRange
<1>1. ShopInv => CurrInRange BY DEF ShopInv, NotTooLarge, NotTooSmall, CurrInRange
<1>2. Spec => []CurrInRange BY <1>1, ShopInit, ShopStep, PTL DEF Spec
<1>3. QED BY <1>2, EitherIsEach, PTL

\* However many customers there are and whatever the two mutexes let be lost, the
\* number stays between minus the customers and the chairs.
THEOREM NumberStaysInRange == EitherShop => []NumberInRange
<1>1. LineInv => NumberInRange
  <2> SUFFICES ASSUME LineInv PROVE NumberInRange OBVIOUS
  <2>1. number <= Chairs /\ number >= -Cardinality(Parted) BY DEF LineInv, RoomForJoiner, OneOffEach
  <2>2. Cardinality(Parted) \in Nat /\ Cardinality(LineCustomers) \in Nat
        /\ Cardinality(Parted) <= Cardinality(LineCustomers)
    BY PartedFact, LineCustomersAssumption, FS_CardinalityType
  <2>3. number \in Int /\ Chairs \in Int BY LineNumbers
  <2>4. number \in -Cardinality(LineCustomers) .. Chairs BY ONLY <2>1, <2>2, <2>3
  <2>5. QED BY ONLY <2>4 DEF NumberInRange, L!NumberInRange, L!Cardinality, Cardinality
<1>2. L!Spec => []NumberInRange BY <1>1, LineInit, LineStep, PTL DEF L!Spec
<1>3. QED BY <1>2, EitherIsEach, PTL

\* No pointer to the chair of a customer who has left is followed: the line never
\* grows beyond the chair of main, and is empty after the first pop.
THEOREM NoDeadChairFollowed == EitherShop => []NoDeadChair
<1>1. LineInv => NoDeadChair BY DEF LineInv, OnlyOneChair, NoDeadChair, L!NoDeadChair, L!Alive
<1>2. L!Spec => []NoDeadChair BY <1>1, LineInit, LineStep, PTL DEF L!Spec
<1>3. QED BY <1>2, EitherIsEach, PTL

--------------------------------------------------------------------------------
(* The smokers.  The invariant says what the agent leaves on the table and *)
(* what a smoker who has looked at it knows.                               *)

AgentBusy == {"put first", "put second", "announce"}

\* The agent is at the items only while they are used, and they are of two kinds.
AgentHolds ==
  /\ smokerPc[S!Agent] \in AgentBusy => table_used
  /\ smokerPc[S!Agent] \in {"put first", "put second"} => drawn[1] # drawn[2]
  /\ smokerPc[S!Agent] = "put second" => table_items[1] = drawn[1]
  /\ smokerPc[S!Agent] = "announce" \/ ~table_used => table_items[1] # table_items[2]

\* What a smoker has seen is so, unless others have written to the table since.
SmokerSees ==
  \A s \in S!Smoker : ~overtaken[s] =>
    /\ smokerPc[s] \in {"first", "second", "pick", "use"} => ~table_used
    /\ smokerPc[s] \in {"second", "pick", "use"} => table_items[1] # s
    /\ smokerPc[s] \in {"pick", "use"} => table_items[2] # s

TableInv == S!TypeOK /\ AgentHolds /\ SmokerSees

LEMMA TableInit == ASSUME S!Init PROVE TableInv
<1>1. S!TypeOK BY SemAssumption DEF S!Init, S!TypeOK, S!Ingredients, S!Threads, S!Smoker, S!Agent
<1>2. \A t \in S!Threads : smokerPc[t] = "wait" BY DEF S!Init
<1>3. QED BY <1>1, <1>2 DEF S!Init, TableInv, AgentHolds, SmokerSees, AgentBusy, S!Threads, S!Smoker, S!Agent

LEMMA Pairs ==
  ASSUME NEW p \in S!Ingredients \X S!Ingredients, NEW n \in S!Ingredients
  PROVE  /\ p[1] \in S!Ingredients /\ p[2] \in S!Ingredients
         /\ [p EXCEPT ![1] = n] \in S!Ingredients \X S!Ingredients
         /\ [p EXCEPT ![1] = n][1] = n /\ [p EXCEPT ![1] = n][2] = p[2]
         /\ [p EXCEPT ![2] = n] \in S!Ingredients \X S!Ingredients
         /\ [p EXCEPT ![2] = n][1] = p[1] /\ [p EXCEPT ![2] = n][2] = n
OBVIOUS

SmokersLabels == {"wait", "test", "put first", "put second", "announce",
                  "first", "second", "pick", "use", "post"}

LEMMA ThreadMoved ==
  ASSUME TableInv, NEW t \in S!Threads, NEW label \in SmokersLabels, S!Goes(t, label)
  PROVE  /\ smokerPc'[t] = label
         /\ \A u \in S!Threads \ {t} : smokerPc'[u] = smokerPc[u]
         /\ smokerPc' \in [S!Threads -> SmokersLabels]
BY DEF TableInv, S!TypeOK, S!Goes, SmokersLabels

LEMMA WhoIsWho == S!Agent \in S!Threads /\ S!Smoker \subseteq S!Threads /\ S!Agent \notin S!Smoker
BY DEF S!Threads, S!Agent, S!Smoker, S!Ingredients

LEMMA Items == ASSUME TableInv
  PROVE  /\ table_items \in S!Ingredients \X S!Ingredients /\ drawn \in S!Ingredients \X S!Ingredients
         /\ table_items[1] \in S!Ingredients /\ table_items[2] \in S!Ingredients
         /\ drawn[1] \in S!Ingredients /\ drawn[2] \in S!Ingredients
BY Pairs DEF TableInv, S!TypeOK

\* A semaphore call, which leaves the table alone.
LEMMA SemaphoreStep ==
  ASSUME TableInv, NEW t \in S!Threads,
         S!sem_wait(t) \/ S!sem_post(t) \/ (t \in S!Smoker /\ S!Pick(t))
  PROVE  TableInv'
<1>1. UNCHANGED <<table_used, table_items, drawn, overtaken>>
  BY DEF S!sem_wait, S!sem_post, S!Pick
<1>2. PICK label \in {"test", "wait", "use"} :
        S!Goes(t, label) /\ (label = "use" => smokerPc[t] = "pick" /\ t \in S!Smoker)
  BY DEF S!sem_wait, S!sem_post, S!Pick
<1>3. /\ smokerPc'[t] = label
      /\ \A u \in S!Threads \ {t} : smokerPc'[u] = smokerPc[u]
      /\ smokerPc' \in [S!Threads -> SmokersLabels]
  BY <1>2, ThreadMoved DEF SmokersLabels
<1>4. table' \in 0 .. SEM_VALUE_MAX
  <2>1. table \in 0 .. SEM_VALUE_MAX BY DEF TableInv, S!TypeOK
  <2>2. table' \in {table - 1, S!Posted} /\ (table' = table - 1 => table > 0 \/ table' = S!Posted)
    BY DEF S!sem_wait, S!sem_post, S!Pick
  <2>3. S!Posted \in 0 .. SEM_VALUE_MAX BY <2>1, SemAssumption DEF S!Posted
  <2>4. QED BY <2>1, <2>2, <2>3, SemAssumption
<1>5. S!TypeOK' BY <1>1, <1>3, <1>4 DEF TableInv, S!TypeOK, SmokersLabels
<1>6. AgentHolds' BY <1>1, <1>2, <1>3, WhoIsWho DEF TableInv, AgentHolds, AgentBusy
<1>7. SmokerSees' BY <1>1, <1>2, <1>3, WhoIsWho DEF TableInv, SmokerSees
<1>8. QED BY <1>5, <1>6, <1>7 DEF TableInv

LEMMA AgentStep ==
  ASSUME TableInv, S!Draw \/ S!PutFirst \/ S!PutSecond \/ S!Announce
  PROVE  TableInv'
<1>1. CASE S!Draw
  <2>1. PICK label \in {"put first", "post"} : S!Goes(S!Agent, label) /\ (label = "put first" => table_used)
    BY <1>1 DEF S!Draw
  <2>2. /\ smokerPc'[S!Agent] = label
        /\ \A u \in S!Smoker : smokerPc'[u] = smokerPc[u]
        /\ smokerPc' \in [S!Threads -> SmokersLabels]
    BY <2>1, ThreadMoved, WhoIsWho DEF SmokersLabels
  <2>3. UNCHANGED <<table, table_used, table_items, overtaken>> BY <1>1 DEF S!Draw
  <2>4. drawn' \in S!Ingredients \X S!Ingredients BY <1>1, Items DEF S!Draw
  <2>5. label = "put first" => drawn'[1] # drawn'[2]
    BY <1>1, <2>1, <2>2, WhoIsWho DEF S!Draw, S!Goes, TableInv, S!TypeOK
  <2>6. S!TypeOK' BY <2>2, <2>3, <2>4 DEF TableInv, S!TypeOK, SmokersLabels
  <2>7. AgentHolds' BY <2>1, <2>2, <2>3, <2>5 DEF TableInv, AgentHolds, AgentBusy
  <2>8. SmokerSees' BY <2>2, <2>3 DEF TableInv, SmokerSees
  <2>9. QED BY <2>6, <2>7, <2>8 DEF TableInv
<1>2. ASSUME S!Overtake(S!Agent), NEW label \in SmokersLabels, S!Goes(S!Agent, label)
      PROVE  /\ SmokerSees'
             /\ smokerPc'[S!Agent] = label
             /\ smokerPc' \in [S!Threads -> SmokersLabels]
             /\ overtaken' \in [S!Smoker -> BOOLEAN]
  <2>1. /\ smokerPc'[S!Agent] = label
        /\ \A u \in S!Smoker : smokerPc'[u] = smokerPc[u]
        /\ smokerPc' \in [S!Threads -> SmokersLabels]
    BY <1>2, ThreadMoved, WhoIsWho
  <2>2. \A s \in S!Smoker : ~overtaken'[s] => smokerPc[s] \notin {"first", "second", "pick", "use"}
    BY <1>2, WhoIsWho DEF S!Overtake, S!Relying
  <2>3. overtaken' \in [S!Smoker -> BOOLEAN] BY <1>2 DEF S!Overtake, S!Relying, TableInv, S!TypeOK
  <2>4. QED BY <2>1, <2>2, <2>3 DEF SmokerSees
<1>3. CASE S!PutFirst
  <2>1. /\ SmokerSees' /\ smokerPc'[S!Agent] = "put second"
        /\ smokerPc' \in [S!Threads -> SmokersLabels] /\ overtaken' \in [S!Smoker -> BOOLEAN]
    BY <1>2, <1>3 DEF S!PutFirst, SmokersLabels
  <2>2. /\ table_items' \in S!Ingredients \X S!Ingredients
        /\ table_items'[1] = drawn[1]
    BY <1>3, Items, Pairs DEF S!PutFirst
  <2>3. UNCHANGED <<table, table_used, drawn>> /\ smokerPc[S!Agent] = "put first" BY <1>3 DEF S!PutFirst
  <2>4. S!TypeOK' BY <2>1, <2>2, <2>3 DEF TableInv, S!TypeOK, SmokersLabels
  <2>5. AgentHolds' BY <2>1, <2>2, <2>3 DEF TableInv, AgentHolds, AgentBusy
  <2>6. QED BY <2>1, <2>4, <2>5 DEF TableInv
<1>4. CASE S!PutSecond
  <2>1. /\ SmokerSees' /\ smokerPc'[S!Agent] = "announce"
        /\ smokerPc' \in [S!Threads -> SmokersLabels] /\ overtaken' \in [S!Smoker -> BOOLEAN]
    BY <1>2, <1>4 DEF S!PutSecond, SmokersLabels
  <2>2. /\ table_items' \in S!Ingredients \X S!Ingredients
        /\ table_items'[1] = table_items[1] /\ table_items'[2] = drawn[2]
    BY <1>4, Items, Pairs DEF S!PutSecond
  <2>3. UNCHANGED <<table, table_used>> /\ smokerPc[S!Agent] = "put second" /\ drawn' = <<0, 0>>
    BY <1>4 DEF S!PutSecond
  <2>4. drawn' \in S!Ingredients \X S!Ingredients
    <3>1. 0 \in S!Ingredients BY DEF S!Ingredients
    <3>2. QED BY ONLY <2>3, <3>1
  <2>5. S!TypeOK' BY <2>1, <2>2, <2>3, <2>4 DEF TableInv, S!TypeOK, SmokersLabels
  <2>6. AgentHolds' BY <2>1, <2>2, <2>3 DEF TableInv, AgentHolds, AgentBusy
  <2>7. QED BY <2>1, <2>5, <2>6 DEF TableInv
<1>5. CASE S!Announce
  <2>1. /\ SmokerSees' /\ smokerPc'[S!Agent] = "post"
        /\ smokerPc' \in [S!Threads -> SmokersLabels] /\ overtaken' \in [S!Smoker -> BOOLEAN]
    BY <1>2, <1>5 DEF S!Announce, SmokersLabels
  <2>2. UNCHANGED <<table, table_items, drawn>> /\ smokerPc[S!Agent] = "announce" /\ table_used' = FALSE
    BY <1>5 DEF S!Announce
  <2>3. S!TypeOK' BY <2>1, <2>2 DEF TableInv, S!TypeOK, SmokersLabels
  <2>4. AgentHolds' BY <2>1, <2>2 DEF TableInv, AgentHolds, AgentBusy
  <2>5. QED BY <2>1, <2>3, <2>4 DEF TableInv
<1>6. QED BY <1>1, <1>3, <1>4, <1>5

\* A look at the table that allows a smoker to go on shows him what it says.
LEMMA LookStep ==
  ASSUME TableInv, NEW s \in S!Smoker, S!Look(s) \/ S!LookAtFirst(s) \/ S!LookAtSecond(s)
  PROVE  TableInv'
<1>1. UNCHANGED <<table, table_used, table_items, drawn>> BY DEF S!Look, S!LookAtFirst, S!LookAtSecond
<1>2. PICK allowed \in BOOLEAN, label \in {"first", "second", "pick"} :
        /\ S!GoesOn(s, allowed, label)
        /\ label = "first" => allowed = ~table_used
        /\ label = "second" => smokerPc[s] = "first" /\ allowed = (table_items[1] # s)
        /\ label = "pick" => smokerPc[s] = "second" /\ allowed = (table_items[2] # s)
  <2>1. CASE S!Look(s) BY <2>1 DEF S!Look, TableInv, S!TypeOK
  <2>2. CASE S!LookAtFirst(s) BY <2>2 DEF S!LookAtFirst
  <2>3. CASE S!LookAtSecond(s) BY <2>3 DEF S!LookAtSecond
  <2>4. QED BY <2>1, <2>2, <2>3
<1> DEFINE now == IF allowed THEN label ELSE "post"
<1>3. /\ smokerPc'[s] = now
      /\ \A u \in S!Threads \ {s} : smokerPc'[u] = smokerPc[u]
      /\ smokerPc' \in [S!Threads -> SmokersLabels]
  <2>1. S!Goes(s, now) /\ now \in SmokersLabels BY <1>2 DEF S!GoesOn, SmokersLabels
  <2> HIDE DEF now
  <2>2. QED BY <2>1, ThreadMoved, WhoIsWho
<1>4. overtaken' = [overtaken EXCEPT ![s] = @ /\ allowed] BY <1>2 DEF S!GoesOn
<1>5. overtaken \in [S!Smoker -> BOOLEAN] BY DEF TableInv, S!TypeOK
<1>6. /\ overtaken' \in [S!Smoker -> BOOLEAN]
      /\ allowed => overtaken'[s] = overtaken[s]
      /\ \A j \in S!Smoker \ {s} : overtaken'[j] = overtaken[j]
  BY <1>4, <1>5, Zenon
<1>7. S!TypeOK' BY <1>1, <1>3, <1>6 DEF TableInv, S!TypeOK, SmokersLabels
<1>8. AgentHolds' BY <1>1, <1>3, WhoIsWho DEF TableInv, AgentHolds, AgentBusy
<1>9. SmokerSees'
  <2>1. ASSUME NEW j \in S!Smoker \ {s}, ~overtaken'[j]
        PROVE  /\ smokerPc'[j] \in {"first", "second", "pick", "use"} => ~table_used'
               /\ smokerPc'[j] \in {"second", "pick", "use"} => table_items'[1] # j
               /\ smokerPc'[j] \in {"pick", "use"} => table_items'[2] # j
    BY <1>1, <1>3, <1>6, <2>1, WhoIsWho DEF TableInv, SmokerSees
  <2>2. ASSUME ~overtaken'[s]
        PROVE  /\ smokerPc'[s] \in {"first", "second", "pick", "use"} => ~table_used'
               /\ smokerPc'[s] \in {"second", "pick", "use"} => table_items'[1] # s
               /\ smokerPc'[s] \in {"pick", "use"} => table_items'[2] # s
    <3>1. CASE ~allowed BY <1>3, <3>1
    <3>2. CASE allowed
      <4>1. ~overtaken[s] /\ smokerPc'[s] = label BY <1>3, <1>6, <2>2, <3>2
      <4>2. QED BY <1>1, <1>2, <3>2, <4>1 DEF TableInv, SmokerSees
    <3>3. QED BY <3>1, <3>2
  <2>3. QED BY <2>1, <2>2 DEF SmokerSees
<1>10. QED BY <1>7, <1>8, <1>9 DEF TableInv

LEMMA UseStep ==
  ASSUME TableInv, NEW s \in S!Smoker, S!Use(s)
  PROVE  TableInv'
<1>1. UNCHANGED <<table, table_items, drawn>> /\ table_used' = TRUE BY DEF S!Use
<1>2. /\ smokerPc'[s] = "post"
      /\ \A u \in S!Threads \ {s} : smokerPc'[u] = smokerPc[u]
      /\ smokerPc' \in [S!Threads -> SmokersLabels]
  BY ThreadMoved, WhoIsWho DEF S!Use, SmokersLabels
<1>3. overtaken' \in [S!Smoker -> BOOLEAN] BY DEF S!Use, S!Overtake, S!Relying, TableInv, S!TypeOK
<1>4. \A j \in S!Smoker \ {s} : ~overtaken'[j] => smokerPc[j] \notin {"first", "second", "pick", "use"}
  BY DEF S!Use, S!Overtake, S!Relying
<1>5. S!TypeOK' BY <1>1, <1>2, <1>3 DEF TableInv, S!TypeOK, SmokersLabels
<1>6. AgentHolds' BY <1>1, <1>2, WhoIsWho DEF TableInv, AgentHolds, AgentBusy
<1>7. SmokerSees' BY <1>2, <1>4, WhoIsWho DEF SmokerSees
<1>8. QED BY <1>5, <1>6, <1>7 DEF TableInv

\* The invariant is kept.
LEMMA TableKept == S!Spec => []TableInv
<1>1. S!Init => TableInv BY TableInit
<1>2. TableInv /\ [S!Next]_S!vars => TableInv'
  <2>1. CASE S!Next
    BY <2>1, SemaphoreStep, AgentStep, LookStep, UseStep, WhoIsWho DEF S!Next, S!agent, S!smokers
  <2>2. CASE UNCHANGED S!vars
    BY <2>2 DEF S!vars, S!locals, TableInv, S!TypeOK, AgentHolds, SmokerSees
  <2>3. QED BY <2>1, <2>2
<1>3. QED BY <1>1, <1>2, PTL DEF S!Spec

\* Whatever the semaphore admits, the smoker who picks up the items is the one who
\* has neither, unless others have written to the table since he looked.
THEOREM RightOneTakes == S!Spec => []TakenByTheRightOne
<1>1. ASSUME TableInv PROVE TakenByTheRightOne
  <2>1. ASSUME NEW s \in S!Smoker, smokerPc[s] \in {"pick", "use"}, ~overtaken[s]
        PROVE  ~table_used /\ S!OnTable = S!Ingredients \ {s}
    <3>1. ~table_used /\ table_items[1] # s /\ table_items[2] # s BY <1>1, <2>1 DEF TableInv, SmokerSees
    <3>2. table_items[1] # table_items[2] BY <1>1, <3>1 DEF TableInv, AgentHolds
    <3>3. table_items[1] \in 0 .. 2 /\ table_items[2] \in 0 .. 2 /\ s \in 0 .. 2
      BY <1>1, Items DEF S!Ingredients, S!Smoker
    <3>4. {table_items[1], table_items[2]} = (0 .. 2) \ {s} BY ONLY <3>1, <3>2, <3>3
    <3>5. QED BY <3>1, <3>4 DEF S!OnTable, S!Ingredients
  <2>2. QED BY <2>1 DEF TakenByTheRightOne, S!TakenByTheRightOne
<1>2. QED BY <1>1, TableKept, PTL

\* The threads that are past sem_wait, of all that run.
Past == {t \in S!Threads : smokerPc[t] # "wait"}

LEMMA SmokersFinite == IsFiniteSet(S!Threads) /\ IsFiniteSet(Past)
<1>1. ASSUME NEW a \in Int, NEW b \in Int PROVE IsFiniteSet(a .. b)
  BY <1>1, FS_Interval, Zenon
<1>2. PICK most \in Int : S!Threads \subseteq 0 .. most
  <2>1. S!Threads \subseteq 0 .. 3 BY DEF S!Threads, S!Smoker, S!Ingredients, S!Agent
  <2>2. QED BY <2>1
<1>6. IsFiniteSet(0 .. most) BY <1>1, <1>2
<1>3. IsFiniteSet(S!Threads) BY <1>2, <1>6, FS_Subset
<1>4. Past \subseteq S!Threads BY DEF Past
<1>5. QED BY <1>3, <1>4, FS_Subset

LEMMA PastCounts ==
  ASSUME TableInv, NEW t \in S!Threads, NEW label \in SmokersLabels, S!Goes(t, label)
  PROVE  /\ Cardinality(Past) \in Nat
         /\ (smokerPc[t] = "wait" <=> label = "wait") => Cardinality(Past') = Cardinality(Past)
         /\ smokerPc[t] = "wait" /\ label # "wait" => Cardinality(Past') = Cardinality(Past) + 1
         /\ smokerPc[t] # "wait" /\ label = "wait" => Cardinality(Past') = Cardinality(Past) - 1
<1>1. smokerPc'[t] = label /\ \A u \in S!Threads \ {t} : smokerPc'[u] = smokerPc[u]
  BY ThreadMoved
<1>3. IsFiniteSet(Past) /\ Cardinality(Past) \in Nat
  BY SmokersFinite, FS_CardinalityType
<1>4. CASE smokerPc[t] = "wait" <=> label = "wait"
  <2>1. Past' = Past BY <1>1, <1>4 DEF Past
  <2>2. QED BY <1>3, <1>4, <2>1
<1>5. CASE smokerPc[t] = "wait" /\ label # "wait"
  <2>1. Past' = Past \cup {t} /\ t \notin Past BY <1>1, <1>5 DEF Past
  <2>2. QED BY <1>3, <1>5, <2>1, FS_AddElement
<1>6. CASE smokerPc[t] # "wait" /\ label = "wait"
  <2>1. Past' = Past \ {t} /\ t \in Past BY <1>1, <1>6 DEF Past
  <2>2. QED BY <1>3, <1>6, <2>1, FS_RemoveElement
<1>7. QED BY <1>4, <1>5, <1>6

\* How many may be at the table changes with a pick, or when a post is refused.
PlacesChange ==
  /\ S!Permits' > S!Permits => \E s \in S!Smoker : smokerPc[s] = "pick" /\ smokerPc'[s] = "use"
  /\ S!Permits' < S!Permits => table = SEM_VALUE_MAX

LEMMA PlacesStep ==
  ASSUME TableInv, [S!Next]_S!vars
  PROVE  PlacesChange
<1>1. S!Permits = table + Cardinality(Past) /\ S!Permits' = table' + Cardinality(Past')
  <2>1. S!Permits = table + Cardinality(Past) BY Zenon DEF S!Permits, Past, S!Cardinality, Cardinality
  <2>2. S!Permits' = table' + Cardinality(Past') BY Zenon DEF S!Permits, Past, S!Cardinality, Cardinality
  <2>3. QED BY <2>1, <2>2
<1>2. table \in 0 .. SEM_VALUE_MAX /\ SEM_VALUE_MAX \in Nat \ {0}
  BY SemAssumption DEF TableInv, S!TypeOK
<1>3. ASSUME NEW t \in S!Threads, S!sem_wait(t) PROVE PlacesChange
  <2>1. S!Goes(t, "test") /\ smokerPc[t] = "wait" /\ table' = table - 1
    BY <1>3 DEF S!sem_wait
  <2>2. Cardinality(Past) \in Nat /\ Cardinality(Past') = Cardinality(Past) + 1
    BY <2>1, PastCounts DEF SmokersLabels
  <2>3. S!Permits' = S!Permits BY <1>1, <1>2, <2>1, <2>2
  <2>4. S!Permits \in Int BY <1>1, <1>2, <2>2
  <2>5. QED BY <2>3, <2>4 DEF PlacesChange
<1>4. ASSUME NEW t \in S!Threads, S!sem_post(t) PROVE PlacesChange
  <2>1. S!Goes(t, "wait") /\ smokerPc[t] = "post" /\ table' = S!Posted
    BY <1>4 DEF S!sem_post
  <2>2. Cardinality(Past) \in Nat /\ Cardinality(Past') = Cardinality(Past) - 1
    BY <2>1, PastCounts DEF SmokersLabels
  <2>3. table' = IF table < SEM_VALUE_MAX THEN table + 1 ELSE table BY <2>1 DEF S!Posted
  <2>4. ~ (S!Permits' > S!Permits) /\ (S!Permits' < S!Permits => table = SEM_VALUE_MAX)
    BY <1>1, <1>2, <2>2, <2>3
  <2>5. QED BY <2>4 DEF PlacesChange
<1>5. ASSUME NEW j \in S!Smoker, S!Pick(j) PROVE PlacesChange
  <2>1. S!Goes(j, "use") /\ smokerPc[j] = "pick" /\ table' = S!Posted /\ j \in S!Threads
    BY <1>5, WhoIsWho DEF S!Pick
  <2>2. smokerPc'[j] = "use" BY <2>1, ThreadMoved DEF SmokersLabels
  <2>3. Cardinality(Past) \in Nat /\ Cardinality(Past') = Cardinality(Past)
    BY <2>1, PastCounts DEF SmokersLabels
  <2>4. table' = IF table < SEM_VALUE_MAX THEN table + 1 ELSE table BY <2>1 DEF S!Posted
  <2>5. ~ (S!Permits' < S!Permits) BY <1>1, <1>2, <2>3, <2>4
  <2>6. QED BY <2>1, <2>2, <2>5 DEF PlacesChange
<1>6. ASSUME NEW t \in S!Threads, NEW label \in SmokersLabels \ {"wait"}, S!Goes(t, label),
             smokerPc[t] # "wait", table' = table
      PROVE  PlacesChange
  <2>1. Cardinality(Past) \in Nat /\ Cardinality(Past') = Cardinality(Past)
    BY <1>6, PastCounts
  <2>2. S!Permits' = S!Permits /\ S!Permits \in Int BY <1>1, <1>2, <1>6, <2>1
  <2>3. QED BY <2>2 DEF PlacesChange
<1>7. ASSUME S!Draw \/ S!PutFirst \/ S!PutSecond \/ S!Announce PROVE PlacesChange
  <2>1. PICK label \in {"put first", "post", "put second", "announce"} : S!Goes(S!Agent, label)
    BY <1>7 DEF S!Draw, S!PutFirst, S!PutSecond, S!Announce
  <2>2. smokerPc[S!Agent] # "wait" /\ table' = table
    BY <1>7 DEF S!Draw, S!PutFirst, S!PutSecond, S!Announce
  <2>3. QED BY <1>6, <2>1, <2>2, WhoIsWho DEF SmokersLabels
<1>8. ASSUME NEW j \in S!Smoker, S!Look(j) \/ S!LookAtFirst(j) \/ S!LookAtSecond(j) \/ S!Use(j)
      PROVE  PlacesChange
  <2>1. PICK label \in {"first", "second", "pick", "post"} : S!Goes(j, label)
    BY <1>8 DEF S!Look, S!LookAtFirst, S!LookAtSecond, S!Use, S!GoesOn
  <2>2. smokerPc[j] # "wait" /\ table' = table
    BY <1>8 DEF S!Look, S!LookAtFirst, S!LookAtSecond, S!Use
  <2>3. QED BY <1>6, <2>1, <2>2, WhoIsWho DEF SmokersLabels
<1>9. CASE UNCHANGED S!vars
  <2>1. table' = table /\ Past' = Past BY <1>9 DEF S!vars, S!locals, Past
  <2>3. Cardinality(Past) \in Nat BY SmokersFinite, FS_CardinalityType
  <2>4. S!Permits' = S!Permits /\ S!Permits \in Int BY <1>1, <1>2, <2>1, <2>3
  <2>5. QED BY <2>4 DEF PlacesChange
<1>10. CASE S!Next
  BY <1>10, <1>3, <1>4, <1>5, <1>7, <1>8, WhoIsWho DEF S!Next, S!agent, S!smokers
<1>11. QED BY <1>9, <1>10

\* The post in the branch of a smoker who picks up is all that lets more threads to
\* the table, and no post makes them fewer but one that the semaphore refuses.
THEOREM OnlyPicksAdmit == S!Spec => PlacesGrowByPicks
<1>1. TableInv /\ [S!Next]_S!vars =>
        [/\ S!Permits' > S!Permits => \E s \in S!Smoker : smokerPc[s] = "pick" /\ smokerPc'[s] = "use"
         /\ S!Permits' < S!Permits => table = SEM_VALUE_MAX]_S!vars
  BY PlacesStep DEF PlacesChange
<1>2. QED BY <1>1, TableKept, PTL DEF S!Spec, PlacesGrowByPicks, S!PlacesGrowByPicks

\* No deadlock: somebody is at the table, or else the semaphore admits somebody.
Admits == table > 0 \/ Past # {}

THEOREM NoDeadlock == S!Spec => []Admits
<1>1. S!Init => Admits BY DEF S!Init, Admits
<1>2. TableInv /\ Admits /\ [S!Next]_S!vars => Admits'
  <2> SUFFICES ASSUME TableInv, Admits, [S!Next]_S!vars PROVE Admits' OBVIOUS
  <2>1. table \in Nat /\ SEM_VALUE_MAX \in Nat \ {0}
    <3>1. table \in 0 .. SEM_VALUE_MAX /\ SEM_VALUE_MAX \in Nat \ {0}
      BY SemAssumption DEF TableInv, S!TypeOK
    <3>2. QED BY <3>1
  <2>2. ASSUME NEW t \in S!Threads, NEW label \in SmokersLabels \ {"wait"}, S!Goes(t, label) PROVE Admits'
    BY <2>2, ThreadMoved DEF Admits, Past
  <2>3. ASSUME NEW t \in S!Threads, S!sem_post(t) PROVE Admits'
    BY <2>1, <2>3 DEF S!sem_post, S!Posted, Admits
  <2>4. ASSUME NEW t \in S!Threads, S!sem_wait(t) PROVE Admits'
    BY <2>2, <2>4 DEF S!sem_wait, SmokersLabels
  <2>5. ASSUME S!Draw \/ S!PutFirst \/ S!PutSecond \/ S!Announce PROVE Admits'
    BY <2>2, <2>5, WhoIsWho DEF S!Draw, S!PutFirst, S!PutSecond, S!Announce, SmokersLabels
  <2>6. ASSUME NEW j \in S!Smoker, S!Look(j) \/ S!LookAtFirst(j) \/ S!LookAtSecond(j) \/ S!Pick(j) \/ S!Use(j)
        PROVE  Admits'
    BY <2>2, <2>6, WhoIsWho DEF S!Look, S!LookAtFirst, S!LookAtSecond, S!Pick, S!Use, S!GoesOn, SmokersLabels
  <2>7. CASE UNCHANGED S!vars BY <2>7 DEF S!vars, S!locals, Admits, Past
  <2>8. CASE S!Next BY <2>3, <2>4, <2>5, <2>6, <2>8, WhoIsWho DEF S!Next, S!agent, S!smokers
  <2>9. QED BY <2>7, <2>8
<1>3. QED BY <1>1, <1>2, TableKept, PTL DEF S!Spec

--------------------------------------------------------------------------------
(* The resource for three.  The invariant counts the threads between two   *)
(* labels: those who hold a place of the semaphore, and those whom the     *)
(* counter counts.                                                         *)

\* One thread goes from one label to another: how many threads are at some labels.
LEMMA AtCounts ==
  ASSUME IsFiniteSet(Threads), R!TypeOK, NEW t \in Threads, NEW label \in R!Labels, R!Goes(t, label),
         NEW ls \in SUBSET R!Labels
  PROVE  /\ Cardinality(R!At(ls)) \in Nat
         /\ comerPc[t] \in ls /\ label \in ls => Cardinality(R!At(ls)') = Cardinality(R!At(ls))
         /\ comerPc[t] \notin ls /\ label \notin ls => Cardinality(R!At(ls)') = Cardinality(R!At(ls))
         /\ comerPc[t] \notin ls /\ label \in ls => Cardinality(R!At(ls)') = Cardinality(R!At(ls)) + 1
         /\ comerPc[t] \in ls /\ label \notin ls => Cardinality(R!At(ls)') = Cardinality(R!At(ls)) - 1
<1>1. /\ comerPc'[t] = label /\ \A u \in Threads \ {t} : comerPc'[u] = comerPc[u]
  BY DEF R!Goes, R!TypeOK
<1>2. R!At(ls) \subseteq Threads BY DEF R!At
<1>3. IsFiniteSet(R!At(ls)) /\ Cardinality(R!At(ls)) \in Nat BY <1>2, FS_Subset, FS_CardinalityType
<1>4. CASE comerPc[t] \in ls /\ label \in ls
  <2>1. R!At(ls)' = R!At(ls) BY <1>1, <1>4 DEF R!At
  <2>2. QED BY <1>3, <1>4, <2>1
<1>5. CASE comerPc[t] \notin ls /\ label \notin ls
  <2>1. R!At(ls)' = R!At(ls) BY <1>1, <1>5 DEF R!At
  <2>2. QED BY <1>3, <1>5, <2>1
<1>6. CASE comerPc[t] \notin ls /\ label \in ls
  <2>1. R!At(ls)' = R!At(ls) \cup {t} /\ t \notin R!At(ls) BY <1>1, <1>6 DEF R!At
  <2>2. QED BY <1>3, <1>6, <2>1, FS_AddElement
<1>7. CASE comerPc[t] \in ls /\ label \notin ls
  <2>1. R!At(ls)' = R!At(ls) \ {t} /\ t \in R!At(ls) BY <1>1, <1>7 DEF R!At
  <2>2. QED BY <1>3, <1>7, <2>1, FS_RemoveElement
<1>8. QED BY <1>4, <1>5, <1>6, <1>7

CountersHold ==
  /\ R!TypeOK
  /\ ~R!Killed => /\ sem + Cardinality(R!Inside) = Places
                  /\ ~lost => counter + Cardinality(R!Counted) = Places

LEMMA NotYetKilled ==
  ASSUME R!TypeOK, NEW t \in Threads, R!accessResource(t)
  PROVE  ~R!Killed
BY DEF R!accessResource, R!Test, R!Poll, R!SemWait, R!Read, R!Take, R!SemPost, R!Give, R!Killed

LEMMA ComerStep ==
  ASSUME CountersHold, NEW t \in Threads, R!accessResource(t)
  PROVE  CountersHold'
<1>1. R!TypeOK /\ sem + Cardinality(R!Inside) = Places
      /\ (~lost => counter + Cardinality(R!Counted) = Places)
  BY NotYetKilled DEF CountersHold
<1>2. counter \in Int /\ sem \in Nat /\ Places \in Int /\ comerSeen[t] \in Int /\ lost \in BOOLEAN
  BY <1>1, PlacesAssumption DEF R!TypeOK
<1>3. /\ Cardinality(R!Inside) \in Nat /\ Cardinality(R!Counted) \in Nat
  <2>1. R!Inside \subseteq Threads /\ R!Counted \subseteq Threads BY DEF R!Inside, R!Counted, R!At
  <2>2. QED BY <2>1, ThreadsAssumption, FS_Subset, FS_CardinalityType
<1> DEFINE in == {"take", "taking", "work"}
           out == {"work", "give", "giving"}
<1>4. in \in SUBSET R!Labels /\ out \in SUBSET R!Labels BY DEF R!Labels
<1>5. /\ R!Inside = R!At(in) /\ R!Inside' = R!At(in)'
      /\ R!Counted = R!At(out) /\ R!Counted' = R!At(out)'
  BY DEF R!Inside, R!Counted
<1>6. ASSUME NEW label \in R!Labels, R!Goes(t, label)
      PROVE  /\ (comerPc[t] \in in <=> label \in in) => Cardinality(R!Inside') = Cardinality(R!Inside)
             /\ comerPc[t] \notin in /\ label \in in => Cardinality(R!Inside') = Cardinality(R!Inside) + 1
             /\ comerPc[t] \in in /\ label \notin in => Cardinality(R!Inside') = Cardinality(R!Inside) - 1
             /\ (comerPc[t] \in out <=> label \in out) => Cardinality(R!Counted') = Cardinality(R!Counted)
             /\ comerPc[t] \notin out /\ label \in out => Cardinality(R!Counted') = Cardinality(R!Counted) + 1
             /\ comerPc[t] \in out /\ label \notin out => Cardinality(R!Counted') = Cardinality(R!Counted) - 1
             /\ comerPc' \in [Threads -> R!Labels]
  <2> HIDE DEF in, out
  <2>1. comerPc' \in [Threads -> R!Labels] BY <1>1, <1>6 DEF R!TypeOK, R!Goes
  <2>2. IsFiniteSet(Threads) BY ThreadsAssumption
  <2>3. QED BY ONLY <1>1, <1>4, <1>5, <1>6, <2>1, <2>2, AtCounts, t \in Threads
<1> DEFINE Balanced == sem' + Cardinality(R!Inside') = Places
                       /\ (~lost' => counter' + Cardinality(R!Counted') = Places)
<1>7. CASE R!Test(t) \/ R!Poll(t)
  <2>1. PICK label \in {"wait", "poll"} : R!Goes(t, label) BY <1>7 DEF R!Test, R!Poll
  <2>2. UNCHANGED <<counter, sem, comerSeen, lost>> /\ comerPc[t] \in {"test", "poll"} BY <1>7 DEF R!Test, R!Poll
  <2>3. Balanced /\ R!TypeOK' BY <1>1, <1>6, <2>1, <2>2 DEF R!Labels, R!TypeOK
  <2>4. QED BY <2>3 DEF CountersHold
<1>8. CASE R!SemWait(t)
  <2>1. R!Goes(t, "take") /\ comerPc[t] = "wait" /\ "take" \in R!Labels BY <1>8 DEF R!SemWait, R!Labels
  <2>2. UNCHANGED <<counter, comerSeen, lost>> /\ sem' = sem - 1 /\ sem > 0 BY <1>8 DEF R!SemWait
  <2>3. Cardinality(R!Inside') = Cardinality(R!Inside) + 1 /\ Cardinality(R!Counted') = Cardinality(R!Counted)
    BY <1>6, <2>1
  <2>4. Balanced BY <1>1, <1>2, <1>3, <2>2, <2>3
  <2>5. R!TypeOK' BY <1>1, <1>2, <1>6, <2>1, <2>2 DEF R!TypeOK
  <2>6. QED BY <2>4, <2>5 DEF CountersHold
<1>9. CASE R!Read(t)
  <2>1. PICK label \in {"taking", "giving"} : R!Goes(t, label) /\ (label = "taking" <=> comerPc[t] = "take")
    BY <1>9 DEF R!Read
  <2>2. UNCHANGED <<counter, sem, lost>> /\ comerPc[t] \in {"take", "give"} BY <1>9 DEF R!Read
  <2>3. comerSeen' \in [Threads -> Int] BY <1>1, <1>2, <1>9 DEF R!Read, R!TypeOK
  <2>4. Balanced /\ R!TypeOK' BY <1>1, <1>6, <2>1, <2>2, <2>3 DEF R!Labels, R!TypeOK
  <2>5. QED BY <2>4 DEF CountersHold
<1>10. CASE R!Take(t)
  <2>1. R!Goes(t, "work") /\ comerPc[t] = "taking" /\ "work" \in R!Labels BY <1>10 DEF R!Take, R!Labels
  <2>2. counter' = comerSeen[t] - 1 /\ UNCHANGED sem BY <1>10 DEF R!Take
  <2>3. lost' \in BOOLEAN /\ (~lost' => ~lost /\ counter = comerSeen[t]) BY <1>2, <1>10 DEF R!Take
  <2>4. Cardinality(R!Inside') = Cardinality(R!Inside) /\ Cardinality(R!Counted') = Cardinality(R!Counted) + 1
    BY <1>6, <2>1
  <2>5. Balanced BY <1>1, <1>2, <1>3, <2>2, <2>3, <2>4
  <2>6. comerSeen' \in [Threads -> Int] BY <1>1, <1>2, <1>10 DEF R!Take, R!TypeOK
  <2>7. R!TypeOK' BY <1>1, <1>2, <1>6, <2>1, <2>2, <2>3, <2>6 DEF R!TypeOK
  <2>8. QED BY <2>5, <2>7 DEF CountersHold
<1>11. CASE R!SemPost(t)
  <2>1. R!Goes(t, "give") /\ comerPc[t] = "work" /\ "give" \in R!Labels BY <1>11 DEF R!SemPost, R!Labels
  <2>2. UNCHANGED <<counter, comerSeen, lost>> /\ sem' = sem + 1 BY <1>11 DEF R!SemPost
  <2>3. Cardinality(R!Inside') = Cardinality(R!Inside) - 1 /\ Cardinality(R!Counted') = Cardinality(R!Counted)
    BY <1>6, <2>1
  <2>4. Balanced BY <1>1, <1>2, <1>3, <2>2, <2>3
  <2>5. R!TypeOK' BY <1>1, <1>2, <1>6, <2>1, <2>2 DEF R!TypeOK
  <2>6. QED BY <2>4, <2>5 DEF CountersHold
<1>12. CASE R!Give(t)
  <2>1. R!Goes(t, "done") /\ comerPc[t] = "giving" /\ "done" \in R!Labels BY <1>12 DEF R!Give, R!Labels
  <2>2. counter' = comerSeen[t] + 1 /\ UNCHANGED sem BY <1>12 DEF R!Give
  <2>3. lost' \in BOOLEAN /\ (~lost' => ~lost /\ counter = comerSeen[t]) BY <1>2, <1>12 DEF R!Give
  <2>4. Cardinality(R!Inside') = Cardinality(R!Inside) /\ Cardinality(R!Counted') = Cardinality(R!Counted) - 1
    BY <1>6, <2>1
  <2>5. Balanced BY <1>1, <1>2, <1>3, <2>2, <2>3, <2>4
  <2>6. comerSeen' \in [Threads -> Int] BY <1>1, <1>2, <1>12 DEF R!Give, R!TypeOK
  <2>7. R!TypeOK' BY <1>1, <1>2, <1>6, <2>1, <2>2, <2>3, <2>6 DEF R!TypeOK
  <2>8. QED BY <2>5, <2>7 DEF CountersHold
<1>13. QED BY <1>7, <1>8, <1>9, <1>10, <1>11, <1>12 DEF R!accessResource

LEMMA CountersKept == R!Spec => []CountersHold
<1>1. R!Init => CountersHold
  <2> SUFFICES ASSUME R!Init PROVE CountersHold OBVIOUS
  <2>1. R!TypeOK
    <3>1. counter = Places /\ sem = Places /\ Places \in Nat BY PlacesAssumption DEF R!Init
    <3>5. counter \in Int /\ sem \in Nat BY <3>1
    <3>6. lost \in BOOLEAN BY DEF R!Init
    <3>2. comerPc \in [Threads -> R!Labels] BY DEF R!Init, R!Labels
    <3>3. comerSeen \in [Threads -> Int] BY DEF R!Init
    <3>4. QED BY <3>2, <3>3, <3>5, <3>6 DEF R!TypeOK
  <2>2. R!Inside = {} /\ R!Counted = {} BY DEF R!Init, R!Inside, R!Counted, R!At
  <2>3. Cardinality({}) = 0 BY FS_EmptySet
  <2>4. counter = Places /\ sem = Places /\ Places + 0 = Places BY PlacesAssumption DEF R!Init
  <2>5. QED BY <2>1, <2>2, <2>3, <2>4 DEF CountersHold
<1>2. CountersHold /\ [R!Next]_R!vars => CountersHold'
  <2> SUFFICES ASSUME CountersHold, [R!Next]_R!vars PROVE CountersHold' OBVIOUS
  <2>1. CASE R!sig_catch
    BY <2>1 DEF R!sig_catch, CountersHold, R!Killed, R!TypeOK, R!Labels
  <2>2. CASE UNCHANGED R!vars
    <3>1. UNCHANGED <<counter, sem, comerPc, comerSeen, lost>> BY <2>2 DEF R!vars
    <3>2. R!Inside' = R!Inside /\ R!Counted' = R!Counted BY <3>1 DEF R!Inside, R!Counted, R!At
    <3>3. R!TypeOK' <=> R!TypeOK BY <3>1 DEF R!TypeOK
    <3>4. R!Killed' <=> R!Killed BY <3>1 DEF R!Killed
    <3>5. QED BY <3>1, <3>2, <3>3, <3>4 DEF CountersHold
  <2>3. QED BY <2>1, <2>2, ComerStep DEF R!Next, R!Main
<1>3. QED BY <1>1, <1>2, PTL DEF R!Spec

\* As long as no update is lost, who was turned back comes in only when everyone
\* who is counted has given his place back.
THEOREM TurnedBackWait == R!Spec => TurnedBackWaitForAll
<1>1. ASSUME CountersHold, [R!Next]_R!vars, NEW t \in Threads, comerPc[t] = "poll", comerPc'[t] = "wait", ~lost
      PROVE  R!Counted = {}
  <2>1. PICK u \in Threads : R!accessResource(u) BY <1>1 DEF R!Next, R!vars, R!Main, R!sig_catch
  <2>2. R!Poll(u) /\ u = t
    BY <1>1, <2>1 DEF R!accessResource, R!Test, R!Poll, R!SemWait, R!Read, R!Take, R!SemPost, R!Give,
       R!Goes, CountersHold, R!TypeOK
  <2>3. counter = Places /\ counter + Cardinality(R!Counted) = Places
    BY <1>1, <2>1, <2>2, NotYetKilled DEF R!Poll, CountersHold
  <2>4. R!Counted \subseteq Threads BY DEF R!Counted, R!At
  <2>5. IsFiniteSet(R!Counted) /\ Cardinality(R!Counted) \in Nat
    BY <2>4, ThreadsAssumption, FS_Subset, FS_CardinalityType
  <2>6. Places \in Int BY PlacesAssumption
  <2>7. Cardinality(R!Counted) = 0 BY <2>3, <2>5, <2>6
  <2>8. QED BY <2>5, <2>7, FS_EmptySet
<1>2. CountersHold /\ [R!Next]_R!vars =>
        [\A t \in Threads : comerPc[t] = "poll" /\ comerPc'[t] = "wait" /\ ~lost => R!Counted = {}]_R!vars
  BY <1>1
<1>3. QED BY <1>2, CountersKept, PTL DEF R!Spec, TurnedBackWaitForAll, R!TurnedBackWaitForAll

\* The places are the free ones and the threads inside, whatever the counter says.
THEOREM SemaphoreCounts == R!Spec => []PlacesKept
<1>1. CountersHold => PlacesKept
  BY Zenon DEF CountersHold, PlacesKept, R!PlacesKept, R!Cardinality, Cardinality
<1>2. QED BY <1>1, CountersKept, PTL

\* As long as no update is lost the counter says how many places are free.
THEOREM CounterCounts == R!Spec => []R!CountsFreePlaces
<1>1. ASSUME CountersHold PROVE R!CountsFreePlaces
  <2>1. R!Counted \subseteq Threads BY DEF R!Counted, R!At
  <2>2. Cardinality(R!Counted) \in Nat BY <2>1, ThreadsAssumption, FS_Subset, FS_CardinalityType
  <2>3. counter \in Int /\ Places \in Int BY <1>1, PlacesAssumption DEF CountersHold, R!TypeOK
  <2>4. ~lost /\ ~R!Killed => counter = Places - Cardinality(R!Counted)
    BY <1>1, <2>2, <2>3 DEF CountersHold
  <2>5. QED BY <2>4, Zenon DEF R!CountsFreePlaces, R!Cardinality, Cardinality
<1>2. QED BY <1>1, CountersKept, PTL

\* The threads that have taken a place: there are never fewer of them.  The counter,
\* and what a thread has read of it, are at least what they would be if no update
\* were lost and no place ever given back.
TakenLabels == {"work", "give", "giving", "done"}
Taken == R!At(TakenLabels)
Low(n) == n + Cardinality(Taken) >= Places
NeverTooLow ==
  ~R!Killed =>
    /\ Low(counter)
    /\ \A t \in Threads : comerPc[t] \in {"taking", "giving"} => Low(comerSeen[t])
    /\ R!At({"poll"}) # {} => Low(0)

LEMMA NeverTooLowStep ==
  ASSUME CountersHold, NeverTooLow, NEW t \in Threads, R!accessResource(t)
  PROVE  NeverTooLow'
<1>1. R!TypeOK /\ ~R!Killed BY NotYetKilled DEF CountersHold
<1>2. Places \in Int /\ counter \in Int /\ \A u \in Threads : comerSeen[u] \in Int
  BY <1>1, PlacesAssumption DEF R!TypeOK
<1> DEFINE n == Cardinality(Taken)
           m == Cardinality(Taken')
<1>3. Cardinality(R!At(TakenLabels)) \in Nat /\ IsFiniteSet(Taken) /\ n \in Nat
  <2>1. Taken \subseteq Threads BY DEF Taken, R!At
  <2>2. QED BY <2>1, ThreadsAssumption, FS_Subset, FS_CardinalityType DEF Taken
<1>4. /\ counter + n >= Places
      /\ \A u \in Threads : comerPc[u] \in {"taking", "giving"} => comerSeen[u] + n >= Places
      /\ \A u \in Threads : comerPc[u] = "poll" => 0 + n >= Places
  BY <1>1 DEF NeverTooLow, Low, R!At
<1>5. ASSUME NEW label \in R!Labels, R!Goes(t, label)
      PROVE  /\ comerPc'[t] = label /\ \A u \in Threads \ {t} : comerPc'[u] = comerPc[u]
             /\ (comerPc[t] \in TakenLabels <=> label \in TakenLabels) => m = n
             /\ comerPc[t] \notin TakenLabels /\ label \in TakenLabels => m = n + 1
  <2>1. comerPc'[t] = label /\ \A u \in Threads \ {t} : comerPc'[u] = comerPc[u]
    BY <1>1, <1>5 DEF R!Goes, R!TypeOK
  <2>2. TakenLabels \in SUBSET R!Labels BY DEF TakenLabels, R!Labels
  <2>3. Taken = R!At(TakenLabels) /\ Taken' = R!At(TakenLabels)' BY DEF Taken
  <2>4. QED BY ONLY <1>1, <1>5, <2>1, <2>2, <2>3, AtCounts, ThreadsAssumption, t \in Threads
<1> SUFFICES /\ counter' + m >= Places
             /\ \A u \in Threads : comerPc'[u] \in {"taking", "giving"} => comerSeen'[u] + m >= Places
             /\ \A u \in Threads : comerPc'[u] = "poll" => 0 + m >= Places
  BY DEF NeverTooLow, Low, R!At
<1>6. CASE R!Test(t) \/ R!Poll(t)
  <2>1. PICK label \in {"wait", "poll"} :
          R!Goes(t, label) /\ (label = "poll" => ~(counter > 0)) BY <1>6 DEF R!Test, R!Poll
  <2>2. UNCHANGED <<counter, comerSeen>> /\ comerPc[t] \in {"test", "poll"} BY <1>6 DEF R!Test, R!Poll
  <2>3. label \in R!Labels /\ label \notin TakenLabels /\ comerPc[t] \notin TakenLabels
    BY <2>2 DEF R!Labels, TakenLabels
  <2>4. m = n /\ comerPc'[t] = label /\ \A u \in Threads \ {t} : comerPc'[u] = comerPc[u]
    BY <1>5, <2>1, <2>3
  <2>5. label = "poll" => 0 + n >= Places BY <1>2, <1>3, <1>4, <2>1
  <2> HIDE DEF n, m
  <2>6. QED BY <1>4, <2>2, <2>4, <2>5
<1>7. CASE R!SemWait(t) \/ R!SemPost(t)
  <2>1. PICK label \in {"take", "give"} : R!Goes(t, label) /\ (label = "give" <=> comerPc[t] = "work")
    BY <1>7 DEF R!SemWait, R!SemPost
  <2>2. UNCHANGED <<counter, comerSeen>> /\ comerPc[t] \in {"wait", "work"} BY <1>7 DEF R!SemWait, R!SemPost
  <2>3. label \in R!Labels /\ (comerPc[t] \in TakenLabels <=> label \in TakenLabels)
    BY <2>1, <2>2 DEF R!Labels, TakenLabels
  <2>4. m = n /\ comerPc'[t] = label /\ \A u \in Threads \ {t} : comerPc'[u] = comerPc[u]
    BY <1>5, <2>1, <2>3
  <2> HIDE DEF n, m
  <2>5. QED BY <1>4, <2>2, <2>4
<1>8. CASE R!Read(t)
  <2>1. PICK label \in {"taking", "giving"} : R!Goes(t, label) /\ (label = "taking" <=> comerPc[t] = "take")
    BY <1>8 DEF R!Read
  <2>2. counter' = counter /\ comerPc[t] \in {"take", "give"} BY <1>8 DEF R!Read
  <2>3. comerSeen'[t] = counter /\ \A u \in Threads \ {t} : comerSeen'[u] = comerSeen[u]
    BY <1>1, <1>8 DEF R!Read, R!TypeOK
  <2>4. label \in R!Labels /\ (comerPc[t] \in TakenLabels <=> label \in TakenLabels)
    BY <2>1, <2>2 DEF R!Labels, TakenLabels
  <2>5. m = n /\ comerPc'[t] = label /\ \A u \in Threads \ {t} : comerPc'[u] = comerPc[u]
    BY <1>5, <2>1, <2>4
  <2> HIDE DEF n, m
  <2>6. QED BY <1>4, <2>2, <2>3, <2>5
<1>9. CASE R!Take(t) \/ R!Give(t)
  <2>1. PICK label \in {"work", "done"} :
          /\ R!Goes(t, label) /\ comerPc[t] = (IF label = "work" THEN "taking" ELSE "giving")
          /\ counter' = IF label = "work" THEN comerSeen[t] - 1 ELSE comerSeen[t] + 1
    BY <1>9 DEF R!Take, R!Give
  <2>2. \A u \in Threads \ {t} : comerSeen'[u] = comerSeen[u] BY <1>1, <1>9 DEF R!Take, R!Give, R!TypeOK
  <2>3. label \in R!Labels /\ label \in TakenLabels /\ (comerPc[t] \in TakenLabels <=> label = "done")
    BY <2>1 DEF R!Labels, TakenLabels
  <2>4. m = (IF label = "work" THEN n + 1 ELSE n)
        /\ comerPc'[t] = label /\ \A u \in Threads \ {t} : comerPc'[u] = comerPc[u]
    BY <1>5, <2>1, <2>3
  <2>5. comerSeen[t] + n >= Places /\ comerSeen[t] \in Int BY <1>2, <1>4, <2>1
  <2> HIDE DEF n, m
  <2>6. counter' + m >= Places BY <1>2, <1>3, <2>1, <2>4, <2>5
  <2>7. m >= n /\ m \in Nat BY <1>3, <2>4
  <2>8. QED BY <1>2, <1>3, <1>4, <2>2, <2>4, <2>6, <2>7
<1>10. QED BY <1>6, <1>7, <1>8, <1>9 DEF R!accessResource

\* Lost updates cannot keep everyone out: who is turned back sees that as many
\* threads as there are places have taken one.
THEOREM FirstOnesDoGetIn == R!Spec => []FirstOnesGetIn
<1>1. R!Init => NeverTooLow
  <2> SUFFICES ASSUME R!Init PROVE NeverTooLow OBVIOUS
  <2>1. Taken = {} /\ R!At({"poll"}) = {} BY DEF R!Init, Taken, TakenLabels, R!At
  <2>2. Cardinality({}) = 0 BY FS_EmptySet
  <2>3. counter = Places /\ Places \in Nat BY PlacesAssumption DEF R!Init
  <2>4. \A t \in Threads : comerPc[t] \notin {"taking", "giving"} BY DEF R!Init
  <2>5. QED BY <2>1, <2>2, <2>3, <2>4 DEF NeverTooLow, Low
<1>2. CountersHold /\ NeverTooLow /\ [R!Next]_R!vars => NeverTooLow'
  <2> SUFFICES ASSUME CountersHold, NeverTooLow, [R!Next]_R!vars PROVE NeverTooLow' OBVIOUS
  <2>1. CASE R!sig_catch BY <2>1 DEF R!sig_catch, NeverTooLow, R!Killed
  <2>2. CASE UNCHANGED R!vars
    <3>1. UNCHANGED <<counter, comerPc, comerSeen>> BY <2>2 DEF R!vars
    <3>2. Taken' = Taken /\ R!At({"poll"})' = R!At({"poll"}) /\ (R!Killed' <=> R!Killed)
      BY <3>1 DEF Taken, R!At, R!Killed
    <3>3. QED BY <3>1, <3>2 DEF NeverTooLow, Low
  <2>3. QED BY <2>1, <2>2, NeverTooLowStep DEF R!Next, R!Main
<1>3. CountersHold /\ NeverTooLow => FirstOnesGetIn
  <2> SUFFICES ASSUME CountersHold, NeverTooLow, R!At({"poll"}) # {} PROVE Cardinality(Taken) >= Places
    BY Zenon DEF FirstOnesGetIn, R!FirstOnesGetIn, R!Cardinality, Cardinality, Taken, TakenLabels
  <2>1. PICK t \in Threads : comerPc[t] = "poll" BY DEF R!At
  <2>2. Low(0) BY <2>1 DEF NeverTooLow, R!Killed
  <2>3. Taken \subseteq Threads BY DEF Taken, R!At
  <2>4. Cardinality(Taken) \in Nat BY <2>3, ThreadsAssumption, FS_Subset, FS_CardinalityType
  <2>5. QED BY <2>2, <2>4, PlacesAssumption DEF Low
<1>4. R!Spec => []NeverTooLow BY <1>1, <1>2, CountersKept, PTL DEF R!Spec
<1>5. QED BY <1>3, <1>4, CountersKept, PTL
================================================================================
