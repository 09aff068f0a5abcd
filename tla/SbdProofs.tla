-------------------------------- MODULE SbdProofs -------------------------------
(***************************************************************************)
(* For any device, requests, keys and versions of the driver, from         *)
(* sbd_init to sbd_exit: no transfer leaves Device.data unless its end is  *)
(* more than an unsigned long counts to, a segment is stored under one     *)
(* key, requests find all that sbd_request uses, but for a cipher that was *)
(* refused, and what the driver has acquired it releases, but for what its *)
(* error paths leave.  And, while the cipher keeps its key, that the       *)
(* driver is a disk.                                                       *)
(***************************************************************************)
EXTENDS SbdLifecycle, TLAPS

--------------------------------------------------------------------------------
(***************************************************************************)
(* The requests.  The two properties rest on what sbd_transfer has tested  *)
(* before it moves the first sector, and on the place of the request       *)
(* staying the same until it has moved the last.                           *)
(***************************************************************************)

Kinds ==
  /\ queue \subseteq Requests
  /\ pc \in {"idle", "request", "move", "end", "oops"}
  /\ pc = "idle" => req = None
  /\ pc # "idle" => req \in Requests /\ segs # <<>>
  /\ segs \in Seq(Nat \ {0}) /\ at \in Nat /\ k \in Nat
  /\ data = [u \in Units |-> data[u]]
  /\ cipher \in BOOLEAN

\* The transfer under way was tested to end within the device.
Fits == pc = "move" => ~BeyondEnd

\* The version that does not encrypt never sets a key, nor has it a cipher; the
\* other moves nothing without one.
NoKeyWithout ==
  /\ ~encrypts => schedule = NoKey
  /\ cipher => encrypts
  /\ encrypts /\ ~cipher => pc # "move" /\ (pc = "end" => k = 0)

Inv == Kinds /\ Fits /\ NoKeyWithout /\ OneKeyPerSegment

\* An unsigned long wraps when it comes to LongSectors.
LEMMA LongIs ==
  ASSUME NEW n \in Nat
  PROVE  /\ LongSectors \in Nat \ {0} /\ Long(n) \in 0 .. LongSectors - 1
         /\ n < LongSectors => Long(n) = n
         /\ n >= LongSectors /\ n < 2 * LongSectors => Long(n) = n - LongSectors
<1>1. LongSectors \in Nat \ {0}  BY ParameterAssumption
<1> QED  BY <1>1 DEF Long

LEMMA RequestFields ==
  ASSUME NEW r \in Requests
  PROVE  /\ r.sector \in Nat /\ r.segs \in Seq(Nat \ {0}) /\ r.segs # <<>> /\ r # None
         /\ BlockSectors \in Nat \ {0} /\ NSectors \in Nat \ {0} /\ Size \in Nat
<1>1. r \in RequestType /\ r.segs # <<>> /\ r # None  BY RequestAssumption
<1>2. /\ BlockSectors \in Nat \ {0} /\ NSectors \in Nat \ {0} /\ IntSectors \in Nat \ {0}
  BY ParameterAssumption
<1>3. NSectors * BlockSectors \in Nat  BY <1>2
<1>4. Size \in Nat  BY <1>2, <1>3 DEF Size
<1> QED  BY <1>1, <1>2, <1>4 DEF RequestType

\* The sums of sbd_transfer are those of unsigned longs.
LEMMA Sums ==
  ASSUME Kinds, pc # "idle"
  PROVE  /\ offset \in 0 .. LongSectors - 1 /\ nbytes \in 0 .. LongSectors - 1
         /\ LongSectors \in Nat
<1>1. req \in Requests /\ segs # <<>> /\ segs \in Seq(Nat \ {0})  BY DEF Kinds
<1>2. Head(segs) \in Nat  BY <1>1
<1>3. req.sector \in Nat /\ BlockSectors \in Nat /\ at \in Nat  BY <1>1, RequestFields DEF Kinds
<1>4. (req.sector + at) * BlockSectors \in Nat /\ Head(segs) * BlockSectors \in Nat  BY <1>2, <1>3
<1> QED  BY <1>4, LongIs DEF offset, nbytes

\* Different blocks of one segment have different places.
LEMMA PlacesDiffer ==
  ASSUME NEW o \in 0 .. LongSectors - 1, NEW i \in Nat, NEW j \in Nat, j < i, i < LongSectors
  PROVE  Long(o + j) # Long(o + i)
<1>1. o + j \in Nat /\ o + i \in Nat /\ LongSectors \in Nat  BY LongIs
<1>2. Long(o + i) = IF o + i < LongSectors THEN o + i ELSE o + i - LongSectors  BY <1>1, LongIs
<1>3. Long(o + j) = IF o + j < LongSectors THEN o + j ELSE o + j - LongSectors  BY <1>1, LongIs
<1> QED  BY <1>1, <1>2, <1>3

\* The next sector to be moved is in the device, unless the end wraps.
LEMMA Inside ==
  ASSUME Kinds, Fits, pc = "move", k < nbytes,
         (req.sector + at + Head(segs)) * BlockSectors < LongSectors
  PROVE  /\ offset = (req.sector + at) * BlockSectors /\ nbytes = Head(segs) * BlockSectors
         /\ Place(k) = offset + k /\ offset \in Nat /\ Place(k) \in Units
<1>1. req \in Requests /\ segs # <<>> /\ segs \in Seq(Nat \ {0}) /\ k \in Nat /\ at \in Nat  BY DEF Kinds
<1>2. Head(segs) \in Nat  BY <1>1
<1>3. req.sector \in Nat /\ BlockSectors \in Nat /\ Size \in Nat  BY <1>1, RequestFields
<1> DEFINE o == (req.sector + at) * BlockSectors
           n == Head(segs) * BlockSectors
<1>4. o \in Nat /\ n \in Nat /\ LongSectors \in Nat
  <2>1. LongSectors \in Nat  BY ParameterAssumption
  <2> QED  BY <1>1, <1>2, <1>3, <2>1
<1>5. o + n < LongSectors
  <2>1. ASSUME NEW a \in Nat, NEW h \in Nat, NEW c \in Nat
        PROVE  (a + h) * c = a * c + h * c
    OBVIOUS
  <2>2. req.sector + at \in Nat  BY <1>1, <1>3
  <2>3. (req.sector + at + Head(segs)) * BlockSectors = o + n  BY <1>2, <1>3, <2>1, <2>2
  <2> QED  BY <2>3
<1>6. offset = Long(o) /\ nbytes = Long(n)  BY DEF offset, nbytes
<1>7. Long(offset + nbytes) <= Size
  <2>1. ~(Long(offset + nbytes) > Size)  BY DEF Fits, BeyondEnd
  <2>2. offset + nbytes \in Nat  BY <1>4, <1>6, LongIs
  <2>3. Long(offset + nbytes) \in Nat  BY <2>2, LongIs
  <2> QED  BY <1>3, <2>1, <2>3
<1> HIDE DEF o, n
<1>8. offset = o /\ nbytes = n  BY <1>4, <1>5, <1>6, LongIs
<1>9. o + n <= Size
  <2>1. o + n \in Nat  BY <1>4
  <2> QED  BY <1>5, <1>7, <1>8, <2>1, LongIs
<1>10. o + k \in Nat /\ o + k < LongSectors /\ k < n  BY <1>1, <1>4, <1>5, <1>8
<1>11. Place(k) = o + k  BY <1>8, <1>10, LongIs DEF Place
<1>12. Place(k) \in Units  BY <1>1, <1>3, <1>4, <1>9, <1>10, <1>11 DEF Units
<1> QED  BY <1>4, <1>8, <1>11, <1>12 DEF o, n

LEMMA StoredKey ==
  ASSUME NoKeyWithout, NEW v
  PROVE  Stored(schedule, v).key = schedule
BY DEF Stored, Encrypt, NoKeyWithout

LEMMA InvInit == Init => Inv
<1> SUFFICES ASSUME Init  PROVE Inv  OBVIOUS
<1>1. cipher \in BOOLEAN /\ (cipher => encrypts)  BY ResultsAssumption DEF Init
<1>2. Kinds  BY <1>1 DEF Init, Kinds
<1> QED  BY <1>1, <1>2 DEF Init, Inv, Fits, NoKeyWithout, OneKeyPerSegment

LEMMA InvNext == Inv /\ [Next]_vars => Inv'
<1> SUFFICES ASSUME Inv, [Next]_vars  PROVE Inv'  OBVIOUS
<1> USE DEF Inv
<1>1. ASSUME NEW r \in Requests, Submit(r)  PROVE Inv'
  <2>1. UNCHANGED <<params, schedule, data, progress>> /\ queue' = queue \cup {r}
    BY <1>1 DEF Submit
  <2>2. Kinds'  BY <2>1 DEF Kinds, params, progress, Units, Size
  <2>3. Fits' /\ NoKeyWithout' /\ OneKeyPerSegment'
    BY <2>1
    DEF Fits, NoKeyWithout, OneKeyPerSegment, progress, params, BeyondEnd, Place, offset, nbytes, Size,
        Units
  <2> QED  BY <2>2, <2>3
<1>2. CASE WriteParameters
  <2>1. UNCHANGED <<encrypts, cipher, schedule, data, queue, progress>>  BY <1>2 DEF WriteParameters
  <2>2. Kinds'  BY <2>1 DEF Kinds, params, progress, Units, Size
  <2>3. Fits' /\ NoKeyWithout' /\ OneKeyPerSegment'
    BY <2>1
    DEF Fits, NoKeyWithout, OneKeyPerSegment, progress, BeyondEnd, Place, offset, nbytes, Size, Units
  <2> QED  BY <2>2, <2>3
<1>3. CASE Fetch
  <2>1. PICK r \in queue : req' = r /\ segs' = r.segs /\ queue' = queue \ {r}
    BY <1>3 DEF Fetch
  <2>2. r \in Requests  BY <2>1 DEF Kinds
  <2>3. r.segs \in Seq(Nat \ {0}) /\ r.segs # <<>>  BY <2>2, RequestFields
  <2>4. at' = 0 /\ k' = 0 /\ pc' = "request" /\ UNCHANGED <<params, schedule, data>>
    BY <1>3 DEF Fetch
  <2>5. Kinds'  BY <2>1, <2>2, <2>3, <2>4 DEF Kinds, params, Units, Size
  <2> QED  BY <2>4, <2>5 DEF Fits, NoKeyWithout, OneKeyPerSegment, params
<1>4. CASE SkipOther
  <2>1. UNCHANGED <<params, schedule, data, queue, progress>>  BY <1>4 DEF SkipOther
  <2>2. Kinds'  BY <2>1 DEF Kinds, params, progress, Units, Size
  <2>3. Fits' /\ NoKeyWithout' /\ OneKeyPerSegment'
    BY <2>1
    DEF Fits, NoKeyWithout, OneKeyPerSegment, progress, params, BeyondEnd, Place, offset, nbytes, Size,
        Units
  <2> QED  BY <2>2, <2>3
<1>5. CASE sbd_transfer
  <2>1. /\ pc = "request" /\ k' = 0
        /\ UNCHANGED <<params, data, queue, req, segs, at>>
        /\ \/ BeyondEnd /\ pc' = "end" /\ UNCHANGED schedule
           \/ ~BeyondEnd /\ (encrypts => cipher) /\ pc' = "move"
              /\ schedule' = SetKey(cryptoKey, keyLength)
           \/ pc' = "oops" /\ UNCHANGED schedule
    BY <1>5 DEF sbd_transfer
  <2>2. Kinds'  BY <2>1 DEF Kinds, params, Units, Size
  <2>3. Fits'
    <3>1. BeyondEnd' = BeyondEnd  BY <2>1 DEF BeyondEnd, offset, nbytes, Size
    <3> QED  BY <2>1, <3>1 DEF Fits
  <2>4. NoKeyWithout'  BY <2>1 DEF NoKeyWithout, SetKey, params
  <2>5. OneKeyPerSegment'  BY <2>1 DEF OneKeyPerSegment
  <2> QED  BY <2>2, <2>3, <2>4, <2>5
<1>6. CASE EncryptOne /\ ~Oops
  <2>1. /\ pc = "move" /\ req.write /\ k < nbytes /\ k' = k + 1
        /\ UNCHANGED <<params, schedule, queue, req, segs, at, pc>>
    BY <1>6 DEF EncryptOne
  <2>2. PICK v : data' = IF Place(k) \in Units THEN [data EXCEPT ![Place(k)] = Stored(schedule, v)]
                         ELSE data
    BY <1>6 DEF EncryptOne
  <2>3. /\ offset \in 0 .. LongSectors - 1 /\ nbytes \in 0 .. LongSectors - 1 /\ LongSectors \in Nat
        /\ k \in Nat
    BY <2>1, Sums DEF Kinds
  <2>4. data' = [u \in Units |-> data'[u]]  BY <2>2 DEF Kinds
  <2>5. Kinds'  BY <2>1, <2>4 DEF Kinds, params, Units, Size
  <2>6. Fits' /\ NoKeyWithout'
    BY <2>1 DEF Fits, NoKeyWithout, params, BeyondEnd, offset, nbytes, Size
  <2>7. OneKeyPerSegment'
    <3> SUFFICES ASSUME NEW j \in 0 .. k, Place(j) \in Units  PROVE data'[Place(j)].key = schedule
      <4>1. /\ \A j : Place(j)' = Place(j)
            /\ Units' = Units
        BY <2>1 DEF Place, offset, Units, Size
      <4>2. 0 .. k' - 1 = 0 .. k  BY <2>1, <2>3
      <4> QED  BY <2>1, <4>1, <4>2 DEF OneKeyPerSegment
    <3>1. CASE j = k
      <4>1. data'[Place(k)] = Stored(schedule, v)  BY <2>2, <3>1 DEF Kinds
      <4> QED  BY <3>1, <4>1, StoredKey
    <3>2. CASE j # k
      <4>1. j \in 0 .. k - 1 /\ j \in Nat /\ j < k /\ k < LongSectors  BY <2>1, <2>3, <3>2
      <4>2. Place(j) # Place(k)  BY <2>3, <4>1, PlacesDiffer DEF Place
      <4>3. data'[Place(j)] = data[Place(j)]  BY <2>2, <4>2 DEF Kinds
      <4> QED  BY <2>1, <4>1, <4>3 DEF OneKeyPerSegment
    <3> QED  BY <3>1, <3>2
  <2> QED  BY <2>5, <2>6, <2>7
<1>7. CASE DecryptOne /\ ~Oops
  <2>1. /\ pc = "move" /\ ~req.write /\ k' = k + 1
        /\ UNCHANGED <<params, schedule, data, queue, req, segs, at, pc>>
    BY <1>7 DEF DecryptOne
  <2>2. Kinds'  BY <2>1 DEF Kinds, params, Units, Size
  <2> QED
    BY <2>1, <2>2 DEF Fits, NoKeyWithout, OneKeyPerSegment, params, BeyondEnd, offset, nbytes, Size
<1>11. CASE (EncryptOne \/ DecryptOne) /\ Oops
  <2>1. /\ pc = "move" /\ pc' = "oops"
        /\ UNCHANGED <<params, schedule, data, queue, req, segs, at, k>>
    BY <1>11 DEF EncryptOne, DecryptOne, Oops
  <2>2. Kinds'  BY <2>1 DEF Kinds, params, Units, Size
  <2> QED  BY <2>1, <2>2 DEF Fits, NoKeyWithout, OneKeyPerSegment, params
<1>8. CASE Transferred
  <2>1. pc = "move" /\ pc' = "end" /\ UNCHANGED <<params, schedule, data, queue, req, segs, at, k>>
    BY <1>8 DEF Transferred
  <2>2. Kinds'  BY <2>1 DEF Kinds, params, Units, Size
  <2> QED  BY <2>1, <2>2 DEF Fits, NoKeyWithout, OneKeyPerSegment, params
<1>9. CASE EndCur
  <2>1. /\ pc = "end" /\ k' = 0 /\ UNCHANGED <<params, schedule, data, queue>>
        /\ \/ /\ Len(segs) > 1 /\ segs' = Tail(segs) /\ at' = at + Head(segs)
              /\ pc' = "request" /\ req' = req
           \/ req' = None /\ segs' = <<>> /\ at' = 0 /\ pc' = "idle"
    BY <1>9 DEF EndCur
  <2>2. Kinds'
    <3>1. CASE req' = None /\ segs' = <<>> /\ at' = 0 /\ pc' = "idle"
      BY <2>1, <3>1 DEF Kinds, params, Units, Size
    <3>2. CASE /\ Len(segs) > 1 /\ segs' = Tail(segs) /\ at' = at + Head(segs)
               /\ pc' = "request" /\ req' = req
      <4>1. /\ Head(segs) \in Nat /\ Tail(segs) \in Seq(Nat \ {0}) /\ Tail(segs) # <<>>
        <5>1. segs \in Seq(Nat \ {0}) /\ segs # <<>>  BY <2>1 DEF Kinds
        <5>2. Len(Tail(segs)) = Len(segs) - 1  BY <5>1
        <5>3. Len(<<>>) = 0  OBVIOUS
        <5>4. Tail(segs) # <<>>
          <6> DEFINE long == Len(segs)
                     short == Len(Tail(segs))
          <6>1. long > 1 /\ long \in Nat /\ short = long - 1  BY <3>2, <5>1, <5>2
          <6>2. Tail(segs) = <<>> => short = 0  BY <5>3
          <6> HIDE DEF long, short
          <6>3. short # 0  BY <6>1
          <6> QED  BY <6>2, <6>3
        <5> QED  BY <5>1, <5>4
      <4> QED  BY <2>1, <3>2, <4>1 DEF Kinds, params, Units, Size
    <3> QED  BY <2>1, <3>1, <3>2
  <2>3. pc' # "move"  BY <2>1
  <2> QED  BY <2>1, <2>2, <2>3 DEF Fits, NoKeyWithout, OneKeyPerSegment, params
<1>10. CASE UNCHANGED vars
  <2>1. Kinds'  BY <1>10 DEF vars, Kinds, params, progress, Units, Size
  <2> QED
    BY <1>10, <2>1
    DEF vars, Fits, NoKeyWithout, OneKeyPerSegment, progress, params, BeyondEnd, Place, offset, nbytes,
        Size, Units
<1> QED
  BY <1>1, <1>2, <1>3, <1>4, <1>5, <1>6, <1>7, <1>8, <1>9, <1>10, <1>11 DEF Next, sbd_request

--------------------------------------------------------------------------------
\* Between sbd_init and sbd_exit, requests are those of Sbd.
LEMMA LifeStep == [LNext]_allVars => [Next]_vars
<1>1. ASSUME NEW r \in Requests, Request(r)  PROVE [Next]_vars  BY <1>1 DEF Request, Next
<1>2. CASE Parameters  BY <1>2 DEF Parameters, Next
<1>3. CASE Serve  BY <1>3 DEF Serve, Next
<1>4. CASE sbd_init \/ sbd_exit
  BY <1>4
  DEF sbd_init, sbd_exit, AllocCipher, AllocData, InitQueue, Register, AllocDisk, AddDisk, Unregister,
      Out, FreeCipher, Acquire, Goto, Release
<1>5. CASE Open \/ Close \/ Remove \/ Gone \/ UNCHANGED allVars
  BY <1>5 DEF Open, Close, Remove, Gone, Goto, allVars
<1> QED  BY <1>1, <1>2, <1>3, <1>4, <1>5 DEF LNext

\* What is proved of Sbd holds of the driver from sbd_init to sbd_exit.
THEOREM LifeAddsNothing == LSpec => Spec
<1>1. LInit => Init  BY DEF LInit
<1>2. [LNext]_allVars => [Next]_vars  BY LifeStep
<1> QED  BY <1>1, <1>2, PTL DEF LSpec, Spec

LEMMA InvHolds == Spec => []Inv
BY InvInit, InvNext, PTL DEF Spec

--------------------------------------------------------------------------------
(***************************************************************************)
(* Where the transfer is in its request, whose segments are its data.      *)
(***************************************************************************)

\* Where the segments of a request begin, and where the last one ends.
Starts(r, from) ==
  /\ from \in [1 .. Len(r.segs) + 1 -> 0 .. Len(r.data)]
  /\ from[1] = 0 /\ from[Len(r.segs) + 1] = Len(r.data)
  /\ \A i \in 1 .. Len(r.segs) : from[i + 1] = from[i] + r.segs[i]

\* The segments of a request are its data.
Segmented ==
  \A r \in Requests : \E from \in [1 .. Len(r.segs) + 1 -> 0 .. Len(r.data)] : Starts(r, from)

From(r) == CHOOSE from : Starts(r, from)

\* The segments that are left are the last ones of the request.
Done == Len(req.segs) - Len(segs)
Position ==
  pc # "idle" =>
    /\ Len(segs) \in 1 .. Len(req.segs)
    /\ \A j \in 1 .. Len(segs) : segs[j] = req.segs[Done + j]
    /\ at = From(req)[Done + 1]

\* Its segments begin where From says.
LEMMA FromIs == ASSUME Segmented, NEW r \in Requests PROVE Starts(r, From(r)) BY DEF Segmented, From

\* A request fits the device.
LEMMA RequestIs ==
  ASSUME NEW r \in Requests
  PROVE  /\ r.sector \in Nat /\ r.segs \in Seq(Nat \ {0}) /\ r.segs # <<>> /\ r # None
         /\ Len(r.segs) \in Nat \ {0} /\ Len(r.data) \in Nat /\ r.sector + Len(r.data) <= NSectors
         /\ r.fs \in BOOLEAN
<1>1. r \in RequestType /\ r.segs # <<>> /\ r # None /\ r.sector + Len(r.data) <= NSectors
  BY RequestAssumption
<1>2. r.sector \in Nat /\ r.segs \in Seq(Nat \ {0}) /\ r.data \in Seq(Values) /\ r.fs \in BOOLEAN
  BY <1>1 DEF RequestType
<1>3. Len(r.segs) \in Nat \ {0} /\ Len(r.data) \in Nat BY <1>1, <1>2
<1>4. QED BY <1>1, <1>2, <1>3

\* Where the transfer is in the request.
LEMMA PositionIs ==
  ASSUME Segmented, Kinds, Position, pc # "idle"
  PROVE  /\ req \in Requests /\ at \in Nat /\ k \in Nat /\ req.sector \in Nat
         /\ Len(segs) \in Nat \ {0} /\ Head(segs) \in Nat \ {0}
         /\ at + Head(segs) <= Len(req.data) /\ Len(req.data) \in Nat
         /\ req.sector + Len(req.data) <= NSectors
         /\ at + Head(segs) = From(req)[Done + 2]
         /\ Len(segs) = 1 => at + Head(segs) = Len(req.data)
<1>1. req \in Requests /\ segs \in Seq(Nat \ {0}) /\ segs # <<>> /\ at \in Nat /\ k \in Nat BY DEF Kinds
<1>2. /\ req.sector \in Nat /\ Len(req.segs) \in Nat \ {0} /\ Len(req.data) \in Nat
      /\ req.sector + Len(req.data) <= NSectors
  BY <1>1, RequestIs
<1>3. Len(segs) \in Nat \ {0} /\ Head(segs) = segs[1] /\ Head(segs) \in Nat \ {0} BY <1>1
<1>4. /\ Len(segs) \in 1 .. Len(req.segs) /\ at = From(req)[Done + 1]
      /\ \A j \in 1 .. Len(segs) : segs[j] = req.segs[Done + j]
  BY DEF Position
<1>5. Done \in 0 .. Len(req.segs) - 1 /\ Len(segs) = Len(req.segs) - Done BY <1>2, <1>3, <1>4 DEF Done
<1>6. Starts(req, From(req)) BY <1>1, FromIs
<1> DEFINE d == Done
           f == From(req)
           n == Len(req.segs)
           h == Head(segs)
<1>7. h = req.segs[d + 1] BY <1>3, <1>4
<1>8. d + 1 \in 1 .. n /\ n \in Nat \ {0} /\ (d + 1) + 1 = d + 2 /\ d + 2 \in 1 .. n + 1 BY <1>2, <1>5
<1>9. f[(d + 1) + 1] = f[d + 1] + req.segs[d + 1] BY <1>6, <1>8 DEF Starts
<1>10. at + h = f[d + 2] BY <1>4, <1>7, <1>8, <1>9
<1>11. f[d + 2] \in 0 .. Len(req.data) BY <1>6, <1>8 DEF Starts
<1>12. Len(segs) = 1 => d + 2 = n + 1
  <2>1. \A a, b \in Int : 1 = a - b => b + 2 = a + 1 OBVIOUS
  <2>2. d \in Int /\ n \in Int /\ Len(segs) = n - d BY <1>2, <1>5
  <2> HIDE DEF d, n
  <2>3. QED BY <2>1, <2>2
<1>13. Len(segs) = 1 => f[d + 2] = Len(req.data) BY <1>6, <1>12 DEF Starts
<1> HIDE DEF d, f, n, h
<1>14. at + h <= Len(req.data) BY <1>2, <1>10, <1>11
<1>15. QED BY <1>1, <1>2, <1>3, <1>10, <1>13, <1>14 DEF d, f, h

\* What each step does to the progress of the request.
LEMMA Progress ==
  ASSUME [Next]_vars
  PROVE  \/ UNCHANGED progress
         \/ /\ pc = "idle" /\ pc' = "request" /\ at' = 0 /\ k' = 0
            /\ \E r \in queue : req' = r /\ segs' = r.segs
         \/ sbd_transfer /\ pc = "request" /\ k' = 0 /\ UNCHANGED <<req, segs, at>>
         \/ /\ pc = "move" /\ pc' = "move" /\ k < nbytes /\ k' = k + 1 /\ req.fs' = req.fs
            /\ UNCHANGED <<req, segs, at>>
         \/ pc = "move" /\ pc' = "oops" /\ Place(k) \notin Units /\ k < nbytes
            /\ UNCHANGED <<req, segs, at, k>>
         \/ pc = "move" /\ pc' = "end" /\ k >= nbytes /\ UNCHANGED <<req, segs, at, k>>
         \/ /\ pc = "end" /\ pc' = "request" /\ Len(segs) > 1 /\ k' = 0 /\ req' = req
            /\ segs' = Tail(segs) /\ at' = at + Head(segs)
         \/ /\ pc = "end" /\ pc' = "idle" /\ ~(Len(segs) > 1) /\ k' = 0 /\ req' = None
            /\ segs' = <<>> /\ at' = 0
<1>1. ASSUME NEW r \in Requests, Submit(r) PROVE UNCHANGED progress BY <1>1 DEF Submit
<1>2. CASE WriteParameters \/ SkipOther BY <1>2 DEF WriteParameters, SkipOther
<1>3. CASE UNCHANGED vars BY <1>3 DEF vars
<1>4. CASE Fetch BY <1>4 DEF Fetch
<1>5. CASE sbd_transfer BY <1>5 DEF sbd_transfer
<1>6. CASE EncryptOne /\ ~Oops BY <1>6 DEF EncryptOne
<1>7. CASE DecryptOne /\ ~Oops BY <1>7 DEF DecryptOne
<1>8. CASE Transferred BY <1>8 DEF Transferred
<1>9. CASE EndCur BY <1>9 DEF EndCur
<1>10. CASE (EncryptOne \/ DecryptOne) /\ Oops
  BY <1>10 DEF EncryptOne, DecryptOne, Oops
<1>11. QED BY <1>1, <1>2, <1>3, <1>4, <1>5, <1>6, <1>7, <1>8, <1>9, <1>10 DEF Next, sbd_request

\* The segments behind the first.
LEMMA TailIs ==
  ASSUME Kinds, Len(segs) > 1
  PROVE  /\ Len(Tail(segs)) = Len(segs) - 1 /\ Len(segs) \in Nat
         /\ \A j \in 1 .. Len(segs) - 1 : Tail(segs)[j] = segs[j + 1]
BY DEF Kinds

LEMMA PositionNext == ASSUME Segmented, Kinds, Position, [Next]_vars PROVE Position'
<1>1. CASE UNCHANGED progress BY <1>1 DEF progress, Position, Done
<1>2. CASE pc # "idle" /\ UNCHANGED <<req, segs, at>> BY <1>2 DEF Position, Done
<1>3. ASSUME NEW r \in queue, req' = r, segs' = r.segs, at' = 0 PROVE Position'
  <2>1. r \in Requests BY DEF Kinds
  <2>2. Len(r.segs) \in Nat \ {0} BY <2>1, RequestIs
  <2>3. Starts(r, From(r)) BY <2>1, FromIs
  <2>4. Done' = 0 BY <1>3, <2>2 DEF Done
  <2>5. From(r)[1] = 0 BY <2>3 DEF Starts
  <2> DEFINE d == Done'
  <2>6. d = 0 BY <2>4
  <2> HIDE DEF d
  <2>7. Len(segs') \in 1 .. Len(req'.segs) BY <1>3, <2>2
  <2>8. \A j \in 1 .. Len(segs') : segs'[j] = req'.segs[d + j]
    <3>1. \A j \in 1 .. Len(r.segs) : d + j = j BY <2>2, <2>6
    <3>2. QED BY <1>3, <3>1
  <2>9. at' = From(req')[d + 1] BY <1>3, <2>5, <2>6
  <2>10. QED BY <2>7, <2>8, <2>9 DEF Position, d
<1>4. CASE /\ pc = "end" /\ Len(segs) > 1 /\ req' = req
           /\ segs' = Tail(segs) /\ at' = at + Head(segs)
  <2>1. pc # "idle" BY <1>4
  <2>2. /\ Len(segs) \in 1 .. Len(req.segs) /\ at + Head(segs) = From(req)[Done + 2]
        /\ \A j \in 1 .. Len(segs) : segs[j] = req.segs[Done + j]
    BY <2>1, PositionIs DEF Position
  <2>3. /\ Len(segs') = Len(segs) - 1 /\ Len(segs) \in Nat /\ Len(segs) > 1
        /\ \A j \in 1 .. Len(segs) - 1 : segs'[j] = segs[j + 1]
    BY <1>4, TailIs
  <2>4. Len(req.segs) \in Nat /\ req' = req BY <1>4, <2>1, RequestIs DEF Kinds
  <2>5. Done' = Done + 1 /\ Done \in Nat BY <2>2, <2>3, <2>4 DEF Done
  <2> DEFINE d == Done
             e == Done'
             m == Len(segs)
             s == segs'
             g == req.segs
  <2>6. e = d + 1 /\ d \in Nat /\ m \in Nat /\ m > 1 /\ m \in 1 .. Len(g) /\ Len(s) = m - 1 /\ Len(g) \in Nat
    BY <2>2, <2>3, <2>4, <2>5
  <2>7. (\A j \in 1 .. m : segs[j] = g[d + j]) /\ \A j \in 1 .. m - 1 : s[j] = segs[j + 1]
    BY <2>2, <2>3
  <2>8. e + 1 = d + 2 BY <2>6
  <2>9. at' = From(req)[e + 1] BY <1>4, <2>2, <2>8
  <2> HIDE DEF d, e, m, s, g
  <2>10. ASSUME NEW j \in 1 .. m - 1 PROVE s[j] = g[e + j]
    <3>1. j + 1 \in 1 .. m /\ d + (j + 1) = e + j BY <2>6
    <3>2. s[j] = segs[j + 1] /\ segs[j + 1] = g[d + (j + 1)] BY <2>7, <3>1
    <3>3. QED BY <3>1, <3>2
  <2>11. Len(s) \in 1 .. Len(g) /\ \A j \in 1 .. Len(s) : s[j] = g[e + j]
    BY <2>6, <2>10
  <2>12. QED BY <2>4, <2>9, <2>11 DEF Position, e, s, g
<1>5. CASE pc' = "idle" BY <1>5 DEF Position
<1>6. \/ UNCHANGED progress \/ (pc # "idle" /\ UNCHANGED <<req, segs, at>>) \/ pc' = "idle"
      \/ \E r \in queue : req' = r /\ segs' = r.segs /\ at' = 0
      \/ /\ pc = "end" /\ Len(segs) > 1 /\ req' = req /\ segs' = Tail(segs) /\ at' = at + Head(segs)
  BY Progress
<1>7. QED BY <1>1, <1>2, <1>3, <1>4, <1>5, <1>6

--------------------------------------------------------------------------------
\* sbd_transfer compares with the size that was computed in an int before it
\* touches Device.data: no access is beyond it, even if that size has wrapped, but
\* for a transfer so far beyond it that its own end wraps.  That needs a capacity
\* of more bytes than an unsigned long counts: with a smaller one no transfer of
\* any request ever leaves the device.
THEOREM StaysInside ==
  /\ LSpec => []InsideDevice
  /\ Segmented /\ NSectors * BlockSectors < LongSectors => (LSpec => []NeverOutside)
<1>1. LSpec => []InsideDevice
  <2>1. Inv => InsideDevice  BY Inside DEF Inv, InsideDevice
  <2> QED  BY <2>1, LifeAddsNothing, InvHolds, PTL
<1>2. ASSUME Segmented, NSectors * BlockSectors < LongSectors  PROVE LSpec => []NeverOutside
  <2>1. Init => Position  BY DEF Init, Position
  <2>2. Inv /\ Position /\ [Next]_vars => Position'  BY <1>2, PositionNext DEF Inv
  <2>3. Inv /\ Position => NeverOutside
    <3> SUFFICES ASSUME Inv, Position, pc = "move", k < nbytes  PROVE Place(k) \in Units
      BY DEF NeverOutside
    <3> DEFINE e == req.sector + at + Head(segs)
    <3>1. e \in Nat /\ e <= NSectors
      <4> DEFINE h == Head(segs)
                 q == req.sector
                 l == Len(req.data)
      <4>1. /\ q \in Nat /\ at \in Nat /\ h \in Nat /\ l \in Nat /\ NSectors \in Nat
            /\ at + h <= l /\ q + l <= NSectors
        BY <1>2, PositionIs, ParameterAssumption DEF Inv
      <4> HIDE DEF h, q, l
      <4>2. q + at + h \in Nat /\ q + at + h <= NSectors  BY <4>1
      <4> QED  BY <4>2 DEF h, q
    <3> HIDE DEF e
    <3>2. BlockSectors \in Nat /\ NSectors \in Nat /\ LongSectors \in Nat  BY ParameterAssumption
    <3>3. ASSUME NEW a \in Nat, NEW b \in Nat, NEW c \in Nat, a <= b
          PROVE  a * c <= b * c /\ a * c \in Nat /\ b * c \in Nat
      BY <3>3
    <3>4. e * BlockSectors < LongSectors  BY <1>2, <3>1, <3>2, <3>3
    <3> QED  BY <3>4, Inside DEF Inv, e
  <2> QED  BY <2>1, <2>2, <2>3, LifeAddsNothing, InvHolds, PTL DEF Spec
<1> QED  BY <1>1, <1>2

\* Writes to cryptoKey and keyLength while a segment is encrypted do not tear it.
THEOREM OneKeyHolds == LSpec => []OneKeyPerSegment
<1>1. Inv => OneKeyPerSegment  BY DEF Inv
<1> QED  BY <1>1, LifeAddsNothing, InvHolds, PTL

--------------------------------------------------------------------------------
(***************************************************************************)
(* What is held at each stage.  At least:                                  *)
(***************************************************************************)

\* The cipher, if there was one to be had.
Cipher == IF cipher THEN {"cipher"} ELSE {}

HeldAtLeast ==
  /\ stage = "data" => Cipher \subseteq held
  /\ stage = "queue" => Cipher \cup {"data"} \subseteq held
  /\ stage = "register" => Cipher \cup {"data", "queue"} \subseteq held
  /\ stage = "disk" => Cipher \cup {"data", "queue", "major"} \subseteq held
  /\ stage = "add" => Cipher \cup {"data", "queue", "major", "disk"} \subseteq held
  /\ stage = "live" => Cipher \cup {"data", "queue", "major", "disk", "minors"} \subseteq held

\* The device is open only in between, and there are requests only while it is.
OpenForRequests ==
  /\ held \subseteq Cipher \cup {"data", "queue", "major", "disk", "minors"}
  /\ opened => stage = "live"
  /\ queue # {} \/ req # None => opened
  /\ pc # "idle" => req # None

LifeInv == HeldAtLeast /\ OpenForRequests

LEMMA LifeInvInit == LInit => LifeInv
BY DEF LInit, Init, LifeInv, HeldAtLeast, OpenForRequests, Cipher

\* sbd_init and sbd_exit do not touch requests.
LEMMA NoRequestTouched ==
  ASSUME sbd_init \/ sbd_exit \/ Open \/ Close \/ Remove \/ Gone \/ UNCHANGED allVars
  PROVE  UNCHANGED <<encrypts, cipher, queue, req, pc>>
<1>1. UNCHANGED vars
  BY DEF sbd_init, sbd_exit, AllocCipher, AllocData, InitQueue, Register, AllocDisk, AddDisk,
         Unregister, Out, FreeCipher, Acquire, Goto, Release, Open, Close, Remove, Gone, allVars
<1> QED  BY <1>1 DEF vars, params, progress

\* Nor do requests come out of nothing.
LEMMA ServeNeedsRequest ==
  ASSUME OpenForRequests, sbd_request
  PROVE  (queue # {} \/ req # None) /\ UNCHANGED <<encrypts, cipher>>
BY DEF OpenForRequests, sbd_request, Fetch, SkipOther, sbd_transfer, EncryptOne, DecryptOne, Oops,
       Transferred, EndCur, params

LEMMA LifeInvNext ==
  ASSUME Inv', LifeInv, [LNext]_allVars
  PROVE  LifeInv'
<1> USE DEF LifeInv
<1>1. pc' # "idle" => req' # None
  BY RequestAssumption DEF Inv, Kinds
<1>2. CASE sbd_init
  <2>1. UNCHANGED <<encrypts, cipher, queue, req, pc>>  BY <1>2, NoRequestTouched
  <2>2. Cipher' = Cipher  BY <2>1 DEF Cipher
  <2>3. CASE AllocCipher
    BY <2>1, <2>2, <2>3 DEF AllocCipher, Acquire, Goto, HeldAtLeast, OpenForRequests, Cipher
  <2>4. CASE AddDisk
    BY <2>1, <2>2, <2>4 DEF AddDisk, HeldAtLeast, OpenForRequests
  <2>5. ASSUME NEW this \in {"data", "queue", "register", "disk", "out_unregister", "out"},
               NEW following \in {"out", "failed", "out_unregister"}, Goto(this, following)
        PROVE  LifeInv'
    BY <2>1, <2>2, <2>5 DEF Goto, HeldAtLeast, OpenForRequests
  <2>6. ASSUME NEW this \in {"out_unregister", "out"}, NEW following \in {"out", "failed"},
               NEW resource, Release(this, resource, following)
        PROVE  LifeInv'
    BY <2>1, <2>2, <2>6 DEF Release, HeldAtLeast, OpenForRequests
  <2>7. CASE AllocData
    <3>1. ASSUME Acquire("data", "data", "queue")  PROVE LifeInv'
      BY <2>1, <2>2, <3>1 DEF Acquire, HeldAtLeast, OpenForRequests
    <3> QED  BY <2>5, <2>7, <3>1 DEF AllocData
  <2>8. CASE InitQueue
    <3>1. ASSUME Acquire("queue", "queue", "register")  PROVE LifeInv'
      BY <2>1, <2>2, <3>1 DEF Acquire, HeldAtLeast, OpenForRequests
    <3> QED  BY <2>5, <2>8, <3>1 DEF InitQueue
  <2>9. CASE Register
    <3>1. ASSUME Acquire("register", "major", "disk")  PROVE LifeInv'
      BY <2>1, <2>2, <3>1 DEF Acquire, HeldAtLeast, OpenForRequests
    <3> QED  BY <2>5, <2>9, <3>1 DEF Register
  <2>10. CASE AllocDisk
    <3>1. ASSUME Acquire("disk", "disk", "add")  PROVE LifeInv'
      BY <2>1, <2>2, <3>1 DEF Acquire, HeldAtLeast, OpenForRequests
    <3> QED  BY <2>5, <2>10, <3>1 DEF AllocDisk
  <2>11. CASE Unregister("out_unregister", "out") \/ Out
    BY <2>5, <2>6, <2>11 DEF Unregister, Out
  <2> QED  BY <1>2, <2>3, <2>4, <2>7, <2>8, <2>9, <2>10, <2>11 DEF sbd_init
<1>3. CASE sbd_exit
  <2>1. UNCHANGED <<encrypts, cipher, queue, req, pc>> /\ Cipher' = Cipher
    BY <1>3, NoRequestTouched DEF Cipher
  <2> DEFINE Late == {"free cipher", "del_gendisk", "put_disk", "unregister", "cleanup",
                      "free data", "unloaded", "oopsed"}
  <2>2. PICK this \in Late, following \in Late : /\ stage = this /\ stage' = following
                                                /\ held' \subseteq held /\ opened' = opened
    BY <1>3 DEF sbd_exit, FreeCipher, Unregister, Goto, Release
  <2> QED  BY <2>1, <2>2 DEF HeldAtLeast, OpenForRequests
<1>4. CASE Open \/ Close \/ Remove \/ Gone \/ UNCHANGED allVars
  <2>1. UNCHANGED <<encrypts, cipher, queue, req, pc>> /\ Cipher' = Cipher
    BY <1>4, NoRequestTouched DEF Cipher
  <2>2. CASE Open \/ Close
    BY <2>1, <2>2 DEF Open, Close, HeldAtLeast, OpenForRequests
  <2>3. CASE Remove
    BY <2>1, <2>3 DEF Remove, FirstOfExit, Goto, HeldAtLeast, OpenForRequests
  <2>4. CASE Gone \/ UNCHANGED allVars
    BY <2>1, <2>4 DEF Gone, allVars, life, HeldAtLeast, OpenForRequests
  <2> QED  BY <1>4, <2>2, <2>3, <2>4
<1>5. CASE Serve \/ Parameters \/ \E r \in Requests : Request(r)
  <2>1. UNCHANGED life  BY <1>5 DEF Serve, Parameters, Request
  <2>2. /\ cipher' = cipher
        /\ queue' # {} \/ req' # None => opened
    <3>1. CASE Serve  BY <3>1, ServeNeedsRequest DEF Serve, OpenForRequests
    <3>2. CASE Parameters
      BY <3>2 DEF Parameters, WriteParameters, OpenForRequests, progress
    <3>3. ASSUME NEW r \in Requests, Request(r)  PROVE cipher' = cipher /\ opened
      BY <3>3 DEF Request, Submit, params
    <3> QED  BY <1>5, <3>1, <3>2, <3>3
  <2> QED
    BY <1>1, <2>1, <2>2 DEF life, HeldAtLeast, OpenForRequests, Cipher
<1> QED  BY <1>2, <1>3, <1>4, <1>5 DEF LNext

\* Requests find the device and its queue, and its cipher if there was one to be
\* had: while one waits or is worked on, sbd_init has acquired everything and
\* sbd_exit has released nothing.  Without a cipher, which nobody looks for, no
\* sector is moved.
THEOREM NothingIsMissing == LSpec => []RequestsHaveAll
<1>1. LInit => LifeInv  BY LifeInvInit
<1>2. LifeInv /\ Inv' /\ [LNext]_allVars => LifeInv'  BY LifeInvNext
<1>3. LifeInv /\ Inv => RequestsHaveAll
  <2> SUFFICES ASSUME LifeInv, Inv  PROVE RequestsHaveAll  OBVIOUS
  <2>1. cipher => encrypts  BY DEF Inv, NoKeyWithout
  <2>2. queue # {} \/ req # None => held = Cipher \cup {"data", "queue", "major", "disk", "minors"}
    BY DEF LifeInv, OpenForRequests, HeldAtLeast
  <2>3. Resources \ (IF cipher THEN {} ELSE {"cipher"})
          = Cipher \cup {"data", "queue", "major", "disk", "minors"}
    <3>1. CASE cipher  BY <2>1, <3>1 DEF Resources, Cipher
    <3>2. CASE ~cipher  BY <3>2 DEF Resources, Cipher
    <3> QED  BY <3>1, <3>2
  <2>4. pc \in {"move", "end"} /\ encrypts /\ ~cipher => k = 0 /\ pc = "end"
    BY DEF Inv, NoKeyWithout
  <2> QED  BY <2>2, <2>3, <2>4 DEF RequestsHaveAll
<1> QED  BY <1>1, <1>2, <1>3, LifeAddsNothing, InvHolds, PTL DEF LSpec

--------------------------------------------------------------------------------
\* At most, whatever crypto_alloc_cipher returns.
HeldAtMost ==
  /\ stage = "cipher" => held = {}
  /\ stage = "data" => held \subseteq {"cipher"}
  /\ stage \in {"queue", "free data"} => held \subseteq {"cipher", "data"}
  /\ stage \in {"register", "out", "cleanup"} => held \subseteq {"cipher", "data", "queue"}
  /\ stage \in {"disk", "out_unregister", "unregister"} =>
       held \subseteq {"cipher", "data", "queue", "major"}
  /\ stage \in {"add", "put_disk"} => held \subseteq {"cipher", "data", "queue", "major", "disk"}
  /\ stage = "failed" => held \subseteq {"cipher", "queue"}
  /\ stage = "unloaded" => held = {}
  /\ held \subseteq {"cipher", "data", "queue", "major", "disk", "minors"}

\* The version that does not encrypt has no cipher, and the other has released it
\* once it is past the first statement of sbd_exit.
NoCipherLate ==
  /\ ~encrypts => "cipher" \notin held /\ stage # "cipher"
  /\ stage \in {"del_gendisk", "put_disk", "unregister", "cleanup", "free data", "unloaded"} =>
       "cipher" \notin held

LeftInv == HeldAtMost /\ NoCipherLate

LEMMA LeftInvNext ==
  ASSUME ~RequestedMajor, LeftInv, [LNext]_allVars
  PROVE  LeftInv'
<1> USE DEF LeftInv
<1>1. CASE sbd_init
  <2>1. UNCHANGED encrypts  BY <1>1, NoRequestTouched
  <2>2. CASE AllocCipher
    BY <2>1, <2>2 DEF AllocCipher, Acquire, Goto, HeldAtMost, NoCipherLate
  <2>3. CASE AllocData \/ InitQueue
    BY <2>1, <2>3 DEF AllocData, InitQueue, Acquire, Goto, HeldAtMost, NoCipherLate
  <2>4. CASE Register \/ AllocDisk
    BY <2>1, <2>4 DEF Register, AllocDisk, Acquire, Goto, HeldAtMost, NoCipherLate
  <2>5. CASE AddDisk  BY <2>1, <2>5 DEF AddDisk, HeldAtMost, NoCipherLate
  <2>6. CASE Unregister("out_unregister", "out")
    BY <2>1, <2>6 DEF Unregister, Release, HeldAtMost, NoCipherLate
  <2>7. CASE Out  BY <2>1, <2>7 DEF Out, Release, HeldAtMost, NoCipherLate
  <2> QED  BY <1>1, <2>2, <2>3, <2>4, <2>5, <2>6, <2>7 DEF sbd_init
<1>2. CASE sbd_exit
  <2>1. UNCHANGED encrypts  BY <1>2, NoRequestTouched
  <2>2. CASE FreeCipher \/ Release("del_gendisk", "minors", "put_disk")
    BY <2>1, <2>2 DEF FreeCipher, Goto, Release, HeldAtMost, NoCipherLate
  <2>3. CASE Release("put_disk", "disk", "unregister") \/ Unregister("unregister", "cleanup")
    BY <2>1, <2>3 DEF Release, Unregister, HeldAtMost, NoCipherLate
  <2>4. CASE Release("cleanup", "queue", "free data") \/ Release("free data", "data", "unloaded")
    BY <2>1, <2>4 DEF Release, HeldAtMost, NoCipherLate
  <2> QED  BY <1>2, <2>2, <2>3, <2>4 DEF sbd_exit
<1>3. CASE Open \/ Close \/ Remove \/ Gone \/ UNCHANGED allVars
  <2>1. UNCHANGED encrypts  BY <1>3, NoRequestTouched
  <2> QED
    BY <1>3, <2>1
    DEF Open, Close, Remove, FirstOfExit, Goto, Gone, allVars, life, HeldAtMost, NoCipherLate
<1>4. CASE Serve \/ Parameters \/ \E r \in Requests : Request(r)
  <2>1. UNCHANGED life  BY <1>4 DEF Serve, Parameters, Request
  <2>2. UNCHANGED encrypts
    BY <1>4
    DEF Serve, Parameters, Request, Submit, WriteParameters, params, sbd_request, Fetch, SkipOther,
        sbd_transfer, EncryptOne, DecryptOne, Oops, Transferred, EndCur
  <2> QED  BY <2>1, <2>2 DEF life, HeldAtMost, NoCipherLate
<1> QED  BY <1>1, <1>2, <1>3, <1>4 DEF LNext

\* sbd_exit releases all that sbd_init acquired; an error path of sbd_init all but
\* the cipher and the queue - as long as the kernel chose the major number.
THEOREM LittleLeft ==
  ASSUME ~RequestedMajor
  PROVE  LSpec => []LittleIsLeft
<1>1. LInit => LeftInv  BY DEF LInit, LeftInv, HeldAtMost, NoCipherLate
<1>2. LeftInv /\ [LNext]_allVars => LeftInv'  BY LeftInvNext
<1>3. LeftInv => LittleIsLeft  BY DEF LeftInv, HeldAtMost, LittleIsLeft
<1> QED  BY <1>1, <1>2, <1>3, PTL DEF LSpec

--------------------------------------------------------------------------------
(***************************************************************************)
(* The disk that the driver is.  Its blocks are sectors, the segments of a *)
(* request are its data, and the cipher keeps its key: the invariant says  *)
(* where the transfer is in the request, and that what was stored was      *)
(* stored with the key that the cipher has.                                *)
(***************************************************************************)

\* The logical blocks are the kernel's sectors, and an int counts their bytes.
SectorBlocks == BlockSectors = 1 /\ NSectors < IntSectors

\* What is written to the parameters later sets no other key: AES refuses it.
KeyStays == NewKeys = {} /\ NewLengths \cap {16, 24, 32} = {}

\* What the disk sees of the driver.
Disk == [s \in 0 .. NSectors - 1 |->
           IF s * BlockSectors \in Units THEN data[s * BlockSectors].value ELSE Garbage]
Waiting == {r \in Requests : ended[r] = 0}
Moved == [r \in Requests |-> IF r = req THEN at + k ELSE 0]

--------------------------------------------------------------------------------
\* How far the transfer of the segment is.
Within ==
  /\ pc = "request" => k = 0
  /\ pc = "move" => k <= Head(segs)
  /\ pc = "end" => k = Head(segs)
  /\ pc # "idle" /\ ~req.fs => pc = "request" /\ at = 0

\* A request that is in the queue or worked on has not ended, unless it is one that
\* sbd_request does not get away from.
NotEnded ==
  /\ ended \in [Requests -> Nat]
  /\ \A r \in Requests : r \in queue => ended[r] = 0 /\ r # req
  /\ \A r \in Requests : ended[r] = 0 => r \in queue \/ r = req
  /\ pc # "idle" /\ req.fs => ended[req] = 0

AesTakes(len) == len \in {16, 24, 32}

\* The cipher has the first key, or none since AES refuses the length, and then it
\* will never have one.  What was stored was stored so.
OneKey ==
  /\ encrypts => cryptoKey = Key /\ (AesTakes(keyLength) => keyLength = KeyLen)
  /\ encrypts => schedule \in {NoKey, <<Key, KeyLen>>}
  /\ encrypts /\ schedule = NoKey /\ AesTakes(keyLength) =>
       pc # "move" /\ \A u \in Units : data[u].value = Garbage
  /\ encrypts => \A u \in Units : data[u].value # Garbage => data[u].key = schedule

DiskInv == Position /\ Within /\ NotEnded /\ OneKey

--------------------------------------------------------------------------------
\* The device has a sector for each unit.
LEMMA DeviceIs ==
  ASSUME SectorBlocks
  PROVE  /\ Size = NSectors /\ NSectors \in Nat \ {0} /\ Units = 0 .. NSectors - 1
         /\ BlockSectors = 1 /\ \A n \in Nat : n * BlockSectors = n
<1>1. NSectors \in Nat \ {0} /\ IntSectors \in Nat \ {0} BY ParameterAssumption
<1>2. NSectors * BlockSectors = NSectors BY <1>1 DEF SectorBlocks
<1>3. NSectors % IntSectors = NSectors BY <1>1 DEF SectorBlocks
<1>4. Size = NSectors BY <1>2, <1>3 DEF Size
<1>5. QED BY <1>1, <1>4 DEF Units, SectorBlocks

\* Where the transfer is in the device: no sum wraps, and the end is not beyond it.
LEMMA TransferFits ==
  ASSUME SectorBlocks, Segmented, Kinds, Position, pc # "idle"
  PROVE  /\ offset = req.sector + at /\ nbytes = Head(segs) /\ ~BeyondEnd
         /\ \A j \in Nat : j < nbytes => Place(j) = offset + j /\ offset + j \in 0 .. NSectors - 1
<1> DEFINE h == Head(segs)
           s == req.sector
           l == Len(req.data)
<1>1. /\ at + h <= l /\ s + l <= NSectors /\ at \in Nat /\ h \in Nat /\ s \in Nat /\ l \in Nat
      /\ NSectors \in Nat /\ Size = NSectors
  BY PositionIs, DeviceIs
<1>2. NSectors < LongSectors /\ LongSectors \in Nat
  BY ParameterAssumption DEF SectorBlocks
<1> HIDE DEF h, s, l
<1>3. /\ s + at \in Nat /\ h \in Nat /\ s + at + h \in Nat
      /\ s + at < LongSectors /\ h < LongSectors /\ s + at + h < LongSectors
      /\ s + at + h <= Size
  BY <1>1, <1>2
<1>4. offset = s + at
  <2>1. offset = Long(s + at)  BY <1>3, DeviceIs DEF offset, s
  <2> QED  BY <1>3, <2>1, LongIs
<1>5. nbytes = h
  <2>1. nbytes = Long(h)  BY <1>3, DeviceIs DEF nbytes, h
  <2> QED  BY <1>3, <2>1, LongIs
<1>6. ~BeyondEnd
  <2>1. Long(offset + nbytes) = s + at + h  BY <1>3, <1>4, <1>5, LongIs
  <2> QED  BY <1>1, <1>3, <2>1 DEF BeyondEnd
<1>7. ASSUME NEW j \in Nat, j < nbytes
      PROVE  Place(j) = offset + j /\ offset + j \in 0 .. NSectors - 1
  <2>1. /\ offset + j \in Nat /\ offset + j < LongSectors /\ offset + j \in 0 .. NSectors - 1
    BY <1>1, <1>2, <1>3, <1>4, <1>5, <1>7
  <2> QED  BY <2>1, LongIs DEF Place
<1> QED  BY <1>4, <1>5, <1>6, <1>7 DEF h, s

\* So a request of the file system is transferred, or not even tried without a cipher.
LEMMA TransferIs ==
  ASSUME SectorBlocks, Segmented, Kinds, Position, sbd_transfer
  PROVE  \/ pc' = "move" /\ schedule' = SetKey(cryptoKey, keyLength)
         \/ pc' = "oops" /\ schedule' = schedule
BY TransferFits DEF sbd_transfer

--------------------------------------------------------------------------------
\* Each part of the invariant is kept.
LEMMA WithinNext ==
  ASSUME SectorBlocks, Segmented, Kinds, Position, Within, [Next]_vars
  PROVE  Within'
<1>1. CASE UNCHANGED progress BY <1>1 DEF progress, Within
<1>2. CASE pc = "idle" /\ pc' = "request" /\ at' = 0 /\ k' = 0 BY <1>2 DEF Within
<1>3. CASE sbd_transfer /\ k' = 0 /\ UNCHANGED <<req, segs, at>>
  <2>1. pc' \in {"move", "oops"} BY <1>3, TransferIs
  <2>2. pc # "idle" /\ req.fs BY <1>3 DEF sbd_transfer
  <2>3. Head(segs) \in Nat BY <2>2, PositionIs
  <2>4. QED BY <1>3, <2>1, <2>2, <2>3 DEF Within
<1>4. CASE pc = "move" /\ pc' = "move" /\ k < nbytes /\ k' = k + 1 /\ UNCHANGED <<req, segs, at>>
  <2>1. nbytes = Head(segs) /\ Head(segs) \in Nat /\ k \in Nat BY <1>4, PositionIs, TransferFits
  <2>2. req.fs BY <1>4 DEF Within
  <2>3. k' <= Head(segs) BY <1>4, <2>1
  <2>4. QED BY <1>4, <2>2, <2>3 DEF Within
<1>5. CASE pc = "move" /\ pc' = "end" /\ k >= nbytes /\ UNCHANGED <<req, segs, at, k>>
  <2>1. nbytes = Head(segs) /\ Head(segs) \in Nat /\ k \in Nat BY <1>5, PositionIs, TransferFits
  <2>2. req.fs /\ k <= Head(segs) BY <1>5 DEF Within
  <2>3. k = Head(segs) BY <1>5, <2>1, <2>2
  <2>4. QED BY <1>5, <2>2, <2>3 DEF Within
<1>6. CASE pc = "end" /\ pc' = "request" /\ k' = 0 /\ req' = req
  <2>1. req.fs BY <1>6 DEF Within
  <2>2. QED BY <1>6, <2>1 DEF Within
<1>7. CASE pc' = "idle" BY <1>7 DEF Within
<1>8. ~(pc = "move" /\ Place(k) \notin Units /\ k < nbytes)
  BY TransferFits, DeviceIs DEF Kinds
<1>9. QED BY <1>1, <1>2, <1>3, <1>4, <1>5, <1>6, <1>7, <1>8, Progress

LEMMA NotEndedNext ==
  ASSUME Kinds, Within, NotEnded, [Next]_vars
  PROVE  NotEnded'
<1>1. ASSUME NEW r \in Requests, Submit(r) PROVE NotEnded'
  <2>1. /\ r \notin queue /\ req # r /\ queue' = queue \cup {r} /\ ended' = [ended EXCEPT ![r] = 0]
        /\ UNCHANGED <<req, pc>>
    BY <1>1 DEF Submit, progress
  <2>2. ended' \in [Requests -> Nat] /\ \A u \in Requests : ended'[u] = IF u = r THEN 0 ELSE ended[u]
    BY <2>1 DEF NotEnded
  <2>3. pc # "idle" => req \in Requests BY DEF Kinds
  <2>4. QED BY <2>1, <2>2, <2>3 DEF NotEnded
<1>2. CASE \/ WriteParameters \/ sbd_transfer \/ EncryptOne \/ DecryptOne \/ Transferred
  <2>1. UNCHANGED <<queue, req, ended>> /\ (pc' # "idle" => pc # "idle")
    BY <1>2 DEF WriteParameters, sbd_transfer, EncryptOne, DecryptOne, Oops, Transferred, progress
  <2>2. QED BY <2>1 DEF NotEnded
<1>3. CASE UNCHANGED vars BY <1>3 DEF vars, progress, NotEnded
<1>4. CASE Fetch
  <2>1. PICK r \in queue : req' = r /\ queue' = queue \ {r} /\ ended' = ended /\ pc = "idle" BY <1>4 DEF Fetch
  <2>2. r \in Requests /\ ended[r] = 0 /\ req = None BY <2>1 DEF Kinds, NotEnded
  <2>3. \A u \in Requests : u # req BY <2>2, RequestIs
  <2>4. QED BY <2>1, <2>2, <2>3 DEF NotEnded
<1>5. CASE SkipOther
  <2>1. /\ pc = "request" /\ ~req.fs /\ UNCHANGED <<queue, req, pc>>
        /\ ended' = [ended EXCEPT ![req] = IF @ < MaxEnded THEN @ + 1 ELSE @]
    BY <1>5 DEF SkipOther, progress
  <2>2. req \in Requests BY <2>1 DEF Kinds
  <2>3. /\ ended' \in [Requests -> Nat] /\ \A u \in Requests : u # req => ended'[u] = ended[u]
    BY <2>1, <2>2 DEF NotEnded
  <2>4. QED BY <2>1, <2>2, <2>3 DEF NotEnded
<1>6. CASE EndCur
  <2>1. CASE Len(segs) > 1
    <3>1. UNCHANGED <<queue, req, ended>> /\ pc = "end" BY <1>6, <2>1 DEF EndCur
    <3>2. QED BY <3>1 DEF NotEnded
  <2>2. CASE ~(Len(segs) > 1)
    <3>1. /\ pc = "end" /\ pc' = "idle" /\ req' = None /\ queue' = queue
          /\ ended' = [ended EXCEPT ![req] = @ + 1]
      BY <1>6, <2>2 DEF EndCur
    <3>2. req \in Requests /\ ended[req] = 0 BY <3>1 DEF Kinds, NotEnded, Within
    <3>3. /\ ended' \in [Requests -> Nat] /\ ended'[req] = 1
          /\ \A u \in Requests : u # req => ended'[u] = ended[u]
      BY <3>1, <3>2 DEF NotEnded
    <3>4. \A u \in Requests : u # None BY RequestIs
    <3>5. QED BY <3>1, <3>2, <3>3, <3>4 DEF NotEnded
  <2>3. QED BY <2>1, <2>2
<1>7. QED BY <1>1, <1>2, <1>3, <1>4, <1>5, <1>6 DEF Next, sbd_request


\* With which key the cipher works once a segment is tested.
LEMMA KeyIs ==
  ASSUME OneKey, encrypts
  PROVE  /\ SetKey(cryptoKey, keyLength) = IF AesTakes(keyLength) THEN <<Key, KeyLen>> ELSE schedule
         /\ AesTakes(keyLength) /\ schedule # NoKey => schedule = <<Key, KeyLen>>
BY DEF OneKey, SetKey, AesTakes

\* A key that AES takes is one.
LEMMA NoKeyDiffers == AesTakes(KeyLen) => <<Key, KeyLen>> # NoKey
<1> SUFFICES ASSUME AesTakes(KeyLen), <<Key, KeyLen>> = NoKey PROVE FALSE OBVIOUS
<1>1. <<Key, KeyLen>>[2] = NoKey[2] OBVIOUS
<1>2. KeyLen = 0 BY <1>1 DEF NoKey
<1>3. KeyLen \in {16, 24, 32} BY DEF AesTakes
<1>4. QED BY <1>2, <1>3

LEMMA OneKeyNext ==
  ASSUME SectorBlocks, KeyStays, Segmented, Inv, DiskInv, [Next]_vars
  PROVE  OneKey'
<1> USE DEF DiskInv
<1>1. CASE UNCHANGED <<params, schedule, data>> /\ (pc' = "move" => pc = "move")
  BY <1>1 DEF OneKey, params, Units, Size
<1>2. CASE WriteParameters
  <2>1. UNCHANGED <<encrypts, schedule, data, pc>> BY <1>2 DEF WriteParameters, progress
  <2>2. cryptoKey' = cryptoKey
    BY <1>2 DEF WriteParameters, KeyStays
  <2>3. keyLength' = keyLength \/ keyLength' \in NewLengths BY <1>2 DEF WriteParameters
  <2>4. AesTakes(keyLength') => keyLength' = keyLength BY <2>3 DEF AesTakes, KeyStays
  <2>5. AesTakes(keyLength)' <=> AesTakes(keyLength') BY DEF AesTakes
  <2>6. Units' = Units BY DEF Units, Size
  <2>7. QED BY <2>1, <2>2, <2>4, <2>5, <2>6 DEF OneKey
<1>3. CASE sbd_transfer
  <2>1. UNCHANGED <<params, data>>  BY <1>3 DEF sbd_transfer
  <2>1a. CASE pc' = "oops" /\ schedule' = schedule BY <1>1, <2>1, <2>1a
  <2> SUFFICES ASSUME schedule' = SetKey(cryptoKey, keyLength) PROVE OneKey'
    BY <1>3, <2>1a, TransferIs DEF Inv
  <2>2. CASE ~encrypts BY <2>1, <2>2 DEF OneKey, params
  <2>3. CASE encrypts /\ ~AesTakes(keyLength)
    <3>1. schedule' = schedule BY <2>1, <2>3, KeyIs
    <3>2. QED BY <2>1, <2>3, <3>1 DEF OneKey, params, AesTakes, Units, Size
  <2>4. CASE encrypts /\ AesTakes(keyLength)
    <3>1. schedule' = <<Key, KeyLen>> /\ AesTakes(KeyLen) BY <2>1, <2>4, KeyIs DEF OneKey
    <3>2. schedule' # NoKey BY <3>1, NoKeyDiffers
    <3>3. \A u \in Units : data[u].value # Garbage => data[u].key = schedule'
      <4>1. CASE schedule = NoKey BY <2>4, <4>1 DEF OneKey
      <4>2. CASE schedule # NoKey
        <5>1. schedule' = schedule BY <2>4, <3>1, <4>2, KeyIs
        <5>2. QED BY <2>4, <5>1 DEF OneKey
      <4>3. QED BY <4>1, <4>2
    <3>4. UNCHANGED <<encrypts, cryptoKey, keyLength, data>> /\ Units' = Units /\ (AesTakes(keyLength)' <=> AesTakes(keyLength))
      BY <2>1 DEF params, Units, Size, AesTakes
    <3>5. QED BY <3>1, <3>2, <3>3, <3>4 DEF OneKey
  <2>5. QED BY <2>2, <2>3, <2>4
<1>4. CASE EncryptOne /\ ~Oops
  <2>1. /\ UNCHANGED <<params, schedule, pc>> /\ pc = "move" /\ k < nbytes
        /\ \E v : data' = IF Place(k) \in Units THEN [data EXCEPT ![Place(k)] = Stored(schedule, v)]
                          ELSE data
    BY <1>4 DEF EncryptOne
  <2>2. Place(k) \in Units BY <2>1, TransferFits, DeviceIs DEF Inv, Kinds
  <2>3. PICK v : data' = [data EXCEPT ![Place(k)] = Stored(schedule, v)] BY <2>1, <2>2
  <2>4. PICK c : c = Stored(schedule, v) OBVIOUS
  <2>5. encrypts => c.key = schedule BY <2>4 DEF Stored, Encrypt
  <2>6. \A u \in Units : data'[u] = IF u = Place(k) THEN c ELSE data[u]
    BY <2>2, <2>3, <2>4 DEF Inv, Kinds
  <2>7. UNCHANGED <<encrypts, cryptoKey, keyLength, schedule>> /\ Units' = Units /\ (AesTakes(keyLength)' <=> AesTakes(keyLength))
    BY <2>1 DEF params, Units, Size, AesTakes
  <2>8. encrypts => ~(schedule = NoKey /\ AesTakes(keyLength)) BY <2>1 DEF OneKey
  <2>9. QED BY <2>5, <2>6, <2>7, <2>8 DEF OneKey
<1>5. ASSUME NEW r \in Requests, Submit(r) PROVE OneKey' BY <1>1, <1>5 DEF Submit, progress
<1>6. CASE \/ Fetch \/ SkipOther \/ DecryptOne \/ Transferred
           \/ (EncryptOne /\ Oops)
  <2>1. UNCHANGED <<params, schedule, data>> /\ (pc' = "move" => pc = "move")
    BY <1>6 DEF Fetch, SkipOther, EncryptOne, DecryptOne, Oops, Transferred, progress
  <2>2. QED BY <1>1, <2>1
<1>7. CASE EndCur
  <2>1. UNCHANGED <<params, schedule, data>> /\ pc' # "move" BY <1>7 DEF EndCur
  <2>2. QED BY <1>1, <2>1
<1>8. CASE UNCHANGED vars BY <1>1, <1>8 DEF vars, progress
<1>9. QED BY <1>2, <1>3, <1>4, <1>5, <1>6, <1>7, <1>8 DEF Next, sbd_request

LEMMA DiskInvInit == Init => DiskInv
<1> SUFFICES ASSUME Init PROVE DiskInv OBVIOUS
<1>1. pc = "idle" /\ req = None /\ k = 0 /\ queue = {} BY DEF Init
<1>2. Position /\ Within BY <1>1 DEF Position, Within
<1>3. NotEnded BY <1>1 DEF NotEnded, Init
<1>4. OneKey
  <2>1. cryptoKey = Key /\ keyLength = KeyLen /\ schedule = NoKey BY DEF Init
  <2>2. \A u \in Units : data[u].value = Garbage BY DEF Init
  <2>3. QED BY <1>1, <2>1, <2>2 DEF OneKey
<1>5. QED BY <1>2, <1>3, <1>4 DEF DiskInv

LEMMA DiskInvNext ==
  ASSUME SectorBlocks, KeyStays, Segmented, Inv, DiskInv, [Next]_vars
  PROVE  DiskInv'
BY PositionNext, WithinNext, NotEndedNext, OneKeyNext DEF DiskInv, Inv

--------------------------------------------------------------------------------
\* What the disk sees is in the units.
LEMMA DiskIs ==
  ASSUME SectorBlocks
  PROVE  /\ Disk = [s \in 0 .. NSectors - 1 |-> data[s].value]
         /\ Disk' = [s \in 0 .. NSectors - 1 |-> data'[s].value]
<1>1. \A s \in 0 .. NSectors - 1 : s * BlockSectors = s /\ s \in Units BY DeviceIs
<1>2. Disk = [s \in 0 .. NSectors - 1 |-> data[s].value] BY <1>1 DEF Disk
<1>3. Units' = Units BY DEF Units, Size
<1>4. Disk' = [s \in 0 .. NSectors - 1 |-> data'[s].value] BY <1>1, <1>3 DEF Disk
<1>5. QED BY <1>2, <1>4

\* What is moved is nowhere to be seen but in the request worked on.
LEMMA MovedIs ==
  /\ Moved = [r \in Requests |-> IF r = req THEN at + k ELSE 0]
  /\ Moved' = [r \in Requests |-> IF r = req' THEN at' + k' ELSE 0]
BY DEF Moved

\* The disk sees nothing.
DiskStays == UNCHANGED <<Disk, Waiting, Moved, buffer>>


\* What the disk sees of a step: the actions of RamDisk, under the mapping.
SubmitSeen(r) ==
  /\ r \in Requests /\ r \notin Waiting /\ Waiting' = Waiting \cup {r}
  /\ buffer' = [buffer EXCEPT ![r] = r.data] /\ UNCHANGED <<Disk, Moved>>
WriteSeen(r) ==
  /\ r \in Waiting /\ r.fs /\ Moved[r] < Len(r.data) /\ r.write
  /\ Moved' = [Moved EXCEPT ![r] = Moved[r] + 1]
  /\ Disk' = [Disk EXCEPT ![r.sector + Moved[r]] = buffer[r][Moved[r] + 1]]
  /\ UNCHANGED <<Waiting, buffer>>
ReadSeen(r) ==
  /\ r \in Waiting /\ r.fs /\ Moved[r] < Len(r.data) /\ ~r.write
  /\ Moved' = [Moved EXCEPT ![r] = Moved[r] + 1]
  /\ buffer' = [buffer EXCEPT ![r][Moved[r] + 1] = Disk[r.sector + Moved[r]]]
  /\ UNCHANGED <<Waiting, Disk>>
EndSeen(r) ==
  /\ r \in Waiting /\ (r.fs => Moved[r] = Len(r.data))
  /\ Waiting' = Waiting \ {r} /\ Moved' = [Moved EXCEPT ![r] = 0] /\ UNCHANGED <<Disk, buffer>>

LEMMA SeenSubmit == ASSUME NEW r, SubmitSeen(r) PROVE R!Next
BY DEF SubmitSeen, R!Next, R!Submit, Disk, Waiting, Moved
LEMMA SeenWrite == ASSUME NEW r, WriteSeen(r) PROVE R!Next
<1>1. r \in Requests BY DEF WriteSeen, Waiting
<1>2. R!Move(r) BY DEF WriteSeen, R!Move, Disk, Waiting, Moved
<1>3. QED BY <1>1, <1>2 DEF R!Next
LEMMA SeenRead == ASSUME NEW r, ReadSeen(r) PROVE R!Next
<1>1. r \in Requests BY DEF ReadSeen, Waiting
<1>2. R!Move(r) BY DEF ReadSeen, R!Move, Disk, Waiting, Moved
<1>3. QED BY <1>1, <1>2 DEF R!Next
LEMMA SeenEnd == ASSUME NEW r, EndSeen(r) PROVE R!Next
<1>1. r \in Requests BY DEF EndSeen, Waiting
<1>2. R!End(r) BY DEF EndSeen, R!End, Disk, Waiting, Moved
<1>3. QED BY <1>1, <1>2 DEF R!Next
LEMMA SeenNot == ASSUME DiskStays PROVE UNCHANGED (R!ramVars)
BY DEF DiskStays, R!ramVars, Disk, Waiting, Moved

\* A step of the request that moves no sector.
LEMMA NothingMoved ==
  ASSUME UNCHANGED <<data, buffer, ended>>, Moved' = Moved
  PROVE  DiskStays
BY DEF DiskStays, Disk, Waiting, Units, Size

\* No request is worked on, or its first sector is the next.
LEMMA NoneMoved ==
  ASSUME req = None, req' = None \/ at' + k' = 0
  PROVE  Moved' = Moved
<1>1. \A r \in Requests : r # None BY RequestIs
<1>2. QED BY <1>1, MovedIs

\* Every step is one of the disk, or none.
LEMMA DiskStep ==
  ASSUME SectorBlocks, KeyStays, Segmented, Inv, DiskInv, [Next]_vars
  PROVE  [R!Next]_(R!ramVars)
<1> USE DEF DiskInv, Inv
<1> DEFINE b == at + k
<1>0. pc # "idle" => req \in Requests /\ req # None /\ Moved[req] = b BY RequestIs, MovedIs DEF Kinds
<1>1. ASSUME NEW r \in Requests, Submit(r) PROVE R!Next
  <2>1. /\ r \notin queue /\ req # r /\ buffer' = [buffer EXCEPT ![r] = r.data]
        /\ ended' = [ended EXCEPT ![r] = 0] /\ UNCHANGED <<req, at, k, data>>
    BY <1>1 DEF Submit, progress
  <2>2. r \notin Waiting BY <2>1 DEF NotEnded, Waiting
  <2>3. Waiting' = Waiting \cup {r} BY <2>1 DEF Waiting, NotEnded
  <2>4. UNCHANGED <<Disk, Moved>> BY <2>1 DEF Disk, Moved, Units, Size
  <2>5. SubmitSeen(r) BY <2>1, <2>2, <2>3, <2>4 DEF SubmitSeen
  <2>6. QED BY <2>5, SeenSubmit
<1>2. CASE WriteParameters \/ UNCHANGED vars
  <2>1. UNCHANGED <<data, buffer, ended, req, at, k>> BY <1>2 DEF WriteParameters, progress, vars
  <2>2. Moved' = Moved BY <2>1 DEF Moved
  <2>3. QED BY <2>1, <2>2, NothingMoved, SeenNot
<1>3. CASE Fetch
  <2>1. pc = "idle" /\ UNCHANGED <<data, buffer, ended>> /\ at' = 0 /\ k' = 0 BY <1>3 DEF Fetch
  <2>2. req = None /\ at' + k' = 0 BY <2>1 DEF Kinds
  <2>3. QED BY <2>1, <2>2, NoneMoved, NothingMoved, SeenNot
<1>4. CASE SkipOther
  <2>1. /\ pc = "request" /\ ~req.fs /\ UNCHANGED <<data, buffer, req, at, k>>
        /\ ended' = [ended EXCEPT ![req] = IF @ < MaxEnded THEN @ + 1 ELSE @]
    BY <1>4 DEF SkipOther, progress
  <2>2. req \in Requests /\ at = 0 /\ k = 0 /\ Moved[req] = 0
    BY <1>0, <2>1 DEF Within
  <2>3. ended \in [Requests -> Nat] BY DEF NotEnded
  <2>4. Moved' = Moved /\ Disk' = Disk BY <2>1 DEF Moved, Disk, Units, Size
  <2>5. CASE ended[req] = 0
    <3>1. ended' = [ended EXCEPT ![req] = 1] BY <2>1, <2>3, <2>5 DEF MaxEnded
    <3>2. req \in Waiting /\ Waiting' = Waiting \ {req} BY <2>2, <2>3, <2>5, <3>1 DEF Waiting
    <3>3. Moved' = [Moved EXCEPT ![req] = 0] BY <2>2, <2>4, MovedIs
    <3>4. EndSeen(req) BY <2>1, <2>4, <3>2, <3>3 DEF EndSeen
    <3>5. QED BY <3>4, SeenEnd
  <2>6. CASE ended[req] # 0
    <3>1. ended'[req] # 0 /\ \A r \in Requests : r # req => ended'[r] = ended[r] BY <2>1, <2>2, <2>3, <2>6
    <3>2. Waiting' = Waiting BY <2>2, <2>6, <3>1 DEF Waiting
    <3>3. DiskStays BY <2>1, <2>4, <3>2 DEF DiskStays
    <3>4. QED BY <3>3, SeenNot
  <2>7. QED BY <2>5, <2>6
<1>5. CASE sbd_transfer
  <2>1. pc = "request" /\ UNCHANGED <<data, buffer, ended, req, at>> /\ k' = 0 BY <1>5 DEF sbd_transfer
  <2>2. k = 0 BY <2>1 DEF Within
  <2>3. Moved' = Moved BY <2>1, <2>2 DEF Moved
  <2>4. QED BY <2>1, <2>3, NothingMoved, SeenNot
<1>6. ASSUME pc = "move", k < nbytes, k' = k + 1, UNCHANGED <<req, at>>
      PROVE  /\ req \in Waiting /\ req.fs /\ b < Len(req.data) /\ InSegment
             /\ Moved' = [Moved EXCEPT ![req] = Moved[req] + 1]
             /\ Place(k) = req.sector + Moved[req] /\ Moved[req] = b
             /\ at + k + 1 = Moved[req] + 1 /\ Place(k) \in 0 .. NSectors - 1
  <2>1. /\ req \in Requests /\ at \in Nat /\ k \in Nat /\ nbytes = Head(segs) /\ Head(segs) \in Nat
        /\ at + Head(segs) <= Len(req.data) /\ Len(req.data) \in Nat /\ offset = req.sector + at
        /\ req.sector \in Nat /\ Place(k) = offset + k /\ offset + k \in 0 .. NSectors - 1
    BY <1>6, PositionIs, TransferFits DEF Kinds
  <2>2. req.fs BY <1>6 DEF Within
  <2>3. req \in Waiting BY <1>6, <2>1, <2>2 DEF NotEnded, Waiting
  <2>4. InSegment BY <1>6, <2>1 DEF InSegment
  <2>5. b < Len(req.data)
    <3> DEFINE h == Head(segs)
               l == Len(req.data)
    <3>1. k < h /\ at + h <= l /\ h \in Nat /\ l \in Nat BY <1>6, <2>1
    <3> HIDE DEF h, l
    <3>2. at + k < l BY <2>1, <3>1
    <3>3. QED BY <3>2 DEF l
  <2>6. Moved[req] = b BY <1>0, <1>6
  <2>7. at' + k' = b + 1 BY <1>6, <2>1
  <2>8. Moved' = [Moved EXCEPT ![req] = b + 1]
    <3> HIDE DEF b
    <3>1. Moved' = [r \in Requests |-> IF r = req THEN b + 1 ELSE 0] BY <1>6, <2>7, MovedIs
    <3>2. Moved = [r \in Requests |-> IF r = req THEN b ELSE 0] BY MovedIs DEF b
    <3>3. QED BY <2>1, <3>1, <3>2
  <2>9. Place(k) = req.sector + b BY <2>1
  <2>10. QED BY <2>1, <2>2, <2>3, <2>4, <2>5, <2>6, <2>8, <2>9
<1>7. CASE EncryptOne /\ ~Oops
  <2>1. pc = "move" /\ req.write /\ k < nbytes /\ k' = k + 1 /\ UNCHANGED <<req, at, buffer, ended>>
    BY <1>7 DEF EncryptOne
  <2>2. PICK s, v : s = Place(k) /\ v = buffer[req][at + k + 1] OBVIOUS
  <2>3. data' = [data EXCEPT ![s] = Stored(schedule, v)]
    <3>1. InSegment /\ Place(k) \in Units BY <1>6, <2>1, DeviceIs
    <3>2. QED BY <1>7, <2>2, <3>1 DEF EncryptOne
  <2>4. PICK c : c = Stored(schedule, v) OBVIOUS
  <2>5. c.value = v BY <2>4 DEF Stored, Encrypt
  <2>6. s \in 0 .. NSectors - 1 /\ s = req.sector + Moved[req] /\ v = buffer[req][Moved[req] + 1]
    BY <1>6, <2>1, <2>2
  <2>7. data = [u \in 0 .. NSectors - 1 |-> data[u]] BY DeviceIs DEF Kinds
  <2>8. \A u \in 0 .. NSectors - 1 : data'[u] = IF u = s THEN c ELSE data[u] BY <2>3, <2>4, <2>6, <2>7
  <2>9. Disk' = [Disk EXCEPT ![s] = v] BY <2>5, <2>8, DiskIs
  <2>10. Waiting' = Waiting BY <2>1 DEF Waiting
  <2>11. WriteSeen(req) BY <1>6, <2>1, <2>6, <2>9, <2>10 DEF WriteSeen
  <2>12. QED BY <2>11, SeenWrite
<1>8. CASE DecryptOne /\ ~Oops
  <2>1. pc = "move" /\ ~req.write /\ k < nbytes /\ k' = k + 1 /\ UNCHANGED <<req, at, data, ended>>
    BY <1>8 DEF DecryptOne
  <2>2. PICK s, v : s = Place(k) /\ v = Loaded(schedule, data[Place(k)]) OBVIOUS
  <2>3. buffer' = [buffer EXCEPT ![req][at + k + 1] = v]
    <3>1. InSegment /\ Place(k) \in Units BY <1>6, <2>1, DeviceIs
    <3>2. QED BY <1>8, <2>2, <3>1 DEF DecryptOne
  <2>4. s \in 0 .. NSectors - 1 /\ s = req.sector + Moved[req] /\ at + k + 1 = Moved[req] + 1
    BY <1>6, <2>1, <2>2
  <2>5. s \in Units BY <2>4, DeviceIs
  <2>6. v = data[s].value
    <3>1. CASE ~encrypts BY <2>2, <3>1 DEF Loaded
    <3>2. CASE encrypts
      <4>1. data[s].value # Garbage => data[s].key = schedule BY <2>5, <3>2 DEF OneKey
      <4>2. QED BY <2>2, <3>2, <4>1 DEF Loaded, Decrypt
    <3>3. QED BY <3>1, <3>2
  <2>7. Disk[s] = v BY <2>4, <2>6, DiskIs
  <2>8. buffer' = [buffer EXCEPT ![req][Moved[req] + 1] = Disk[req.sector + Moved[req]]]
    BY <2>3, <2>4, <2>7, Zenon
  <2>9. Waiting' = Waiting /\ Disk' = Disk BY <2>1 DEF Waiting, Disk, Units, Size
  <2>10. ReadSeen(req) BY <1>6, <2>1, <2>8, <2>9 DEF ReadSeen
  <2>11. QED BY <2>10, SeenRead
<1>9. CASE Transferred \/ ((EncryptOne \/ DecryptOne) /\ Oops)
  <2>1. UNCHANGED <<data, buffer, ended, req, at, k>> BY <1>9 DEF EncryptOne, DecryptOne, Oops, Transferred
  <2>2. Moved' = Moved BY <2>1 DEF Moved
  <2>3. QED BY <2>1, <2>2, NothingMoved, SeenNot
<1>10. CASE EndCur
  <2>1. pc = "end" /\ k' = 0 /\ UNCHANGED <<data, buffer>> BY <1>10 DEF EndCur
  <2>2. /\ req \in Requests /\ at \in Nat /\ Head(segs) \in Nat /\ Len(segs) \in Nat \ {0}
        /\ Len(segs) = 1 => at + Head(segs) = Len(req.data)
    BY <2>1, PositionIs
  <2>3. k = Head(segs) BY <2>1 DEF Within
  <2>4. CASE Len(segs) > 1
    <3>1. UNCHANGED <<req, ended>> /\ at' = at + Head(segs) BY <1>10, <2>4 DEF EndCur
    <3>2. at' + k' = at + k BY <2>1, <2>2, <2>3, <3>1
    <3>3. Moved' = Moved BY <3>1, <3>2, MovedIs
    <3>4. QED BY <2>1, <3>1, <3>3, NothingMoved, SeenNot
  <2>5. CASE ~(Len(segs) > 1)
    <3>1. req' = None /\ ended' = [ended EXCEPT ![req] = @ + 1] BY <1>10, <2>5 DEF EndCur
    <3>2. Len(segs) = 1
      <4>1. \A n \in Nat \ {0} : ~(n > 1) => n = 1 OBVIOUS
      <4>2. QED BY ONLY <2>2, <2>5, <4>1
    <3>3. Moved[req] = Len(req.data) BY <1>0, <2>1, <2>2, <2>3, <3>2
    <3>4. ended \in [Requests -> Nat] /\ ended[req] = 0 BY <2>1 DEF NotEnded, Within
    <3>5. ended' = [ended EXCEPT ![req] = 1] BY <3>1, <3>4
    <3>6. req \in Waiting /\ Waiting' = Waiting \ {req} BY <2>2, <3>4, <3>5 DEF Waiting
    <3>7. Moved' = [r \in Requests |-> 0]
      <4>1. \A r \in Requests : r # None BY RequestIs
      <4>2. QED BY <3>1, <4>1, MovedIs
    <3>8. Moved' = [Moved EXCEPT ![req] = 0] BY <2>2, <3>7, MovedIs
    <3>9. Disk' = Disk BY <2>1 DEF Disk, Units, Size
    <3>10. EndSeen(req) BY <2>1, <3>3, <3>6, <3>8, <3>9 DEF EndSeen
    <3>11. QED BY <3>10, SeenEnd
  <2>6. QED BY <2>4, <2>5
<1>11. QED BY <1>1, <1>2, <1>3, <1>4, <1>5, <1>7, <1>8, <1>9, <1>10 DEF Next, sbd_request

\* The device is a disk that nobody has written to.
LEMMA DiskInit == ASSUME SectorBlocks, Init PROVE R!Init
<1>1. /\ data = [u \in Units |-> [key |-> NoKey, value |-> Garbage]] /\ req = None
      /\ buffer = [r \in Requests |-> r.data] /\ ended = [r \in Requests |-> 1]
  BY DEF Init
<1>2. Disk = [s \in 0 .. NSectors - 1 |-> Garbage] BY <1>1, DiskIs, DeviceIs
<1>3. Waiting = {} BY <1>1 DEF Waiting
<1>4. Moved = [r \in Requests |-> 0]
  <2>1. \A r \in Requests : r # None BY RequestIs
  <2>2. QED BY <1>1, <2>1, MovedIs
<1>5. QED BY <1>1, <1>2, <1>3, <1>4 DEF R!Init, R!Sectors, Disk, Waiting, Moved

\* Both versions are a disk: a read returns what was last written, whatever segments
\* the requests come in, as long as the cipher is not given another key.
THEOREM DriverIsDisk ==
  ASSUME SectorBlocks, KeyStays, Segmented
  PROVE  Spec => ImplementsRamDisk
<1>1. Init => DiskInv /\ R!Init BY DiskInvInit, DiskInit
<1>2. Inv /\ DiskInv /\ [Next]_vars => DiskInv' BY DiskInvNext
<1>3. Inv /\ DiskInv /\ [Next]_vars => [R!Next]_(R!ramVars) BY DiskStep
<1>4. QED BY <1>1, <1>2, <1>3, InvHolds, PTL DEF Spec, ImplementsRamDisk, R!Spec
================================================================================
