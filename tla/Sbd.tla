---------------------------------- MODULE Sbd ----------------------------------
(***************************************************************************)
(* Project3/Assignment3NewFiles/sbd.c: a RAM disk that encrypts what it    *)
(* stores, and Assignment3OldFiles/sbd.c, from which it was made and which *)
(* does not.  The block layer, which is not part of the programs, queues   *)
(* requests and calls sbd_request with the queue lock held; the lock keeps *)
(* nobody from writing the module parameters cryptoKey and keyLength.      *)
(* Memory is counted in kernel sectors of 512 bytes, of whole cipher       *)
(* blocks each; a step moves one of them.                                  *)
(***************************************************************************)
EXTENDS Integers, Sequences

CONSTANTS
  Versions,      \* of the driver: TRUE for the one that encrypts, FALSE for the older
  Requests,      \* what may be submitted: records with the fields of RequestType
  NSectors,      \* nsectors
  BlockSectors,  \* logical_block_size / KERNEL_SECTOR_SIZE: 1 unless it is set
  IntSectors,    \* how many sectors of bytes an int can count before it wraps,
  LongSectors,   \* and an unsigned long: as many on a machine of 32 bits
  CipherResults, \* what crypto_alloc_cipher may return, TRUE being a cipher
  Key, KeyLen,               \* cryptoKey and keyLength when the module is loaded
  NewKeys, NewLengths,       \* what is written to them later, through sysfs
  Values,
  None

NoKey == <<"", 0>>        \* the schedule of a cipher whose key was never set, or of none
Garbage == "garbage"      \* what no request wrote, or a wrong key made of it

MaxEnded == 2             \* a bound: how often a request is seen to be ended

RequestType == [id : Nat, fs : BOOLEAN, write : BOOLEAN, sector : Nat,
                segs : Seq(Nat \ {0}), data : Seq(Values)]

\* Device.size and the space of Device.data.
Size == (NSectors * BlockSectors) % IntSectors
Units == 0 .. Size - 1

ASSUME ParameterAssumption ==
  /\ NSectors \in Nat \ {0} /\ BlockSectors \in Nat \ {0}
  /\ IntSectors \in Nat \ {0} /\ LongSectors \in Nat /\ IntSectors <= LongSectors
  /\ Size # 0 /\ 2 * Size < IntSectors   \* or vmalloc fails: 0, or a negative int
ASSUME RequestAssumption ==
  /\ None \notin Requests
  /\ \A r \in Requests :
       r \in RequestType /\ r.segs # <<>> /\ r.sector + Len(r.data) <= NSectors

ASSUME VersionsAssumption == Versions \subseteq BOOLEAN
ASSUME ResultsAssumption == CipherResults \subseteq BOOLEAN

VARIABLES
  encrypts,   \* the version
  cipher,     \* whether crypto_alloc_cipher gave it one: nobody looks
  cryptoKey, keyLength,
  schedule,   \* the key that the cipher works with
  data,       \* Device.data: with which key each sector was encrypted, and what
  queue,      \* requests that wait to be fetched
  req,        \* the request that sbd_request works on, or None
  segs,       \* the segments of req not ended yet: blk_rq_cur_sectors is the first
  at,         \* the sectors of req already ended: blk_rq_pos is req.sector + at
  k,          \* the loop counter of sbd_transfer
  pc,
  buffer,     \* memory of the requests
  ended       \* how often a request has been ended since it was submitted

params == <<encrypts, cipher, cryptoKey, keyLength>>
progress == <<req, segs, at, k, pc>>
vars == <<params, schedule, data, queue, progress, buffer, ended>>

Init ==
  /\ encrypts \in Versions
  /\ cipher \in (IF encrypts THEN CipherResults ELSE {FALSE})
  /\ cryptoKey = Key /\ keyLength = KeyLen
  /\ schedule = NoKey
  /\ data = [u \in Units |-> [key |-> NoKey, value |-> Garbage]]
  /\ queue = {}
  /\ req = None /\ segs = <<>> /\ at = 0 /\ k = 0 /\ pc = "idle"
  /\ buffer = [r \in Requests |-> r.data]
  /\ ended = [r \in Requests |-> 1]

--------------------------------------------------------------------------------
\* The block layer takes a request within set_capacity(NSectors) from its callers.
Submit(r) ==
  /\ r \notin queue /\ req # r
  /\ queue' = queue \cup {r}
  /\ buffer' = [buffer EXCEPT ![r] = r.data]
  /\ ended' = [ended EXCEPT ![r] = 0]
  /\ UNCHANGED <<params, schedule, data, progress>>

\* A write to /sys/module/sbd/parameters.
WriteParameters ==
  /\ encrypts
  /\ \/ cryptoKey' \in NewKeys /\ UNCHANGED keyLength
     \/ keyLength' \in NewLengths /\ UNCHANGED cryptoKey
  /\ UNCHANGED <<encrypts, cipher, schedule, data, queue, progress, buffer, ended>>

Encrypt(key, value) == [key |-> key, value |-> value]
Decrypt(key, cell) == IF cell.key = key THEN cell.value ELSE Garbage

\* What a sector of the device holds, and what is read of it: the older version
\* copies.
Stored(key, value) == IF encrypts THEN Encrypt(key, value) ELSE [key |-> NoKey, value |-> value]
Loaded(key, cell) == IF encrypts THEN Decrypt(key, cell) ELSE cell.value

\* crypto_cipher_setkey refuses a length that AES does not have, and its result
\* is not looked at.
SetKey(key, len) == IF encrypts /\ len \in {16, 24, 32} THEN <<key, len>> ELSE schedule

\* What an unsigned long, or an address, makes of a number of bytes.
Long(sectors) == sectors % LongSectors

\* Slip: the position in the request is forgotten.
OffsetOfRequest == Long(req.sector * BlockSectors)

offset == Long((req.sector + at) * BlockSectors)
nbytes == Long(Head(segs) * BlockSectors)

\* Where dev->data + offset + k points to.
Place(j) == Long(offset + j)

\* Slip: the request stays in the queue.
Peek ==
  /\ pc = "idle"
  /\ \E r \in queue : req' = r /\ segs' = r.segs
  /\ at' = 0 /\ k' = 0
  /\ pc' = "request"
  /\ UNCHANGED <<params, schedule, data, queue, buffer, ended>>

\* blk_fetch_request: any of the queue, as the elevator likes.
Fetch ==
  /\ pc = "idle"
  /\ \E r \in queue :
       /\ req' = r /\ segs' = r.segs
       /\ queue' = queue \ {r}
  /\ at' = 0 /\ k' = 0
  /\ pc' = "request"
  /\ UNCHANGED <<params, schedule, data, buffer, ended>>

\* A request that is not of the file system is ended and the loop goes on with
\* it.  What is read of it then is what it was: its memory is not reused.
SkipOther ==
  /\ pc = "request"
  /\ ~req.fs
  /\ ended' = [ended EXCEPT ![req] = IF @ < MaxEnded THEN @ + 1 ELSE @]
  /\ UNCHANGED <<params, schedule, data, queue, progress, buffer>>

\* Slip: no test of the end of the device.
TransferAnywhere ==
  /\ pc = "request" /\ req.fs /\ (encrypts => cipher)
  /\ pc' = "move"
  /\ schedule' = SetKey(cryptoKey, keyLength)
  /\ k' = 0
  /\ UNCHANGED <<params, data, queue, req, segs, at, buffer, ended>>

BeyondEnd == Long(offset + nbytes) > Size

\* The encrypting version follows the pointer to its cipher, even if that is the
\* number of an error: the kernel oopses, and the queue is served no more.
sbd_transfer ==
  /\ pc = "request" /\ req.fs
  /\ \/ BeyondEnd /\ pc' = "end" /\ UNCHANGED schedule
     \/ ~BeyondEnd /\ (encrypts => cipher)
        /\ pc' = "move" /\ schedule' = SetKey(cryptoKey, keyLength)
     \/ ~BeyondEnd /\ encrypts /\ ~cipher /\ pc' = "oops" /\ UNCHANGED schedule
  /\ k' = 0
  /\ UNCHANGED <<params, data, queue, req, segs, at, buffer, ended>>

\* The segment's own memory ends after Head(segs) sectors.
InSegment == k < Head(segs)

\* Slip: the key is set again for each block.
EncryptAnew ==
  /\ pc = "move" /\ req.write /\ k < nbytes
  /\ schedule' = SetKey(cryptoKey, keyLength)
  /\ data' = [data EXCEPT ![Place(k)] = Stored(schedule', buffer[req][at + k + 1])]
  /\ k' = k + 1
  /\ UNCHANGED <<params, queue, req, segs, at, pc, buffer, ended>>

\* Beyond Device.data lies memory of others, or none: then the kernel oopses.
Oops == Place(k) \notin Units /\ pc' = "oops" /\ UNCHANGED <<data, buffer, k>>

EncryptOne ==
  /\ pc = "move" /\ req.write /\ k < nbytes
  /\ \/ LET value == IF InSegment THEN buffer[req][at + k + 1] ELSE Garbage
        IN  /\ data' = IF Place(k) \in Units THEN [data EXCEPT ![Place(k)] = Stored(schedule, value)]
                       ELSE data
            /\ k' = k + 1
            /\ UNCHANGED <<pc, buffer>>
     \/ Oops
  /\ UNCHANGED <<params, schedule, queue, req, segs, at, ended>>

DecryptOne ==
  /\ pc = "move" /\ ~req.write /\ k < nbytes
  /\ \/ LET value == IF Place(k) \in Units THEN Loaded(schedule, data[Place(k)]) ELSE Garbage
        IN  /\ buffer' = IF InSegment THEN [buffer EXCEPT ![req][at + k + 1] = value] ELSE buffer
            /\ k' = k + 1
            /\ UNCHANGED <<pc, data>>
     \/ Oops
  /\ UNCHANGED <<params, schedule, queue, req, segs, at, ended>>

Transferred ==
  /\ pc = "move"
  /\ k >= nbytes
  /\ pc' = "end"
  /\ UNCHANGED <<params, schedule, data, queue, req, segs, at, k, buffer, ended>>

\* Slip: no new request is fetched after the last segment.
EndAndGoOn ==
  /\ pc = "end"
  /\ k' = 0
  /\ pc' = "request"
  /\ IF Len(segs) > 1
     THEN segs' = Tail(segs) /\ at' = at + Head(segs) /\ UNCHANGED ended
     ELSE ended' = [ended EXCEPT ![req] = MaxEnded] /\ UNCHANGED <<segs, at>>
  /\ UNCHANGED <<params, schedule, data, queue, req, buffer>>

\* __blk_end_request_cur(req, 0): the segment is done, and the request with its
\* last one.  sbd_request then fetches the next request, if there is one.
EndCur ==
  /\ pc = "end"
  /\ k' = 0
  /\ IF Len(segs) > 1
     THEN /\ segs' = Tail(segs) /\ at' = at + Head(segs)
          /\ pc' = "request"
          /\ UNCHANGED <<req, ended>>
     ELSE /\ ended' = [ended EXCEPT ![req] = @ + 1]
          /\ req' = None /\ segs' = <<>> /\ at' = 0
          /\ pc' = "idle"
  /\ UNCHANGED <<params, schedule, data, queue, buffer>>

sbd_request ==
  \/ Fetch \/ SkipOther \/ sbd_transfer \/ EncryptOne \/ DecryptOne
  \/ Transferred \/ EndCur

Next == (\E r \in Requests : Submit(r)) \/ WriteParameters \/ sbd_request

Spec == Init /\ [][Next]_vars

\* The block layer calls sbd_request while requests wait, and it runs.
FairSpec == Spec /\ WF_vars(sbd_request)

--------------------------------------------------------------------------------
TypeOK ==
  /\ encrypts \in BOOLEAN /\ cipher \in BOOLEAN
  /\ \A u \in Units : data[u].value \in Values \cup {Garbage}
  /\ queue \subseteq Requests /\ req \in (Requests \ queue) \cup {None}
  /\ segs \in Seq(Nat \ {0}) /\ at \in Nat /\ k \in Nat
  /\ pc \in {"idle", "request", "move", "end", "oops"}
  /\ pc = "idle" <=> req = None
  /\ \A r \in Requests : Len(buffer[r]) = Len(r.data)
  /\ ended \in [Requests -> 0 .. MaxEnded]

\* The bytes moved are in Device.data, although the size of the device was
\* computed in an int and may be less than the capacity told to the block layer:
\* unless the end of the transfer is more than an unsigned long counts to.
InsideDevice ==
  pc = "move" /\ k < nbytes /\ (req.sector + at + Head(segs)) * BlockSectors < LongSectors =>
    Place(k) \in Units

\* A change of the parameters in the middle of a transfer has no effect on it:
\* what is stored of one segment is stored under one key.
OneKeyPerSegment ==
  pc = "move" /\ req.write =>
    \A j \in 0 .. k - 1 : Place(j) \in Units => data[Place(j)].key = schedule

\* The driver behaves as a disk: a request reads in every sector what was last
\* written to it, across requests of other extents and segments, and is ended
\* when all its sectors have been moved, even when keyLength is set to a length
\* that the cipher refuses.  (Setting it back may change the key: a cipher that
\* was used before it ever took a key wrote with none.)
R == INSTANCE RamDisk WITH
       Unwritten <- Garbage,
       disk <- [s \in 0 .. NSectors - 1 |->
                  IF s * BlockSectors \in Units THEN data[s * BlockSectors].value ELSE Garbage],
       waiting <- {r \in Requests : ended[r] = 0},
       moved <- [r \in Requests |-> IF r = req THEN at + k ELSE 0],
       memory <- buffer
ImplementsRamDisk == R!Spec

\* The loop of sbd_request ends every request of the file system that it has
\* fetched, if the driver has got its cipher.  (From another kind of request it
\* never gets away.)
EveryFetchedEnds == \A r \in Requests : req = r /\ r.fs /\ (encrypts => cipher) ~> req # r

\* What a comment says: the parameters are the key that the cipher works with.
WorksWithTheKey == encrypts /\ pc = "move" => schedule = <<cryptoKey, keyLength>>

\* What the test of the end is for: no transfer leaves the device.
NeverOutside == pc = "move" /\ k < nbytes => Place(k) \in Units

\* What a comment says: the kernel's sectors are small; no transfer reads or
\* writes beyond the memory of the segment.
InsideBuffer == pc = "move" /\ k < nbytes => InSegment

\* What a message says: a request that is not of the file system is skipped.
EndedOnce == \A r \in Requests : ended[r] <= 1

\* What a comment says: reading turns what is encrypted into what it was before.
ReadsDecrypted ==
  pc = "move" /\ ~req.write =>
    \A j \in 0 .. k - 1 : buffer[req][at + j + 1] = data[Place(j)].value

\* What a comment says: the drive has nsectors sectors; a request within them
\* that is ended without error has been transferred.
DoneIsDone == pc = "end" => k = nbytes
================================================================================
