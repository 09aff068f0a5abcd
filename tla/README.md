# Verification of linux-exploration-2

This directory models the programs of this repository in TLA+, checks the
models with TLC on small instances, and proves what matters most about them
with TLAPS for every size. The repository is course work on operating systems:
independent programs, each small, each about something that is hard to test -
threads, kernel callbacks under locks, an allocator, an elevator, a block
driver.

## The system

The C files are the system; the rest of the repository (LaTeX write-ups, their
logs and classes, Kconfig and Makefiles, screen recordings' scripts) documents
or configures it. Nothing is shared between the programs, except that the kernel
parts (elevator, SLOB, block driver) are plugged into the same kernel.

| component | source | state it keeps | operations | hard behaviour |
|---|---|---|---|---|
| dining philosophers | `Project2/tarball/diningPhilosophers.c` | `forks[5]`, `forkLocks[5]` | `get_forks`, `put_forks`, think, eat | five threads, flags under per-fork mutexes, two mutexes at once in `put_forks`, give-up and retry |
| C-LOOK elevator | `Project2/restOfFiles/sstf-iosched.c` | a sorted list per queue, one global `diskhead` | add, dispatch, merge, former, init, exit | insertion against a moving head, several disks, sector against int, drain before exit |
| best-fit SLOB | `Project4/A4NewFiles/slob.c` | three page lists, a free list inside each page, page counters | `slob_alloc`, `slob_free`, kmalloc and cache front ends, two system calls | lists threaded through the memory they describe, the lock dropped between search and growth, counters outside the lock, RCU |
| first-fit SLOB | `Project4/A4OldFiles/slob.c` | as above, counters included | as above | rotation of the list during the search |
| producer and consumer | `Project1/Concurrency1/concurrency1.c` (and its copy in `tarball`) | `threadBuf`: 32 pointers, a mutex, a condition variable | main's loop, `produceAnItem`, `consumeAnItem`, number generators | one condition variable for two conditions, wake-ups nobody signalled, threads nobody joins, ranges of random numbers |
| search-insert-delete | `Concurrency3/concurrency3.c` | a linked list, two semaphores | search, add to end, delete | readers against a writer that links a node before it is complete |
| three-process resource | `Concurrency4/Concurrency4a.c`; `Concurrency4a.c` also catches SIGINT | a semaphore, and a plain counter beside it | come, be turned back, use, leave | the counter outside the semaphore: tested before it, changed after it, updates lost; batches that must drain |
| barber shop, condition variables | `Concurrency4/Concurrency4b.c` | `curr`, `sleeping`, a mutex, two condition variables | customers arrive, sit or leave; the barber sleeps, cuts, calls | lost wake-ups, a test made twice with a path without unlock, a count changed with and without the mutex |
| barber shop, line of chairs | `Concurrency4b.c` | a line of chairs on the stacks of its customers, their number, two mutexes | `line_push`, `line_pop`, barber, signal handler | pointers to frames that are gone, the line changed under different mutexes |
| smokers | `Concurrency5/Concurrency5.c` | a table, its semaphore | agent, three smokers | a second post, so that more and more threads share the table |
| encrypting block driver | `Project3/Assignment3NewFiles/sbd.c`, the version before encryption in `Assignment3OldFiles`, a draft in `testA3` | a disk image, a cipher, module parameters, what init has acquired | transfer, request loop, init, exit | key changed between write and read, a loop that skips, a size that wraps, error paths of init, removal against requests |
| Mersenne Twister | `Project1/*/mt19937ar.c` | - | - | third-party |
| test drivers | `Project2/A2TestScript.c`, `Project4/A4Test/*.c` | - | - | call the above, keep nothing |

What makes each of them correct, in short:

* dining philosophers: neighbours never eat together; a flag and its owner
  agree; no deadlock; every call of `get_forks` returns.
* elevator: the head never passes over a waiting request; nothing waits for
  ever; the list is empty at exit.
* SLOB: live objects never overlap and are never on a free list; free units and
  live units account for a page; a page is on a list exactly while it has free
  units; the allocator asks for a new page only if no page has room; the
  counters the system calls report tell the truth.
* producer and consumer: an index is found whenever one is looked for, no
  pointer outlives its item, items are handed over one at a time, main gets
  through all its loops, values are in the ranges the comments state.
* search-insert-delete: searches run together, insertion beside searches,
  deletion alone; the list stays well formed.
* three-process resource: who is turned back waits for all to leave, and gets
  his turn.
* barber shops: the barber comes to those who wait; the count of customers stays
  within the chairs; no pointer to a chair of a customer who has left is followed.
* smokers: what the agent puts down is taken in the end, and by the smoker who
  has neither item.
* block driver: what is written is read back, within the device and under one
  key; a fetched request ends; a request finds what it uses; what init acquires
  is released, by exit or when a step fails.

## The modules

A component has its module, an `MC...` module with the values of the constants
that TLC needs, a `.cfg` for each run, and, where something is proved, a
`...Proofs` module. Definitions have the names of the functions they model.
Some definitions are named and commented as slips: a statement of the code as a
plausible bug would have it. Nothing of the model uses them; put in place of the
right definition, each makes a property fail, which shows what the property is
worth.

| module | what it models |
|---|---|
| `DiningPhilosophers` | one thread per philosopher; a label of `pc` is the next statement, so that each mutex operation and each access to a flag is a step: `LockLeft` ... `UnlockRight` are `get_forks`, `Put...` is `put_forks`, `GiveUp...` the branch in which the right fork is taken |
| `DiningTable` | abstract: the mutexes hidden, both forks returned in one step |
| `Clook` | one action per elevator callback. The block layer holds a queue's lock around a callback, so it is one step. `diskhead` is shared by all queues; `served[q]`, where the head of a queue's own disk is, and `astray[q]`, whether anything has happened since the queue was empty that its insertion does not reckon with, are history variables for the properties. `ToInt` and `ToSector` are the conversions between `int` and `sector_t`. Draining before `sstf_exit_queue` is what the block layer does |
| `SlobPage` | one page as memory: `set_slob`, `slob_units`, `slob_next` on s16 cells, the search for a block with alignment, the cut in up to three parts, both branches of the free with their joins. The walk along the list is a recursive function |
| `Slob` | pages, the three lists, callers, threads. What runs under `slob_lock` is one step; between two such steps a thread is in `grow` (it asks for a page), `install` (it has one and takes the lock again) or `release` (it gives one back). kmalloc writes a header in front of an object, the RCU caches a footer behind it, and freeing reads the size from there |
| `SlobArena` | the allocator without the memory that holds its lists: a page is the set of its free units, listed or not. The steps and threads are those of `Slob`; what a page search chooses is left open |
| `Heap` | abstract: objects of callers, which never share a unit |
| `SlobCounters` | extends `Slob` with `availUnits` and `pageCount`, whose updates lie outside the lock: reading and writing `pageCount` are two steps |
| `SearchInsertDelete` | each semaphore, mutex and list operation of the three kinds of threads is a step; freed memory can be allocated again, with the link it had or with what `Garbage` says malloc may leave in the field `next`. An inserter links its node before it sets the node's own link: until then what is there is not a link of the list (`Links`), but a searcher may follow it, to a freed node, back into the list or to nothing. `strayed` is the history of the searchers that have |
| `ProducerConsumer` | main, the threads of all rounds, the buffer. A step is a pthread call or one critical access; `SpuriousWakeup` is pthread's right to wake unasked |
| `Handoff` | abstract: one item at a time, in order |
| `RandomRange` | operators, no state: the arithmetic of the number generators, with C's truncating remainder and `abs` of the least int, for the three callers and their ranges |
| `ProducerNumbers` | extends `ProducerConsumer` with what a producer draws for its waiting time and its item, kept until the item is freed |
| `Sbd` | the request loop and the transfer, one sector a step, the position in the request, parameters that are written meanwhile. A stored sector is the key and the value; a wrong key decrypts to garbage. `encrypts` is the version: the older driver copies. `offset`, `nbytes`, their sum and the address of a block are unsigned longs (`Long`), which wrap at `LongSectors`: 32 bits on the repository's virtual machine (`CS444_Writeup4.tex:121`). A place beyond `Device.data` is memory of others, or none: there the kernel may oops (`Oops`) or go on. So it does without a cipher, whose allocation nobody looks at (`cipher`) |
| `SbdLifecycle` | extends `Sbd` with `sbd_init`, each step of which may fail, and `sbd_exit`, which oopses if there is no cipher to free; `held` is what has been acquired. The kernel's part is `Open`, `Close` and that the module is not removed while the device is open (`sbd_ops.owner`) |
| `RamDisk` | abstract: a disk without encryption or segments |
| `ResourceThree` | every access to the counter and every semaphore call is a step; `lost` says whether an update of the counter has overwritten another |
| `Smokers` | the semaphore calls and every access to the table; `overtaken` says of a smoker whether others have written to the table that he is looking at |
| `SleepingBarber` | the customers' statements under the mutex, the barber's without, signals and wakes; `raced` says whether anybody has acted on what was no longer true |
| `BarberLine` | the other program for the same exercise: the line, its number, both mutexes. A chair is the frame of its customer's `line_push`, alive while he is in it |

`Slob` uses `SlobPage` by EXTENDS and `SlobCounters` uses `Slob`, whose actions
it conjoins with what happens to the counters; `ProducerNumbers` does the same to
`ProducerConsumer`, and `SbdLifecycle` composes `Sbd` with the module's loading
and removal. `MCBarberShops` runs either of the two barber programs. The
refinements are `DiningPhilosophers` to `DiningTable`, `Slob` to `SlobArena` and
that to `Heap`, `ProducerConsumer` to `Handoff`, `Sbd` to `RamDisk`, each through
an INSTANCE with a refinement mapping.

`ResourceThree`, `Smokers`, `SleepingBarber` and `Clook` have a history variable each
(`lost`, `overtaken`, `raced`, `astray`). The first three programs race, and what
goes wrong after a race is known; in the elevator it is known what puts a queue out
of order. The properties say that nothing else goes wrong: they hold up to the
events that the history variable names, one by one. `strayed` of
`SearchInsertDelete` names single searchers: what the properties say of the list,
of all other threads and of all other searches holds whatever those do.

## The runs

| run | instance | shows |
|---|---|---|
| `dining` | four philosophers, fair | neighbours apart, chains of waiting threads stay short, no deadlock, refinement of the table; `get_forks` always returns, with the forks or without |
| `clook` | two disks of four sectors that share `diskhead`, one sector beyond int, three and one waiting requests, merges, fair | a queue that has not gone astray is in the order the head comes to it, the head moves to its nearest request ahead, nothing in it waits for ever |
| `slob_first` | first fit, two threads, two pages of five units | free lists exact, pages on the right lists and none leaked, no `BUG_ON`, refinement of `SlobArena`, no needless growth |
| `slob_best` | best fit with the counters, one thread, two pages of five units | the smallest page serves, sizes are read back as written, `sys_slob_used` is right whenever no call is under way |
| `sid_two` | two threads of each kind, four nodes, wild and stale links in what malloc gives | a deleter is alone, one searcher and one inserter at a time; no broken list, and, but for searchers that follow a link before it is set, no dangling pointer and no value missed; nodes leak only with the head |
| `sid_live` | the same on two nodes, fair | everyone gets in, unless a searcher follows such a link |
| `pc_loops` | four loops, three slots, 32-bit ints, fair | the buffer as a hand-over, main ends; only the least int leaves the range of a random number |
| `sbd_disk` | both versions, three sectors, overlapping requests of one and several segments, one that is not of the file system, key length set to one AES refuses, with a cipher or without, fair | the driver is a disk; with its cipher it ends what it fetches of the file system's requests |
| `sbd_life` | both versions, a size that wrapped, a request whose end wraps, two keys, requests of both kinds, every step of `sbd_init` failing | requests find all that `sbd_request` uses, or, without a cipher, are not transferred; what is acquired is released but for the cipher and the queue on the error paths; accesses stay in the device unless the end wraps, one key per segment |
| `resource` | four threads, two places, SIGINT, fair | who is turned back waits for all who are counted; everyone is done, unless an update is lost |
| `smokers` | the four threads, a semaphore limit of two, fair | the right smoker takes the items unless others write to the table meanwhile; what is on the table is taken |
| `barbers` | either shop, four customers, three chairs, fair in the first | counts within the chairs, the barber comes unless a wake-up is lost to a race, no dead chair is followed |

### Settings to try

The models also hold what these programs do against their comments, reports and
messages; the properties quote or paraphrase those. No run is kept for them: each
takes a `.cfg` above, changes one or two constants and names one property,
which TLC then finds violated.

| start from | change | property | the code |
|---|---|---|---|
| `dining` | `N = 3` | `EveryoneEats` | giving up in step can repeat for ever |
| `clook` | `Queues <- OneQueue`, `IntSpan <- WideInt`, `Merging = FALSE` | `NeverPassesOver` | a request at the head's own sector goes to the end |
| `clook` | - | `NeverPassesOver` | a merged request is dispatched out of turn |
| `clook` | `IntSpan <- WideInt` | `NobodyStarves` | two disks share `diskhead`, so that each disk's order is measured from the other's head, and a request may wait for ever |
| `clook` | `Queues <- OneQueue` | `NobodyStarves` | so may one behind a sector that does not fit an int |
| `slob_first` | `BestFit = TRUE`, `PageUnits = 6` | `NoNeedlessGrowth` | the best-fit search tries one page only |
| `slob_best` | - | `UnitsCounted` | `availUnits` is out of date between calls |
| `slob_best` | - | `SearchCountsUnits` | a stray semicolon drops the large list from the sum |
| `slob_best` | `Threads <- TwoThreads`, `PageUnits = 3` | `PagesCounted` | an update of `pageCount` is lost between two threads |
| `slob_best` | the same | `SearchCountsUnits` | the searches of two threads add up |
| `sid_two` | - | `OneItemAtATime` | deleting index 0 drops the whole list (`concurrency3.c:159`) |
| `sid_two` | - | `SearchersRunTogether` | the semaphore admits one searcher |
| `sid_two` | - | `NobodyStrays` | a node is linked before its `next` is set, and a search beside the insertion follows it (`concurrency3.c:39`) |
| `sbd_disk` | `Key = "group1004"`, `KeyLen = 9` | `WorksWithTheKey` | the default key has a length AES refuses |
| `sbd_disk` | `BlockSectors = 2`, `Requests <- LargeRequests` | `InsideBuffer` | sectors scaled by the logical block size |
| `sbd_disk` | `NewKeys = {"l"}` | `ReadsDecrypted` | the key changes between write and read |
| `sbd_life` | - | `EndedOnce` | `continue` without fetching: a request not of the file system is ended again and again, and nothing else is served |
| `sbd_life` | - | `DoneIsDone` | a request beyond the wrapped size is ended as done |
| `sbd_life` | - | `NothingIsLeft` | the error paths leave the cipher and the queue |
| `sbd_life` | - | `RequestsHaveCipher` | the result of `crypto_alloc_cipher` is not looked at (`sbd.c:226`) |
| `sbd_life` | - | `NeverOutside` | `offset + nbytes` wraps to a number below the size, and the test of `sbd.c:97` lets the transfer through; not so with `LongSectors = 16`, more than the capacity |
| `sbd_life` | `RequestedMajor = TRUE` | `LittleIsLeft` | a major number that was asked for is never unregistered: `register_blkdev` returned 0 for it |
| `resource` | `Places = 3` | `AtMostTwoInside` | comment a) says two, the code has three places |
| `resource` | - | `AllStopBeforeAnyStarts` | a thread that passed the test before the places were full walks in when one is free |
| `resource` | - | `NobodyStranded` | after a lost update the count never comes back, and who was turned back stays out |
| `smokers` | - | `OneAtTheTable` | the second post admits two, then more |
| `smokers` | - | `PicksUpTheOthers` | and so a smoker may pick up his own ingredient |
| `barbers` | - | `NobodyKeepsTheMutex` | a customer refused by both tests goes without unlocking |
| `barbers` | - | `SleepsOnlyIfEmpty` | a customer comes in between the barber's look and his sleep, and wakes nobody |
| `barbers` | - | `NoMoreThanTheChairs` | all customers may wait at once: the barber counts one off before he calls him, and updates of `curr` are lost |
| `barbers` | - | `NumberIsOfCustomers` | who found no room in `line_push` is taken off the number all the same |
| `barbers` | - | `NeverFaults` | after the first pop `current` is NULL, and the next push follows it |

### Bounds

* Philosophers: four of the source's five keep the run short. Each has two
  different neighbours and one thread it shares no fork with; the proof covers
  any number from two.
* Elevator: two requests in the list give the insertion an entry in front, one
  behind, and both sides of the wrap; the second disk needs one request to move the
  head. The proof covers any disks and any length. Spans of `int` and `sector_t` are
  small numbers with the same order relations as 2^32 and 2^64: with `NarrowInt` the
  last of the four sectors is beyond the largest int.
* SLOB: in five units an object with header (three units), an object with an
  RCU footer and single units occur together, with blocks to the left and the
  right of a freed one, alignment gaps, and cuts in three; with two pages a page
  is filled, left, emptied, returned and taken again. Two threads meet at each
  place where the lock is dropped; three units are enough for two of them to
  take or return pages at the same time. A request that finds all pages taken
  fails, as when the kernel is out of memory.
* Search-insert-delete: two threads of a kind contend for that kind's
  exclusion; four nodes let an item be deleted between two others while a fourth
  is added. `Garbage` in the runs is a wild pointer; NULL and links into the list
  come as the old links of freed nodes, and the proof covers any contents.
* Producer and consumer: producers of a round can be left over in the next, not
  longer; four loops of that are more than enough, and the proof covers any
  number of loops and slots. The draws are around the lengths of the ranges,
  and the least 32-bit int, whose absolute value is none; the proof covers every
  draw.
* Block driver: three sectors let extents overlap in part; `MaxEnded` = 2 tells
  "ended again" from "ended once". In `sbd_life` eleven sectors of an int that
  holds eight give a device of three, so that the wrapped size and a capacity
  beyond it meet small requests; an unsigned long of the same width wraps there,
  too, so that the request for the two sectors on either side of the wrap ends
  within the three. In `sbd_disk` nothing wraps. The proofs cover any `LongSectors`
  from `IntSectors` on, 64 bits included.
* Three-process resource: two places for four threads instead of three for six:
  two threads lose an update while others are turned back.
* Smokers: a semaphore holds at most two (`SEM_VALUE_MAX`, 2^31 - 1 in the C
  library). Two picks reach the limit, where a post is refused; below it, two
  threads are at the table together, which is all that goes wrong.
* Barber shops: three chairs, of which two customers can compete for the last one
  while a third sits, and four customers, one more than the chairs. `LeastCurr`
  = -2: once below zero the first barber cuts for ever, and only that matters.

### Fairness

* Threads: weak fairness on what a thread does next (a thread that can run is
  run); strong fairness on mutex and semaphore acquisition. pthread mutexes and
  semaphores are not queues: that a waiter gets a lock which is freed again and
  again is an assumption, and liveness rests on it.
* Smokers: strong fairness of `sem_wait`: as the semaphore is posted again and
  again, everyone gets to the table. Who is at the table goes on.
* Resource and barber shop with condition variables: weak fairness of each
  thread. A thread that polls looks again after each sleep, and sees the counter
  when it stays at its value.
* Elevator: weak fairness of `sstf_dispatch`: the driver asks as long as there
  are requests. None on adding.
* Block driver: weak fairness of `sbd_request`, the code that the block layer
  runs while requests wait. Which request is fetched is not fair: the property
  promises an end only to a request of the file system that was fetched, by a driver
  that has its cipher.
* No fairness on spurious wake-ups, on writes of parameters, or on arrivals.

The SLOB runs, the barber shop with the line and the driver's life from init to
exit state safety only: a SLOB call ends unless the lock is not given to it.
Deadlock is checked in every run; where a program ends (`Exited` in
`ProducerConsumer`, `Gone` in `SbdLifecycle`, `Main` where main loops for ever)
the end is a stuttering step.

## What is proved

The theorems hold for every value of the constants that the named ASSUMEs admit.
Each is the invariance argument: the initial states satisfy the strengthened
invariant, each action preserves it, it implies the property.

* **Dining philosophers**, any N >= 2. `FlagsAgreeWithOwners` is not inductive: a
  thread between the test of a flag and the write to it relies on the mutex.
  `IInv` adds `MutexesHeld` (a mutex is owned exactly by the thread whose next
  statement says so) and `ChecksHold` (a tested flag is still up). From it
  follow `NeighboursApart`, `PutForksApart`, `NoWaitCycle` and `Refinement`; a
  fork's owner is read off the labels. `put_forks` locks in cyclic order, which
  is harmless only since neighbours are never both there before the flags are up.
* **Elevator**, any disks, any sectors, any width of int, any number of requests,
  merges included. `TypeCorrect` and `NoBugHolds`; `OrderHolds` and
  `PassesOverNothing` for each queue that has not gone astray. There are three ways
  to go astray and the theorems say that there is no fourth: another disk's dispatch
  moves `diskhead`, a request at the head's own sector comes in behind others, or a
  sector is dispatched that an int does not hold. When a queue is empty it is in
  order again. The invariant is that the list is sorted by distance ahead of the
  head; insertion keeps it by the place where the walk stops, dispatch because only the
  first is taken, a merge because taking an entry out leaves the rest sorted.
* **SLOB page**, pages of any size (`SlobProofs`, first part). A page is `Exact` if
  the walk along its links visits blocks in ascending order that do not overlap or
  touch, and `sp->units` is what they add up to. `Allocates`: `slob_page_alloc`
  keeps a page exact and takes a run of units that were free, at the aligned place,
  whichever of its three cuts it makes. `FreesIntoPartial`: so does freeing into a
  partly free page, for a block ahead of all others or between two, joined to the
  left, to the right, to both or to neither; `SetSlobRoundTrip` and
  `SetSlobStaysInside` are what both rest on. The walk is a recursive
  function. That it exists is proved by giving it (the least set that holds the
  first block and with each the next), and what it visits by looking at the last
  block at which it would go wrong, so that no induction theorem is needed.
* **SLOB allocator**, any pages, units, threads, sizes, alignments and caches. It
  goes in two layers.
  - `SlobArenaProofs`, pages as sets of units. What the runs check - free units are
    those no object has, lists hold the partly free pages, no page leaks - is not
    inductive: freeing a block gives back exactly what one object had only if no
    two share a unit (`NeverShared`), a page that goes back when its last object is
    freed must not be in another thread's hands (`FlightsApart`), and an object that
    came from the page allocator must be alone in its page (`WholeAlone`). With these
    each action preserves the invariant, and every step gives out an object apart
    from all held, takes one back, or is not seen by callers (`ArenaIsHeap`).
  - `SlobProofs`, pages as memory. Its invariant `SlobInv` has the one of
    `SlobArena` under the mapping of `ImplementsArena`, every page exact but those in
    a thread's hands (`PagesExact`), every page in one list and once (`ListsOnce`),
    and `SizesIntact`: `kfree` trusts the size it reads in front of the object, and
    what is read is what was written only as long as nothing else writes there,
    that is, as long as objects and free blocks are apart - which is in turn what
    freeing the right size preserves, so that neither can be proved without the
    other. `AsRequested` and `OnePerPlace` identify an object by the pointer that is
    freed, `WaitingOnce` does it for those that wait for RCU.
  - From it follow `FreeListExact`, `PagesInPlace`, `NoBug`, `SizesIntact`, that
    `slob.c` implements `SlobArena` (`MemoryIsArena`) and so a heap
    (`CallersSeeAHeap`); with first fit `NoNeedlessGrowth`, with best fit
    `SmallestPageServes`. The invariant of the counters with one thread
    (`OneThreadCountsPages`) says how far they are behind at each of its steps;
    with two threads an update is lost, see the settings to try.
* **Block driver**, any device, requests, keys, widths of int and long, and both
  versions (`SbdProofs`). `StaysInside` and `OneKeyHolds`: the invariant remembers
  what `sbd_transfer` tested (`Fits`) and that the older version has no key. The
  first is of each transfer whose end an unsigned long holds; and if it holds the
  whole capacity, and segments are the data of their requests, of every transfer
  (`Position` says where in its request a transfer is). The second holds although
  places wrap, since two blocks of one segment never have the same place
  (`PlacesDiffer`). Both hold from `sbd_init` to `sbd_exit` since that adds no step
  to the requests (`LifeAddsNothing`). `NothingIsMissing`, whatever
  `crypto_alloc_cipher` returns: at each stage of `sbd_init` at least what came
  before is held, the device is open only between init and exit, requests are
  there only while it is open, and without a cipher none of them is moved.
  `LittleLeft`, if the kernel chooses the major number: at each stage of either at
  most so much is held. `DriverIsDisk`, if byte counts fit an int and blocks are
  sectors (`SectorBlocks`), what is written to the parameters sets no second key
  (`KeyStays`), and the segments of a request are its data (`Segmented`, which the
  block layer sees to): each step of the driver is a step of `RamDisk` or none, and
  so (`LifeAddsNothing`) for the driver from init to exit. The invariant is that
  every sector is under the key in force, and that a request is at a segment's
  beginning, or within one; no sum wraps then (`TransferFits`). The first two
  conditions are what the settings to try drop.
* **Search-insert-delete**, any sets of threads and nodes, and whatever malloc leaves
  in a node: any pointer, the stale link of a freed node included. `LocksHold` (a
  semaphore is 0 exactly while one thread is between its wait and its post, a mutex
  names the one between lock and unlock) and, from it, `ExclusionHolds`.
  `MemoryHolds` adds the list: one first node, one last, each of the others behind
  one (`Chain`); what a searcher, an inserter and a deleter have in hand at each
  label; and that all of it is allocated, but while a deleter is between `free` and
  relinking. The chain is one of `Links`, in which a node that is linked and not yet
  terminated is the last: a searcher that follows what malloc left there has
  strayed, and nothing is known of its pointer until it is done. Inserters and
  deleters never do, since the semaphore and the mutex keep them from an unfinished
  insertion; so `NothingDangles` is of all threads but the searchers that have
  strayed, `ListIsWhole` and `OnlyTheFreedLeave` (nodes leave the list only by being
  freed or with the head) of the list whoever strays, and `NothingIsMissed` of every
  search that has not. `NoDeadlock`: of each taken semaphore or
  mutex some thread is the holder, and of four threads each of which waits for the
  next the last one is not waiting - a deleter for another that waits for an
  inserter that waits for the mutex is the longest there is. The locks are
  taken in one order, the searchers' semaphore, the inserters', a mutex, and the
  inserter who still owns a mutex when it has posted takes nothing until it unlocks:
  neither is stated in the source.
* **Programs with races** (`RaceProofs`), any number of threads and places. The
  invariants say what a thread knows from its last look, as long as the history
  variable says that nobody has acted on it since.
  Barber shop with condition variables: `curr` is one above the chairs only while a
  customer sees that and takes it back, and below zero only after a race
  (`CurrStaysInRange`). Line of chairs: each customer counts the number up or down at
  most once (`NumberStaysInRange`), and of the chairs that the line holds pointers to
  only the one in main is ever followed: the first pop ends the line
  (`NoDeadChairFollowed`).
  Smokers, any limit of a semaphore: what a smoker has seen on the table is still
  there (`RightOneTakes`); the number of threads that may be at the table grows by the
  post of a smoker who picks up, and by nothing else (`OnlyPicksAdmit`); somebody is at
  the table or is admitted to it (`NoDeadlock`).
  Resource: semaphore and threads inside make up the places (`SemaphoreCounts`), and so
  do the counter and the threads counted until an update is lost (`CounterCounts`), so
  that a test that lets someone through says that all who were counted have left
  (`TurnedBackWait`). Whatever is lost, counter, what is read of it, and the threads
  that have ever taken a place add up to the places at least, so that nobody is turned
  back before as many have come in (`FirstOnesDoGetIn`): a lost update may add
  places or keep late comers out, but not the first ones.
* **Producer and consumer**, any number of loops and slots. The invariant says
  that there is at most one item, that of the round under way, in slot 0; that
  the mutex is owned by the thread whose label says so; and that threads of
  earlier rounds are done. A consumer is joined, and it eats only what the
  round's producer has put there, so the producer, though never joined, is past
  all it does to the buffer; it has unlocked too, since the consumer needed the
  mutex after it. From it follow `IndexAlwaysFound`, `NoneDangles`,
  `RoundsAlwaysEndClean` and `Refinement`. `NoDeadlock` adds that a consumer tests
  and begins to wait in one hold of the mutex, so that its producer is still to come
  and to signal: one condition variable for two conditions loses no wake-up here,
  since only one of the two is ever waited for.
* **Random numbers**, ints of any width, any draws, any number of loops: a number
  leaves its range only if the draw was the least int. `NumbersOnlyAdd` says that
  `ProducerNumbers` takes nothing from `ProducerConsumer`.

### What is only model-checked

Every safety property of the runs, every action property and every refinement is
a theorem. What stays with TLC:

* Liveness, as ENABLED and fairness are out of the prover's reach:
  `GetForksReturns`, `WaitingIsServed`, `EveryoneGetsIn`, `EveryLoopEnds`,
  `EveryFetchedEnds`, `EveryoneIsDone`, `AllTakenInTheEnd`, `BarberComes`. Freedom
  from deadlock is proved where it can be said of a state, who waits for whom
  (`NoWaitCycle` and the three `NoDeadlock`); each run checks it with ENABLED.
* That the values in the `.cfg` files meet the hypotheses of the theorems, where the
  modules' own ASSUMEs do not say it (`SectorBlocks`, `KeyStays`, `Segmented`).

## What is not modelled

* SLOB: NUMA nodes, pages of an order above zero (the page allocator's business;
  `slob.c` keeps nothing of them), `ksize`, constructors, kmemleak and tracing.
* Elevator: an allocation that fails leaves no trace, and is a stuttering step.
  `sstf_latter_request` changes nothing and no property depends on it.
* `concurrency3.c`: `addToStart`, `addAfterLocation`, `insert`,
  `deleteFromList` and `printList`, which nobody calls.
* `concurrency1.c`: an argument of zero or less, with which the program returns
  at once; failing `pthread_create`.
* `sbd.c`: `sbd_getgeo`, which keeps nothing, the block layer and AES themselves.
  A request that was ended keeps its memory and its fields as long as the loop
  works on it. `testA3/sbd.c` differs from the last version in the names of two
  local pointers and in what it prints.
* `Concurrency4b.c` in `Concurrency4`: the array of threads is indexed one too
  far; the write is taken to hit nothing that is used.
* Random waiting times anywhere: a sleep ends at any time.
* The Mersenne Twister is third-party: any int may come from it. Test drivers,
  reports and configuration keep no state.

## Plan

All programs that keep state are modelled, but for what is listed above, and the
safety properties that the runs check are proved. What is left:

1. The barber shop with condition variables ends in a deadlock when a wake-up is lost;
   which races lose one, as a state predicate, so that `BarberComes` has a safety part
   that can be proved.
2. The allocator under two threads: how far `pageCount` may be off, by the number of
   updates lost, as `CurrStaysInRange` has it for the barber shop.
3. The lemmas of `slob_free` in `SlobProofs`, one per way of joining, repeat each other in
   part and could share steps.
