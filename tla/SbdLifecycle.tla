------------------------------ MODULE SbdLifecycle -----------------------------
(***************************************************************************)
(* sbd_init and sbd_exit of both versions of the driver around the         *)
(* requests of Sbd: what the driver acquires step by step, any of which    *)
(* may fail, and releases at the end.  The kernel, which is not part of    *)
(* the program, counts the users of the module by sbd_ops.owner: it calls  *)
(* sbd_exit when the device is not open, and nobody can open it then.      *)
(***************************************************************************)
EXTENDS Sbd

CONSTANT
  RequestedMajor  \* whether the parameter major_num is set when the module is loaded

ASSUME MajorAssumption == RequestedMajor \in BOOLEAN

VARIABLES
  stage,   \* the next statement of sbd_init or sbd_exit, or "live" between them
  held,    \* what has been acquired and not released
  opened   \* whether the device is open

life == <<stage, held, opened>>
allVars == <<vars, life>>

LInit ==
  /\ Init
  /\ stage = IF encrypts THEN "cipher" ELSE "data"
  /\ held = {}
  /\ opened = FALSE

--------------------------------------------------------------------------------
Acquire(this, resource, following) ==
  /\ stage = this
  /\ held' = held \cup {resource}
  /\ stage' = following
  /\ UNCHANGED <<vars, opened>>

\* A statement fails, or does nothing but lead to another.
Goto(this, following) ==
  /\ stage = this
  /\ stage' = following
  /\ UNCHANGED <<vars, held, opened>>

Release(this, resource, following) ==
  /\ stage = this
  /\ held' = held \ {resource}
  /\ stage' = following
  /\ UNCHANGED <<vars, opened>>

\* Its result, which Init chooses, is not looked at.
AllocCipher == IF cipher THEN Acquire("cipher", "cipher", "data") ELSE Goto("cipher", "data")

AllocData == Acquire("data", "data", "queue") \/ Goto("data", "failed")

InitQueue == Acquire("queue", "queue", "register") \/ Goto("queue", "out")

Register == Acquire("register", "major", "disk") \/ Goto("register", "out")

AllocDisk == Acquire("disk", "disk", "add") \/ Goto("disk", "out_unregister")

\* add_disk itself opens the device, to look for partitions.
AddDisk ==
  /\ stage = "add"
  /\ stage' = "live"
  /\ held' = held \cup {"minors"}
  /\ opened' = TRUE
  /\ UNCHANGED vars

\* register_blkdev returns 0 if a major number was asked for, so that major_num is
\* not the one that was registered, and there is nothing to unregister.
Unregister(this, following) ==
  IF RequestedMajor THEN Goto(this, following) ELSE Release(this, "major", following)

\* Slip: the label out does nothing.
OutReturns == Goto("out", "failed")

Out == Release("out", "data", "failed")

sbd_init ==
  \/ AllocCipher \/ AllocData \/ InitQueue \/ Register \/ AllocDisk \/ AddDisk
  \/ Unregister("out_unregister", "out") \/ Out

--------------------------------------------------------------------------------
Open ==
  /\ stage = "live" /\ ~opened
  /\ opened' = TRUE
  /\ UNCHANGED <<vars, stage, held>>

\* The last close waits for the requests.
Close ==
  /\ opened
  /\ queue = {} /\ req = None
  /\ opened' = FALSE
  /\ UNCHANGED <<vars, stage, held>>

FirstOfExit == IF encrypts THEN "free cipher" ELSE "del_gendisk"

\* Slip: no owner in sbd_ops.
RemoveAnyTime == Goto("live", FirstOfExit)

Remove == ~opened /\ Goto("live", FirstOfExit)

\* An error instead of a cipher is followed here, too.
FreeCipher ==
  IF cipher THEN Release("free cipher", "cipher", "del_gendisk") ELSE Goto("free cipher", "oopsed")

sbd_exit ==
  \/ FreeCipher
  \/ Release("del_gendisk", "minors", "put_disk")
  \/ Release("put_disk", "disk", "unregister")
  \/ Unregister("unregister", "cleanup")
  \/ Release("cleanup", "queue", "free data")
  \/ Release("free data", "data", "unloaded")

\* The requests of Sbd, from those who have the device open.
Request(r) == opened /\ Submit(r) /\ UNCHANGED life
Parameters == stage \notin {"failed", "unloaded"} /\ WriteParameters /\ UNCHANGED life
Serve == sbd_request /\ UNCHANGED life

\* The end, of a module that failed to load or was removed, or of what oopsed.
Gone ==
  /\ stage \in {"failed", "unloaded", "oopsed"} \/ pc = "oops"
  /\ UNCHANGED allVars

LNext ==
  \/ sbd_init \/ Open \/ Close \/ Remove \/ sbd_exit
  \/ (\E r \in Requests : Request(r)) \/ Parameters \/ Serve \/ Gone

LSpec == LInit /\ [][LNext]_allVars

--------------------------------------------------------------------------------
Resources ==
  {"data", "queue", "major", "disk", "minors"} \cup (IF encrypts THEN {"cipher"} ELSE {})

LTypeOK ==
  /\ TypeOK
  /\ stage \in {"cipher", "data", "queue", "register", "disk", "add", "out_unregister", "out",
                "failed", "live", "free cipher", "del_gendisk", "put_disk", "unregister",
                "cleanup", "free data", "unloaded", "oopsed"}
  /\ held \subseteq Resources
  /\ opened \in BOOLEAN

\* While a request is worked on, and while one waits, all that sbd_request uses
\* has been acquired and is not released yet, but for a cipher that was refused:
\* and without that nothing is transferred.
RequestsHaveAll ==
  /\ queue # {} \/ req # None => held = Resources \ (IF cipher THEN {} ELSE {"cipher"})
  /\ pc \in {"move", "end"} /\ encrypts /\ ~cipher => k = 0 /\ pc = "end"

\* What is acquired is released: all of it by sbd_exit, and by the error paths of
\* sbd_init all but the cipher and the queue.
LittleIsLeft ==
  /\ stage = "unloaded" => held = {}
  /\ stage = "failed" => held \subseteq {"cipher", "queue"}

\* What sbd_transfer relies on: while there are requests there is a cipher, too.
RequestsHaveCipher == queue # {} \/ req # None => held = Resources

\* As an error path should be: a module that failed to load leaves nothing.
NothingIsLeft == stage \in {"failed", "unloaded"} => held = {}
================================================================================
