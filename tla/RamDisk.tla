-------------------------------- MODULE RamDisk --------------------------------
(***************************************************************************)
(* What a disk promises: a request moves its sectors one after the other,  *)
(* writes to the disk and reads from it, and ends when it has moved all.   *)
(***************************************************************************)
EXTENDS Naturals, Sequences

CONSTANTS Requests,  \* records with fs, write, sector and data
          NSectors, Unwritten

VARIABLES disk,      \* the contents of the sectors
          waiting,   \* requests submitted and not ended
          moved,     \* how many sectors of a waiting request have been moved
          memory     \* the buffers of the requests

ramVars == <<disk, waiting, moved, memory>>

Sectors == 0 .. NSectors - 1

Init ==
  /\ disk = [s \in Sectors |-> Unwritten]
  /\ waiting = {}
  /\ moved = [r \in Requests |-> 0]
  /\ memory = [r \in Requests |-> r.data]

Submit(r) ==
  /\ r \notin waiting
  /\ waiting' = waiting \cup {r}
  /\ memory' = [memory EXCEPT ![r] = r.data]
  /\ UNCHANGED <<disk, moved>>

Move(r) ==
  LET s == r.sector + moved[r]
      b == moved[r] + 1
  IN  /\ r \in waiting /\ r.fs
      /\ moved[r] < Len(r.data)
      /\ moved' = [moved EXCEPT ![r] = b]
      /\ IF r.write THEN disk' = [disk EXCEPT ![s] = memory[r][b]] /\ UNCHANGED memory
         ELSE memory' = [memory EXCEPT ![r][b] = disk[s]] /\ UNCHANGED disk
      /\ UNCHANGED waiting

\* Requests that are not of the file system are refused, the others done.
End(r) ==
  /\ r \in waiting
  /\ r.fs => moved[r] = Len(r.data)
  /\ waiting' = waiting \ {r}
  /\ moved' = [moved EXCEPT ![r] = 0]
  /\ UNCHANGED <<disk, memory>>

Next == \E r \in Requests : Submit(r) \/ Move(r) \/ End(r)

Spec == Init /\ [][Next]_ramVars
================================================================================
