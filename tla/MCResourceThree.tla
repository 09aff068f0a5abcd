---------------------------- MODULE MCResourceThree ----------------------------
(***************************************************************************)
(* An instance of ResourceThree for TLC, with names of its own for the     *)
(* locals, so that it can stand beside other programs.                     *)
(***************************************************************************)
EXTENDS Integers, FiniteSets

CONSTANTS Threads, Places, CatchesSIGINT

ASSUME ThreadsAssumption == IsFiniteSet(Threads)
ASSUME PlacesAssumption == Places \in Nat \ {0}

VARIABLES counter, sem, comerPc, comerSeen, lost

R == INSTANCE ResourceThree WITH pc <- comerPc, seen <- comerSeen

ResourceSpec == R!FairSpec

TurnedBackWaitForAll == R!TurnedBackWaitForAll
EveryoneIsDone == R!EveryoneIsDone
PlacesKept == R!PlacesKept
FirstOnesGetIn == R!FirstOnesGetIn
AtMostTwoInside == R!AtMostTwoInside
AllStopBeforeAnyStarts == R!AllStopBeforeAnyStarts
NobodyStranded == R!NobodyStranded

FourThreads == 1 .. 4
FiveThreads == 1 .. 5   \* with three places, in two minutes
================================================================================
