-------------------------------- MODULE MCSmokers ------------------------------
(***************************************************************************)
(* An instance of Smokers for TLC, with a name of its own for the labels,  *)
(* so that it can stand beside other programs.                             *)
(***************************************************************************)
EXTENDS Integers

CONSTANT SEM_VALUE_MAX

ASSUME SemAssumption == SEM_VALUE_MAX \in Nat \ {0}

VARIABLES table, table_used, table_items, drawn, smokerPc, overtaken

S == INSTANCE Smokers WITH pc <- smokerPc

SmokersSpec == S!FairSpec

TakenByTheRightOne == S!TakenByTheRightOne
AllTakenInTheEnd == S!AllTakenInTheEnd
PlacesGrowByPicks == S!PlacesGrowByPicks
OneAtTheTable == S!OneAtTheTable
PicksUpTheOthers == S!PicksUpTheOthers
================================================================================
