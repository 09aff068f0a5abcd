-------------------------- MODULE MCDiningPhilosophers -------------------------
(***************************************************************************)
(* Instances of DiningPhilosophers for TLC.  The seats are numbers with a  *)
(* successor, so rotating them is a symmetry TLC cannot be told of: none   *)
(* is used.                                                                *)
(***************************************************************************)
EXTENDS DiningPhilosophers
================================================================================
