--------------------------- MODULE MCCostLedger ---------------------------
(* Two processes, two runs of two requests each.  Processes and runs are   *)
(* only compared for equality, so permuting them is sound.                 *)
EXTENDS CostLedger, TLC

MCSymmetry == Permutations(Process) \cup Permutations(Run)
=============================================================================
