--------------------------- MODULE MCReplayQueue ---------------------------
(* Model-checking instance of ReplayQueue: two jobs, two instructions, two *)
(* checkpoint ids.  Instructions and checkpoint ids are only compared for  *)
(* equality, so permuting them is sound.                                   *)
EXTENDS ReplayQueue, TLC

MCJob == 1..2

MCSymmetry == Permutations(Decision) \cup Permutations(Checkpoint)
=============================================================================
