-------------------------- MODULE MCHostedWorker --------------------------
(* Model-checking instances of HostedWorker.  Workers are only compared    *)
(* for equality: permuting them is sound for the safety runs.  The         *)
(* liveness runs use no symmetry.                                          *)
EXTENDS HostedWorker, TLC

TwoJobs == 1..2

\* Deaths anywhere, and anywhere but between creating and writing the marker.
Anywhere == Step \ {"idle"}
OutsideMarking == Step \ {"idle", "marking"}

MCSymmetry == Permutations(Worker)
=============================================================================
