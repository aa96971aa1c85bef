---------------------------- MODULE MCFirestore ----------------------------
(* Model-checking instances of FirestoreControlPlane.  Decisions, keys and *)
(* owner-facing processes are only compared for equality: permuting them   *)
(* is sound.                                                               *)
EXTENDS FirestoreControlPlane, TLC

MCJob == 1..2

MCSymmetry == Permutations(Decision) \cup Permutations(Key) \cup Permutations(Api)
=============================================================================
