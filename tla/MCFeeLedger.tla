---------------------------- MODULE MCFeeLedger ----------------------------
(***************************************************************************)
(* FeeLedger for TLC.  Nothing tells one creator, or one donation, from    *)
(* another; the runs without liveness use it.                              *)
(***************************************************************************)
EXTENDS FeeLedger, TLC

Symmetry == Permutations(Users) \cup Permutations(Donations)
=============================================================================
