----------------------------- MODULE MCJobStore -----------------------------
(* JobStore for TLC.  Nothing tells one job from another but its name.     *)
EXTENDS JobStore, TLC

AlikeJobs == Permutations(Jobs)
=============================================================================
