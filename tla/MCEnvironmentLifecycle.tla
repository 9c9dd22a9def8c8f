----------------------- MODULE MCEnvironmentLifecycle -----------------------
(***************************************************************************)
(* Instances of EnvironmentLifecycle for TLC.                              *)
(***************************************************************************)
EXTENDS EnvironmentLifecycle, TLC

\* Request goroutines are interchangeable.  Only for safety properties.
ThreadSymmetry == Permutations(Threads)
=============================================================================
