------------------------------- MODULE MCJobs -------------------------------
(***************************************************************************)
(* Jobs for TLC.  Dispatchers are interchangeable, which a run of safety    *)
(* properties alone may use.                                               *)
(***************************************************************************)
EXTENDS Jobs, TLC

DispatcherSymmetry == Permutations(Dispatchers)
=============================================================================
