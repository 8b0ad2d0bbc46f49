------------------------------ MODULE MCStore ------------------------------
(***************************************************************************)
(* Instances of CtsStore for TLC: the processes are interchangeable.       *)
(***************************************************************************)
EXTENDS CtsStoreProps, TLC

Symmetry == Permutations(Procs)
=============================================================================
