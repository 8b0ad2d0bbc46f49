--------------------------- MODULE MCTransaction ---------------------------
(***************************************************************************)
(* Instances of CtsTransaction for TLC: threads are model values, and no   *)
(* thread differs from another.                                            *)
(***************************************************************************)
EXTENDS CtsTransactionProps, TLC

Symmetry == Permutations(Threads)
=============================================================================
