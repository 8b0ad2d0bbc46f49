------------------------------ MODULE MCClient ------------------------------
(***************************************************************************)
(* Instances of CtsClient for TLC.                                         *)
(***************************************************************************)
EXTENDS CtsClientProps, TLC

CONSTANTS main, t2, contact, group, f

MCCalls == (main :> 4) @@ (t2 :> 1)
=============================================================================
