------------------------------ MODULE MCHelper ------------------------------
(***************************************************************************)
(* Instances of CtsHelper for TLC: two threads of one process and a thread *)
(* of another one, and the situations a run explores.                      *)
(***************************************************************************)
EXTENDS CtsHelperProps, TLC

CONSTANTS t1, t2, t3, p1, p2

MCProcOf == (t1 :> p1) @@ (t2 :> p1) @@ (t3 :> p2)

Situation(card, used, asks, faults) ==
  [card |-> card, used |-> used, asks |-> asks, faults |-> faults]

\* Imports and insertions, some of which fail; exports while the order of names
\* changes; the service numbers; names that cannot be normalised or read.
Handled ==
  {Situation("ADN", 2, {"import", "insert", "export"}, {"tapi", "refuse", "insert", "read"}),
   Situation("ADN", 0, {"import", "str"}, {}),
   Situation("ADN", 1, {"export", "str"}, {"tapi", "no_person", "region", "read"}),
   Situation("3GSIM", 1, {"export", "import"}, {"no_person", "refuse"}),
   Situation("3GSIM", 1, {"insert", "str"}, {"normalize", "sdn", "read"})}
=============================================================================
