--------------------------- MODULE CtsAtomicStore ---------------------------
(***************************************************************************)
(* What the contacts database promises the programs that read it: the      *)
(* change records become visible in atomic batches, a batch that carries   *)
(* version stamps moves the version by exactly one, and every stamp of a   *)
(* batch is the version the batch creates.  A reader that remembers the    *)
(* version it saw can therefore ask for "everything with a larger stamp".  *)
(* A batch whose writer could not read or write the version is atomic, but *)
(* its stamps are not promised.                                            *)
(***************************************************************************)
EXTENDS Integers

CONSTANT Unversioned   \* the stamp of a change that does not move the version

VARIABLES
  rows,   \* the committed change records
  ver,    \* the committed value of cts_version.ver
  sound   \* the writer of the batch could read and write the version

avars == <<rows, ver, sound>>

AInit ==
  /\ rows = {}
  /\ ver = 0
  /\ sound = TRUE

Fresh ==
  /\ ver' \in {ver, ver + 1}
  /\ \A r \in rows' \ rows :
       r.ver # Unversioned => r.ver = ver + 1 /\ ver' = ver + 1

\* A batch, or the start of one: records are only ever added, and their
\* stamps are fresh.
Publish ==
  /\ rows \subseteq rows'
  /\ sound' => Fresh
  /\ sound' \in BOOLEAN

ASpec == AInit /\ [][Publish]_avars
=============================================================================
