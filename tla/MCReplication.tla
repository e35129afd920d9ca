--------------------------- MODULE MCReplication ----------------------------
(***************************************************************************)
(* Instance of Replication: the identifiers run over after the second      *)
(* object, and two transmissions may be reported on in any order.          *)
(***************************************************************************)
EXTENDS Replication, TLC

MCSymmetry == Permutations(Object) \cup Permutations(Slot)
=============================================================================
