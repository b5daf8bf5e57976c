--------------------------- MODULE MCFileDelivery ---------------------------
(* Small instances of FileDelivery for TLC.                                *)
EXTENDS FileDelivery, TLC

(* All exports are attempts of one task.                                   *)
OneTask == [e \in Exports |-> 1]

(* Bodies, publishers, cleanup jobs and downloads are each alike.          *)
Symmetry ==
  Permutations(Bodies) \cup Permutations(Publishers)
    \cup Permutations(Cleaners) \cup Permutations(Clients)
=============================================================================
