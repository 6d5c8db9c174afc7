-------------------------------- MODULE MCKvs --------------------------------
(* A small store for KvsClient and small values for Lattices. *)
EXTENDS KvsClient, Lattices
CONSTANTS w1, w2
SomePlacements == {{}, {w1}, {w2}}

(* Replicas of the store that hear of the same writes agree on them, no    *)
(* write is lost to one that did not know of it, and of two writes to a    *)
(* last-writer-wins key the later one is kept, as far as the digits of the *)
(* writers' ids allow.  Evaluated where a run starts: it has no state.     *)
ReplicasConverge == Init => ReplicasAgree /\ LaterWriteIsGreater

(* A value means the same to the schedulers and to the Python client: both *)
(* merge it alike and read what either wrote, whole and in order.          *)
LanguagesAgree == Init => SameToBoth
=============================================================================
