--------------------------- MODULE MCTriggerSync ---------------------------
(* Instances of TriggerSync for TLC, and re-execution beside it. *)
EXTENDS TriggerSync, Rerun, TLC

(* Triggers evaluated per session; the two by-set ones share a key. *)
SharedPrimitive ==
  [imm  |-> [type |-> "IMMEDIATE"],
   name |-> [type |-> "BY_NAME", key_name |-> "a"],
   ab   |-> [type |-> "BY_SET", key_set |-> {"a", "b"}],
   bc   |-> [type |-> "BY_SET", key_set |-> {"b", "c"}]]

(* The triggers that buffer objects of all sessions. *)
BufferPrimitive ==
  [batch |-> [type |-> "BY_BATCH_SIZE", count |-> 2],
   red   |-> [type |-> "REDUNDANT", k |-> 2, n |-> 3],
   time  |-> [type |-> "BY_TIME"],
   dyn   |-> [type |-> "DYNAMIC_GROUP", control_group |-> {"c"},
              group |-> [a |-> "g1", b |-> "g2", c |-> "ctrl"]]]

BatchPrimitive == [batch |-> [type |-> "BY_BATCH_SIZE", count |-> 2]]

Symmetry == Permutations(Nodes) \cup Permutations(Sessions)

(* Re-execution by the local scheduler's timer: a source function is run   *)
(* again exactly when the trigger misses its object and its timeout is     *)
(* over, and only several missing sources multiply the checks.  Evaluated  *)
(* where a run starts: it is about all histories of Rerun.                 *)
RerunsMissing == Init => RerunRule
=============================================================================
