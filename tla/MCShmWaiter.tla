---------------------------- MODULE MCShmWaiter -----------------------------
(* Instances of the waiter of a shared-memory channel for TLC. *)
EXTENDS ShmWaiter

=============================================================================
