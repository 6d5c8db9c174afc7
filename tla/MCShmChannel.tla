---------------------------- MODULE MCShmChannel ----------------------------
(* The history of the pops is written by the ring and read by nobody here. *)
EXTENDS ShmChannel

Present == <<head, acc, queue, pools, pc, msg, cache, held, cut, size, timeouts, ends>>
=============================================================================
