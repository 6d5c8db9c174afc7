----------------------------- MODULE MCRegistry -----------------------------
(* Instance of Registry: two applications that keep to their own buckets. *)
EXTENDS Registry

CONSTANTS a1, a2, b1, b2

OwnBucket == {<<a1, b1>>, <<a2, b2>>}
=============================================================================
