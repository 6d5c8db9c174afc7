-------------------------- MODULE MCLocalScheduler --------------------------
(* Instances of LocalScheduler: the calls c1 and c2 arrive from outside; c1
   passes an object on to the calls d1 and d2, c2 reads an object. *)
EXTENDS LocalScheduler

CONSTANTS c1, c2, d1, d2, f, g

TreeFunc == [c \in Calls |-> IF c \in {c1, d1} THEN f ELSE g]
TreeDeps == [c \in Calls |-> IF c = c1 THEN <<d1, d2>> ELSE <<>>]
=============================================================================
