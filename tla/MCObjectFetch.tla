--------------------------- MODULE MCObjectFetch ---------------------------
(* Instances of ObjectFetch: calls c1 and c2 share the argument y.  What a *)
(* call's arguments look like on the way (CallArgs) is checked beside it.  *)
EXTENDS ObjectFetch, CallArgs

CONSTANTS c1, c2, c3, x, y, z, m, n, g1

TwoArgs == [c \in Calls |-> IF c = c1 THEN {x, y} ELSE IF c = c2 THEN {y, z} ELSE {z}]
ReadY == [g \in Gets |-> y]
XonM == [h \in Others |-> IF h = m THEN {x, y} ELSE {y, z}]
RightAddr == [c \in Calls |-> [k \in Keys |-> IF k = x THEN m ELSE IF k = z THEN n
                                              ELSE IF c = c1 THEN m ELSE n]]

(* What functions send reaches the functions, clients and readers it is    *)
(* meant for, through every conversion of names and arguments, but for the *)
(* cases CallArgs states; evaluated where a run starts, as it has no state. *)
ArgumentsArrive == Init => ArgumentsKept
=============================================================================
