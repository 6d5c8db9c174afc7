------------------------------ MODULE ShmFifo ------------------------------
(***************************************************************************)
(* What a ring of shared memory promises the processes that use it: a      *)
(* bounded first-in first-out queue.  A push takes effect at one instant,  *)
(* and so does a pop; a pop hands out the oldest message that was pushed   *)
(* and not popped, whole and once.  The ring of libipc/prod_cons.h is      *)
(* shown to implement this (module ShmRing), and the message layer above   *)
(* it (module ShmChannel) is built on this.                                *)
(***************************************************************************)
EXTENDS Naturals, Sequences

CONSTANTS
    Items,      \* what the queue carries
    Capacity    \* how many it can hold

VARIABLES
    queue,      \* pushed and not popped
    got         \* popped, in the order of the pops

fifoVars == <<queue, got>>

Init ==
    /\ queue = << >>
    /\ got = << >>

\* queue::push that returns true.
Put(m) ==
    /\ Len(queue) < Capacity
    /\ queue' = Append(queue, m)
    /\ UNCHANGED got

\* queue::pop that returns true.
Get ==
    /\ queue # << >>
    /\ got' = Append(got, Head(queue))
    /\ queue' = Tail(queue)

Next ==
    \/ \E m \in Items : Put(m)
    \/ Get

Spec == Init /\ [][Next]_fifoVars
=============================================================================
