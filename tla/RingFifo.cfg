\* Two producers and a consumer on a ring of two slots, one of them killed
\* somewhere; four messages take the indices round the ring twice.
\* The ring stops when the consumer is killed.
CONSTANTS
    Producers = {p1, p2}
    Consumers = {c1}
    N = 2
    MaxPush = 4
    MaxKills = 1
    Torn = Torn
SPECIFICATION FairSpec
INVARIANT RingInv
 
PROPERTY AllReceived
CHECK_DEADLOCK FALSE
