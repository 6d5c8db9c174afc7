\* Two senders, one of which tries again, and a receiver that ends once; two of
\* three messages are cut into fragments when the one chunk is taken; two pushes
\* that time out take the count of receivers below zero.  Calls are bounded, so
\* the system stops.
CONSTANTS
    Senders = {s1, s2}
    Insistent = {s1}
    Receiver = r
    Sizes = {1, 3}
    RingSize = 2
    ChunksPerSize = 1
    CacheLimit = 0
    CacheAge = 1
    Width = 3
    MaxHeld = 1
    MaxIds = 3
    MaxTimeouts = 2
    MaxLeaves = 1
    None = None
SPECIFICATION Spec
VIEW Present
INVARIANT WholeMessages
INVARIANT OneMessagePerChunk
 
INVARIANT CountsReceivers
CHECK_DEADLOCK FALSE
