----------------------------- MODULE ShmChannel -----------------------------
(***************************************************************************)
(* The message layer of the channels between executors and scheduler       *)
(* (shm-ipc/src/ipc.cpp, with queue.h, elem_def.h, id_pool.h): opening a   *)
(* channel in shared memory, counting its receivers, cutting messages into *)
(* fragments or passing them in a chunk of shared memory, putting them     *)
(* together again, and what a send does when the ring stays full.          *)
(*                                                                         *)
(* The ring is module ShmFifo, which ShmRing is shown to implement.        *)
(* Sizes are counted in fragments of data_length bytes; the bytes of a     *)
(* message are the pieces <<id, 1>>, <<id, 2>>, ...  Each chunk size has   *)
(* a pool of its own.  A channel has one receiver, as in Pheromone, and it *)
(* sends nothing there, so recv's test for its own messages never holds.   *)
(***************************************************************************)
EXTENDS Integers, Sequences, FiniteSets, Functions

CONSTANTS
    Senders,        \* processes that hold the channel as ipc::sender
    Insistent,      \* senders that try again when a send fails
    Receiver,       \* the process that holds it as ipc::receiver
    Sizes,          \* sizes of messages, in fragments
    RingSize,       \* messages the ring can hold
    ChunksPerSize,  \* chunks in a pool (large_msg_cache, 32)
    CacheLimit,     \* partial messages kept before old ones are dropped (1024)
    CacheAge,       \* distance in message ids of an old one (8192)
    Width,          \* bits of the receiver count (32)
    MaxHeld,        \* buffers a receiver keeps at a time
    MaxIds,         \* bound: calls of send that draw a message id
    MaxTimeouts,    \* bound: pushes that time out
    MaxLeaves,      \* bound: times the receiver ends and starts again
    None

\* The receiver count is wide enough for the receivers that end; that 2^Width is
\* a number is true of every Width, but not known to a prover.
ASSUME ChannelAssumption ==
    /\ Receiver \notin Senders
    /\ Sizes \subseteq Nat \ {0}
    /\ RingSize \in Nat /\ ChunksPerSize \in Nat
    /\ MaxIds \in Nat /\ MaxTimeouts \in Nat /\ MaxLeaves \in Nat
    /\ 2^Width \in Nat /\ MaxLeaves + 1 < 2^Width
    /\ None \notin (Sizes \X Nat)

VARIABLES
    cc, lc, constructed,  \* conn_head_base: count, spin lock, flag
    acc,            \* the next message id
    queue, popped,  \* the ring, and the history of its pops
    next_, cursor_, \* id_pool of each chunk size
    count, content, \* of a chunk: its reference count and the message in it
    pc,             \* where each process is
    msg,            \* locals of a send
    cache,          \* recv_cache: partial messages of the receiver
    held,           \* buffers in chunks that the receiver keeps
    size, cut,  \* history: sizes by id, partial messages that were dropped
    inits, timeouts, leaves, ghosts  \* history: constructions, timeouts, receivers that ended, that were killed

head == <<cc, lc, constructed, inits>>
pools == <<next_, cursor_, count, content>>
receiving == <<cache, held, cut, popped>>
ends == <<leaves, ghosts>>
vars == <<head, acc, queue, pools, pc, msg, receiving, size, timeouts, ends>>

Procs == Senders \cup {Receiver}
Classes == Sizes \ {1}
Chunks == Classes \X (0..(ChunksPerSize - 1))
Whole(id) == [i \in 1..size[id] |-> <<id, i>>]
NoMsg == [len |-> 0, id |-> 0, frag |-> 0, chunk |-> None]

Ring == INSTANCE ShmFifo WITH
    Items <- [id : Nat, left : Nat, chunk : Chunks \cup {None}, piece : Nat],
    Capacity <- RingSize, got <- popped

\* id_pool::prepare on the zeroed memory of a new pool: each id leads to the next.
prepare ==
    /\ next_ = [k \in Chunks |-> k[2] + 1]
    /\ cursor_ = [n \in Classes |-> 0]

Init ==
    /\ cc = 0 /\ lc = FALSE /\ constructed = FALSE /\ inits = 0
    /\ acc = 0 /\ size = << >>
    /\ Ring!Init
    /\ prepare
    /\ count = [k \in Chunks |-> 0]
    /\ content = [k \in Chunks |-> None]
    /\ pc = [x \in Procs |-> "closed"]
    /\ msg = [s \in Senders |-> NoMsg]
    /\ cache = << >> /\ held = {} /\ cut = {}
    /\ timeouts = 0 /\ leaves = 0 /\ ghosts = 0

Goto(x, where) == pc' = [pc EXCEPT ![x] = where]

(***************************************************************************)
(* Opening: conn_head_base::init and connect                               *)
(***************************************************************************)
connect_receiver == (cc + 1) % 2^Width

disconnect_receiver == (cc - 1) % 2^Width

\* The flag is set, at the first check or at the one under the lock.
InitDone(x) ==
    /\ pc[x] = "closed" /\ constructed
    /\ Goto(x, "open")
    /\ UNCHANGED <<head, acc, queue, pools, msg, receiving, size, timeouts, ends>>

InitLock(x) ==
    /\ pc[x] = "closed" /\ ~constructed /\ ~lc
    /\ lc' = TRUE
    /\ Goto(x, "new")
    /\ UNCHANGED <<cc, constructed, inits, acc, queue, pools, msg, receiving, size, timeouts, ends>>

\* Placement new writes every member: the count, the flag, and the lock that is held.
InitNew(x) ==
    /\ pc[x] = "new"
    /\ cc' = 0 /\ lc' = FALSE /\ constructed' = FALSE
    /\ inits' = inits + 1
    /\ Goto(x, "mark")
    /\ UNCHANGED <<acc, queue, pools, msg, receiving, size, timeouts, ends>>

\* The flag is set and the lock given back.
InitMark(x) ==
    /\ pc[x] = "mark"
    /\ constructed' = TRUE /\ lc' = FALSE
    /\ Goto(x, "open")
    /\ UNCHANGED <<cc, inits, acc, queue, pools, msg, receiving, size, timeouts, ends>>

\* Nobody is woken.
MutConnect ==
    /\ pc[Receiver] = "open"
    /\ cc' = connect_receiver
    /\ Goto(Receiver, "receiving")
    /\ UNCHANGED <<lc, constructed, inits, acc, queue, pools, msg, receiving, size, timeouts, ends>>

\* reconnect as a receiver: one more connection, and the broadcast wakes the
\* senders that wait for one.
Connect ==
    /\ pc[Receiver] = "open"
    /\ cc' = connect_receiver
    /\ pc' = [x \in Procs |-> IF x = Receiver THEN "receiving"
                              ELSE IF pc[x] = "asleep" THEN "wait" ELSE pc[x]]
    /\ UNCHANGED <<lc, constructed, inits, acc, queue, pools, msg, receiving, size, timeouts, ends>>

\* The receiver ends, by disconnect (clean) or killed, and its successor opens
\* the channel as it was left.
Leave(clean) ==
    /\ pc[Receiver] = "receiving" /\ leaves < MaxLeaves
    /\ leaves' = leaves + 1
    /\ cc' = IF clean THEN disconnect_receiver ELSE cc
    /\ ghosts' = IF clean THEN ghosts ELSE ghosts + 1
    /\ Goto(Receiver, "closed")
    /\ cut' = cut \cup DOMAIN cache
    /\ cache' = << >> /\ held' = {}
    /\ UNCHANGED <<lc, constructed, inits, acc, queue, popped, pools, msg, size, timeouts>>

(***************************************************************************)
(* Storage: id_pool and the chunks                                         *)
(***************************************************************************)
\* id_pool::acquire that leaves the cursor where it was.
Mutacquire(n) == UNCHANGED <<cursor_, next_>>

\* id_pool::acquire, of a pool that is not empty; the id is the old cursor.
acquire(n) ==
    /\ cursor_' = [cursor_ EXCEPT ![n] = next_[<<n, @>>]]
    /\ UNCHANGED next_

release(k) ==
    /\ next_' = [next_ EXCEPT ![k] = cursor_[k[1]]]
    /\ cursor_' = [cursor_ EXCEPT ![k[1]] = k[2]]

\* A chunk k for message id, counted for the receivers there are now.
apply_storage(k, id) ==
    /\ acquire(k[1])
    /\ count' = [count EXCEPT ![k] = cc]
    /\ content' = [content EXCEPT ![k] = id]

\* The old count is compared with 0.
Mutrecycle_storage(k) ==
    /\ count' = [count EXCEPT ![k] = (@ - 1) % 2^Width]
    /\ IF count[k] > 0 THEN UNCHANGED <<next_, cursor_>> ELSE release(k)
    /\ UNCHANGED content

\* The last reference puts the chunk back.
recycle_storage(k) ==
    /\ count' = [count EXCEPT ![k] = (@ - 1) % 2^Width]
    /\ IF count[k] > 1 THEN UNCHANGED <<next_, cursor_>> ELSE release(k)
    /\ UNCHANGED content

(***************************************************************************)
(* send                                                                    *)
(***************************************************************************)
\* A message of n fragments, a new one or one that is tried again.  With no
\* receiver the send fails; otherwise it draws an id.
Send(s, n) ==
    /\ pc[s] = "open" \/ (pc[s] = "again" /\ n = msg[s].len)
    /\ acc < MaxIds
    /\ IF cc = 0
       THEN /\ msg' = [msg EXCEPT ![s] = [NoMsg EXCEPT !.len = n]]
            /\ Goto(s, "wait") /\ UNCHANGED <<acc, size>>
       ELSE /\ acc' = acc + 1
            /\ size' = [i \in 0..acc |-> IF i = acc THEN n ELSE size[i]]
            /\ msg' = [msg EXCEPT ![s] = [NoMsg EXCEPT !.len = n, !.id = acc, !.frag = 1]]
            /\ Goto(s, IF n > 1 THEN "storage" ELSE "push")
    /\ UNCHANGED <<head, queue, pools, receiving, timeouts, ends>>

\* A large message goes into a chunk if there is one, else it is cut up.
Storage(s) ==
    LET n == msg[s].len
        k == <<n, cursor_[n]>>
    IN  /\ pc[s] = "storage"
        /\ IF cc # 0 /\ k \in Chunks
           THEN /\ msg' = [msg EXCEPT ![s].chunk = k]
                /\ apply_storage(k, msg[s].id)
           ELSE UNCHANGED <<msg, pools>>
        /\ Goto(s, "push")
        /\ UNCHANGED <<head, acc, queue, receiving, size, timeouts, ends>>

\* The size left does not count the fragment itself.
MutItem(s) ==
    [id |-> msg[s].id, left |-> msg[s].len - msg[s].frag,
     chunk |-> msg[s].chunk, piece |-> IF msg[s].chunk = None THEN msg[s].frag ELSE 0]

\* What a push carries: the chunk, or the next fragment.
Item(s) ==
    [id |-> msg[s].id, left |-> msg[s].len - msg[s].frag + 1,
     chunk |-> msg[s].chunk, piece |-> IF msg[s].chunk = None THEN msg[s].frag ELSE 0]

Push(s) ==
    /\ pc[s] = "push"
    /\ Ring!Put(Item(s))
    /\ IF msg[s].chunk # None \/ msg[s].frag = msg[s].len
       THEN Goto(s, "open") /\ msg' = [msg EXCEPT ![s] = NoMsg]
       ELSE msg' = [msg EXCEPT ![s].frag = @ + 1] /\ UNCHANGED pc
    /\ UNCHANGED <<head, acc, pools, cache, held, cut, size, timeouts, ends>>

\* force_push takes a receiver for dead, counts it out and sends nothing.
force_push == cc' = disconnect_receiver

\* The ring is full for default_timeout: the send fails, and a chunk it took is
\* not put back.
PushTimeout(s) ==
    /\ pc[s] = "push" /\ Len(queue) = RingSize /\ timeouts < MaxTimeouts
    /\ timeouts' = timeouts + 1
    /\ force_push
    /\ msg' = [msg EXCEPT ![s] = [NoMsg EXCEPT !.len = msg[s].len]]
    /\ Goto(s, "wait")
    /\ UNCHANGED <<lc, constructed, inits, acc, queue, pools, receiving, size, ends>>

\* An executor's status report and its requests for objects are sent again,
TryAgain(s) ==
    /\ s \in Insistent
    /\ Goto(s, "again") /\ UNCHANGED msg

\* what the scheduler sends to an executor, and an object, are not.
GiveUp(s) ==
    /\ s \notin Insistent
    /\ Goto(s, "open")
    /\ msg' = [msg EXCEPT ![s] = NoMsg]

\* After a failed send the callers wait for a receiver.
WaitForRecv(s) ==
    /\ pc[s] = "wait"
    /\ IF cc = 0
       THEN Goto(s, "asleep") /\ UNCHANGED msg
       ELSE TryAgain(s) \/ GiveUp(s)
    /\ UNCHANGED <<head, acc, queue, pools, receiving, size, timeouts, ends>>

(***************************************************************************)
(* recv                                                                    *)
(***************************************************************************)
\* Old partial messages, dropped when there are too many.
Old(id) ==
    IF Cardinality(DOMAIN cache) > CacheLimit
    THEN {k \in DOMAIN cache : (IF k > id THEN k - id ELSE id - k) > CacheAge}
    ELSE {}

\* What a fragment carries; a chunk's number is no piece of the message.
Bytes(m) == <<m.id, m.piece>>

\* find_storage: a chunk whose count is zero is not given out.
Found(m) == m.chunk # None /\ count[m.chunk] # 0

\* The buffer that recv returns when it pops m, or nothing: a message of one
\* fragment, the message in a chunk, or the fragments kept with m as the last.
Buffer(m) ==
    CASE m.id \in DOMAIN cache /\ m.left <= 1 -> Append(cache[m.id], Bytes(m))
      [] m.id \in DOMAIN cache /\ m.left > 1 -> << >>
      [] m.id \notin DOMAIN cache /\ m.left <= 1 -> <<Bytes(m)>>
      [] m.id \notin DOMAIN cache /\ m.left > 1 -> IF Found(m) THEN Whole(content[m.chunk]) ELSE << >>

\* The partial messages kept after m.
Kept(m) ==
    IF m.id \in DOMAIN cache
    THEN IF m.left <= 1
         THEN Restrict(cache, DOMAIN cache \ {m.id})
         ELSE [cache EXCEPT ![m.id] = Append(@, Bytes(m))]
    ELSE IF m.left <= 1 \/ Found(m)
         THEN cache
         ELSE [k \in (DOMAIN cache \ Old(m.id)) \cup {m.id} |->
                  IF k = m.id THEN <<Bytes(m)>> ELSE cache[k]]

\* One round of recv's loop: a popped message ends a buffer, which is returned,
\* or is kept for the fragments to come.
Recv ==
    LET m == Head(queue)
    IN  /\ pc[Receiver] = "receiving" /\ Cardinality(held) < MaxHeld
        /\ Ring!Get
        /\ cache' = Kept(m)
        /\ cut' = cut \cup (DOMAIN cache \ (DOMAIN cache' \cup {m.id}))
        /\ held' = IF m.id \notin DOMAIN cache /\ m.left > 1 /\ Found(m)
                   THEN held \cup {[id |-> m.id, chunk |-> m.chunk]} ELSE held
        /\ UNCHANGED <<head, acc, pools, pc, msg, size, timeouts, ends>>

\* The receiver is done with a buffer that is a chunk.
Recycle(h) ==
    /\ h \in held
    /\ recycle_storage(h.chunk)
    /\ held' = held \ {h}
    /\ UNCHANGED <<head, acc, queue, popped, pc, msg, cache, cut, size, timeouts, ends>>

Opening(x) == InitDone(x) \/ InitLock(x) \/ InitNew(x) \/ InitMark(x)
Sending(s) == Storage(s) \/ Push(s) \/ PushTimeout(s) \/ WaitForRecv(s)

Next ==
    \/ \E x \in Procs : Opening(x)
    \/ Connect
    \/ \E clean \in BOOLEAN : Leave(clean)
    \/ \E s \in Senders, n \in Sizes : Send(s, n)
    \/ \E s \in Senders : Sending(s)
    \/ Recv
    \/ \E h \in held : Recycle(h)

Spec == Init /\ [][Next]_vars

(***************************************************************************)
(* Properties                                                              *)
(***************************************************************************)
TypeOK ==
    /\ cc \in 0..(2^Width - 1) /\ lc \in BOOLEAN /\ constructed \in BOOLEAN
    /\ acc \in 0..MaxIds /\ DOMAIN size = 0..(acc - 1)
    /\ Len(queue) <= RingSize
    /\ next_ \in [Chunks -> 0..ChunksPerSize] /\ cursor_ \in [Classes -> 0..ChunksPerSize]
    /\ count \in [Chunks -> 0..(2^Width - 1)]
    /\ content \in [Chunks -> DOMAIN size \cup {None}]
    /\ DOMAIN cache \subseteq DOMAIN size /\ cut \subseteq DOMAIN size
    /\ \A h \in held : h.id \in DOMAIN size /\ h.chunk \in Chunks

\* Every buffer that recv returns is a message as it was sent: fragments of
\* concurrent sends, of sends that failed half-way, and chunks are not mixed up.
\* Only a message whose first fragments were dropped comes as its tail.
WholeMessages ==
    pc[Receiver] = "receiving" /\ queue # << >> =>
        LET id == Head(queue).id
            b == Buffer(Head(queue))
        IN  \/ b \in {<< >>, Whole(id)}
            \/ id \in cut /\ \E i \in 2..size[id] : b = SubSeq(Whole(id), i, size[id])

\* The chunks on the free list of the pool for size n: what the cursor leads to,
\* as the smallest set that follows the links.
Free(n) ==
    {<<n, i>> : i \in {j \in 0..(ChunksPerSize - 1) :
        \A S \in SUBSET (0..ChunksPerSize) :
            (/\ cursor_[n] \in S
             /\ \A a \in S \ {ChunksPerSize} : next_[<<n, a>>] \in S) => j \in S}}

\* The messages that are in chunk k: with a sender, in the ring, or with the receiver.
Uses(k) ==
    {<<"sender", msg[s].id>> : s \in {s \in Senders : msg[s].chunk = k}}
    \cup {<<"ring", queue[i].id>> : i \in {i \in DOMAIN queue : queue[i].chunk = k}}
    \cup {<<"receiver", h.id>> : h \in {h \in held : h.chunk = k}}

\* A chunk carries one message at a time: while a sender, the ring or the
\* receiver refers to it, it is off the free list and its bytes are that
\* message's.  The variables have their types.
OneMessagePerChunk ==
    /\ TypeOK
    /\ \A k \in Chunks :
         /\ \A u, v \in Uses(k) : u = v
         /\ \A u \in Uses(k) : content[k] = u[2] /\ k \notin Free(k[1]) /\ count[k] # 0

\* A chunk is free when its count is zero, and each one comes back to its pool;
\* one is lost only by a send that timed out, by a receiver that ended with the
\* buffer, or by counting receivers that had ended.
ChunksComeBack ==
    \A k \in Chunks :
        /\ k \in Free(k[1]) <=> count[k] = 0
        /\ k \notin Free(k[1]) /\ Uses(k) = {} => timeouts > 0 \/ leaves > 0

\* The count of receivers is right, and so a sender never sleeps beside a
\* connected receiver, unless a push has timed out or two openers both
\* constructed the head; receivers that were killed stay in the count.
CountsReceivers ==
    timeouts = 0 /\ inits <= 1 =>
        /\ cc = ghosts + (IF pc[Receiver] = "receiving" THEN 1 ELSE 0)
        /\ pc[Receiver] = "receiving" => \A s \in Senders : pc[s] # "asleep"

=============================================================================
