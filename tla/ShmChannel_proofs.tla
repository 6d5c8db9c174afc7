------------------------- MODULE ShmChannel_proofs -------------------------
(***************************************************************************)
(* Proofs about module ShmChannel, for any number of senders, chunks and   *)
(* message sizes.  The argument is about the log of the ring, the messages *)
(* popped and those still in it: the fragments of a message stand in it in *)
(* order and without a gap, a message in a chunk stands in it once.  What  *)
(* the receiver has put together is then the part of a message that the    *)
(* log shows as popped, and the references to a chunk are told apart by    *)
(* the id of the message in it.                                            *)
(***************************************************************************)
EXTENDS ShmChannel, WellFoundedInduction, TLAPS

-----------------------------------------------------------------------------
(* The inductive invariant *)

Places == {"closed", "new", "mark", "open", "receiving",
           "storage", "push", "wait", "asleep", "again"}
ItemType == [id : Nat, left : Nat, chunk : Chunks \cup {None}, piece : Nat]
MsgType == [len : Nat, id : Nat, frag : Nat, chunk : Chunks \cup {None}]

TypeInv ==
    /\ cc \in 0..(2^Width - 1) /\ lc \in BOOLEAN /\ constructed \in BOOLEAN /\ inits \in Nat
    /\ acc \in 0..MaxIds /\ size \in [0..(acc - 1) -> Sizes]
    /\ queue \in Seq(ItemType) /\ popped \in Seq(ItemType) /\ Len(queue) <= RingSize
    /\ next_ \in [Chunks -> 0..ChunksPerSize] /\ cursor_ \in [Classes -> 0..ChunksPerSize]
    /\ count \in [Chunks -> 0..(2^Width - 1)]
    /\ content \in [Chunks -> (0..(acc - 1)) \cup {None}]
    /\ pc \in [Procs -> Places] /\ msg \in [Senders -> MsgType]
    /\ DOMAIN cache \subseteq 0..(acc - 1) /\ cut \subseteq 0..(acc - 1)
    /\ held \subseteq [id : 0..(acc - 1), chunk : Chunks]
    /\ timeouts \in Nat /\ leaves \in 0..MaxLeaves /\ ghosts \in 0..leaves

\* The count of receivers; nobody is past the construction before the first one.
HeadInv ==
    /\ inits = 0 => cc = 0 /\ ghosts = 0 /\ ~constructed
                    /\ \A x \in Procs : pc[x] \in {"closed", "new"}
    /\ CountsReceivers

\* A send that has drawn an id and is not over.
Busy(s) == pc[s] \in {"storage", "push"}

\* The locals of a send.
SendInv ==
    /\ \A s \in Senders :
         /\ Busy(s) => /\ msg[s].id \in 0..(acc - 1) /\ msg[s].len = size[msg[s].id]
                       /\ msg[s].frag \in 1..msg[s].len
         /\ msg[s].chunk # None => pc[s] = "push" /\ msg[s].frag = 1 /\ msg[s].len > 1
         /\ pc[s] = "storage" => msg[s].frag = 1 /\ msg[s].len > 1
    /\ \A s, t \in Senders : Busy(s) /\ Busy(t) /\ msg[s].id = msg[t].id => s = t

\* Everything that was pushed, in order.
Log == popped \o queue

\* An item is a fragment of its message or the chunk with all of it.
Fits(m) ==
    /\ m.id \in 0..(acc - 1)
    /\ m.chunk = None => m.piece \in 1..size[m.id] /\ m.left = size[m.id] - m.piece + 1
    /\ m.chunk # None => m.piece = 0 /\ m.left = size[m.id] /\ size[m.id] > 1

InOrder(L) ==
    \A i, j \in 1..Len(L) : i < j /\ L[i].id = L[j].id =>
        L[i].chunk = None /\ L[j].chunk = None /\ L[i].piece < L[j].piece

NoGaps(L) ==
    \A j \in 1..Len(L) : L[j].piece > 1 =>
        \E i \in 1..(j - 1) : L[i].id = L[j].id /\ L[i].piece = L[j].piece - 1

\* The fragment that a send is at comes right after those it has pushed.
Ahead(L, s) ==
    Busy(s) =>
        /\ \A i \in 1..Len(L) : L[i].id = msg[s].id =>
             L[i].chunk = None /\ msg[s].chunk = None /\ L[i].piece < msg[s].frag
        /\ msg[s].frag > 1 =>
             \E i \in 1..Len(L) : L[i].id = msg[s].id /\ L[i].piece = msg[s].frag - 1

LogInv ==
    /\ \A i \in 1..Len(Log) : Fits(Log[i])
    /\ InOrder(Log) /\ NoGaps(Log)
    /\ \A s \in Senders : Ahead(Log, s)

\* The pieces a..p of message id.
Part(id, a, p) == [i \in 1..(p - a + 1) |-> <<id, a + i - 1>>]

\* p is the last fragment of id that was popped.
LastPopped(id, p) ==
    /\ \E i \in 1..Len(popped) : popped[i].id = id /\ popped[i].piece = p
    /\ \A i \in 1..Len(popped) : popped[i].id = id => popped[i].piece <= p

\* What is kept of message id is its beginning, or a later part if some was dropped.
KeptPart(id) ==
    \E a \in 1..size[id], p \in 1..size[id] :
        /\ a <= p /\ p < size[id]
        /\ cache[id] = Part(id, a, p)
        /\ LastPopped(id, p)
        /\ a > 1 => id \in cut

\* A message of which nothing is kept had all its fragments popped, or was dropped.
Gone(id) ==
    (\E i \in 1..Len(popped) : popped[i].id = id /\ popped[i].chunk = None) =>
        \/ id \in cut
        \/ \E i \in 1..Len(popped) : popped[i].id = id /\ popped[i].piece = size[id]

PartialInv ==
    /\ \A id \in DOMAIN cache : KeptPart(id)
    /\ \A id \in 0..(acc - 1) : id \notin DOMAIN cache => Gone(id)

\* Chunk k is in use and holds message id.
Carries(k, id) == content[k] = id /\ count[k] # 0

RefInv ==
    /\ \A s \in Senders : msg[s].chunk # None => Carries(msg[s].chunk, msg[s].id)
    /\ \A i \in 1..Len(queue) : queue[i].chunk # None => Carries(queue[i].chunk, queue[i].id)
    /\ \A h \in held :
         /\ Carries(h.chunk, h.id)
         /\ \E i \in 1..Len(popped) : popped[i].id = h.id /\ popped[i].chunk = h.chunk

\* l is the free list of the pool for size n, and it holds the chunks of count zero.
FreeList(n, l) ==
    /\ \A i, j \in 1..Len(l) : l[i] = l[j] => i = j
    /\ cursor_[n] = IF l = << >> THEN ChunksPerSize ELSE l[1]
    /\ \A j \in 1..Len(l) :
         next_[<<n, l[j]>>] = IF j = Len(l) THEN ChunksPerSize ELSE l[j + 1]
    /\ \A i \in 0..(ChunksPerSize - 1) : count[<<n, i>>] = 0 <=> \E j \in 1..Len(l) : l[j] = i

PoolInv == \A n \in Classes : \E l \in Seq(0..(ChunksPerSize - 1)) : FreeList(n, l)

\* Somebody refers to chunk k.
Referred(k) ==
    \/ \E s \in Senders : msg[s].chunk = k
    \/ \E i \in 1..Len(queue) : queue[i].chunk = k
    \/ \E h \in held : h.chunk = k

\* Without a timeout and an end of the receiver, a chunk in use is referred to.
LostInv ==
    timeouts = 0 /\ leaves = 0 =>
        /\ cc = 0 \/ (cc = 1 /\ pc[Receiver] = "receiving")
        /\ \A k \in Chunks : count[k] # 0 => count[k] = 1 /\ Referred(k)

IInv == TypeInv /\ HeadInv /\ SendInv /\ LogInv /\ PartialInv /\ RefInv /\ PoolInv /\ LostInv

-----------------------------------------------------------------------------
(* Lemmas about the operators *)

\* A remainder is below the divisor, and a number below it is its own.
LEMMA ModRange ==
    ASSUME NEW M \in Nat \ {0}, NEW x \in Int
    PROVE  x % M \in 0..(M - 1)
OBVIOUS

LEMMA ModSmall ==
    ASSUME NEW M \in Nat \ {0}, NEW x \in 0..(M - 1)
    PROVE  x % M = x
OBVIOUS

\* The count of receivers stays in its width, and is exact while it fits
\* (connect_receiver, disconnect_receiver and the count of a chunk).
LEMMA Counting ==
    ASSUME NEW x \in 0..(2^Width - 1)
    PROVE  /\ (x + 1) % 2^Width \in 0..(2^Width - 1)
           /\ (x - 1) % 2^Width \in 0..(2^Width - 1)
           /\ x + 1 < 2^Width => (x + 1) % 2^Width = x + 1
           /\ x > 0 => (x - 1) % 2^Width = x - 1
<1>1. PICK M : M = 2^Width
  BY Zenon
<1>2. M \in Nat \ {0} /\ x \in 0..(M - 1)
  BY <1>1, ChannelAssumption
<1>3. (x + 1) % M \in 0..(M - 1) /\ (x - 1) % M \in 0..(M - 1)
  BY <1>2, ModRange
<1>4. x + 1 < M => (x + 1) % M = x + 1
  BY <1>2, ModSmall
<1>5. x > 0 => (x - 1) % M = x - 1
  BY <1>2, ModSmall
<1> QED BY <1>1, <1>3, <1>4, <1>5, Zenon

\* A pop leaves the log as it is (ShmFifo's Get).
LEMMA PopLog ==
    ASSUME NEW S, NEW p \in Seq(S), NEW q \in Seq(S), q # << >>
    PROVE  Append(p, Head(q)) \o Tail(q) = p \o q
OBVIOUS

\* A push adds to the end of the log (ShmFifo's Put).
LEMMA PushLog ==
    ASSUME NEW S, NEW p \in Seq(S), NEW q \in Seq(S), NEW m \in S
    PROVE  p \o Append(q, m) = Append(p \o q, m)
OBVIOUS

\* An id of a chunk is not None, and a chunk has a size and a number.
LEMMA ChunkFacts ==
    /\ None \notin Chunks
    /\ \A n \in Classes, i \in 0..(ChunksPerSize - 1) : <<n, i>> \in Chunks
    /\ \A k \in Chunks : k = <<k[1], k[2]>> /\ k[1] \in Classes /\ k[2] \in 0..(ChunksPerSize - 1)
BY ChannelAssumption DEF Chunks, Classes

LEMMA TypeOKInv == TypeInv => TypeOK
BY Zenon DEF TypeInv, TypeOK

-----------------------------------------------------------------------------
(* Initial states *)

LEMMA InitInv == Init => IInv
<1> SUFFICES ASSUME Init PROVE IInv
  BY Zenon
<1> USE ChannelAssumption
<1>0. queue = << >> /\ popped = << >> /\ Log = << >>
  BY DEF Init, Ring!Init, Log
<1>1. TypeInv
  <2>1. size \in [0..(acc - 1) -> Sizes]
    BY DEF Init
  <2>2. next_ \in [Chunks -> 0..ChunksPerSize] /\ cursor_ \in [Classes -> 0..ChunksPerSize]
    BY ChunkFacts DEF Init, prepare
  <2>3. msg \in [Senders -> MsgType]
    BY Zenon DEF Init, NoMsg, MsgType
  <2>4. pc \in [Procs -> Places]
    BY Zenon DEF Init, Places
  <2>5. DOMAIN cache = {}
    BY DEF Init
  <2>6. queue \in Seq(ItemType) /\ popped \in Seq(ItemType) /\ Len(queue) <= RingSize
    BY <1>0
  <2>7. count \in [Chunks -> 0..(2^Width - 1)] /\ cc \in 0..(2^Width - 1)
    BY DEF Init
  <2>8. content \in [Chunks -> (0..(acc - 1)) \cup {None}]
    BY Zenon DEF Init
  <2>9. lc \in BOOLEAN /\ constructed \in BOOLEAN /\ held = {} /\ cut = {}
    BY Zenon DEF Init
  <2>10. inits = 0 /\ acc = 0 /\ timeouts = 0 /\ leaves = 0 /\ ghosts = 0
    BY Zenon DEF Init
  <2> QED BY <2>1, <2>2, <2>3, <2>4, <2>5, <2>6, <2>7, <2>8, <2>9, <2>10 DEF TypeInv
<1>2. HeadInv
  BY DEF Init, HeadInv, CountsReceivers, Procs
<1>3. SendInv
  BY Zenon DEF Init, SendInv, Busy, NoMsg, Procs
<1>4. LogInv
  BY <1>0 DEF Init, LogInv, InOrder, NoGaps, Ahead, Busy, Procs
<1>5. PartialInv
  BY <1>0 DEF Init, PartialInv
<1>6. RefInv
  BY <1>0 DEF Init, RefInv, NoMsg
<1>7. PoolInv
  <2> SUFFICES ASSUME NEW n \in Classes
               PROVE  \E l \in Seq(0..(ChunksPerSize - 1)) : FreeList(n, l)
    BY Zenon DEF PoolInv
  <2> DEFINE l == [j \in 1..ChunksPerSize |-> j - 1]
  <2>1. l \in Seq(0..(ChunksPerSize - 1)) /\ Len(l) = ChunksPerSize
    OBVIOUS
  <2>2. \A j \in 1..ChunksPerSize : l[j] = j - 1
    BY Zenon
  <2>3. l = << >> <=> ChunksPerSize = 0
    BY <2>1
  <2> HIDE DEF l
  <2>4. cursor_[n] = IF l = << >> THEN ChunksPerSize ELSE l[1]
    BY <2>2, <2>3 DEF Init, prepare
  <2>6. ASSUME NEW j \in 1..ChunksPerSize
        PROVE  next_[<<n, l[j]>>] = IF j = ChunksPerSize THEN ChunksPerSize ELSE l[j + 1]
    <3>1. <<n, j - 1>> \in Chunks /\ <<n, j - 1>>[2] = j - 1
      BY ChunkFacts
    <3>2. next_[<<n, j - 1>>] = j
      BY <3>1 DEF Init, prepare
    <3> QED BY <3>2, <2>2
  <2>7. \A i \in 0..(ChunksPerSize - 1) : count[<<n, i>>] = 0 /\ i + 1 \in 1..ChunksPerSize /\ l[i + 1] = i
    BY <2>2, ChunkFacts DEF Init
  <2>5. FreeList(n, l)
    BY <2>1, <2>2, <2>4, <2>6, <2>7 DEF FreeList
  <2> QED BY <2>1, <2>5, Zenon
<1>8. LostInv
  BY Zenon DEF Init, LostInv
<1> QED BY <1>1, <1>2, <1>3, <1>4, <1>5, <1>6, <1>7, <1>8, Zenon DEF IInv

-----------------------------------------------------------------------------
(* What a step that concerns no send leaves as it is *)

\* Each send goes on as it was or is over.
Calm ==
    \A s \in Senders : \/ pc'[s] = pc[s] /\ msg'[s] = msg[s]
                       \/ pc'[s] \notin {"storage", "push"} /\ msg'[s].chunk = None

\* The locals of the sends and the log.
LEMMA CalmSends ==
    ASSUME SendInv, LogInv, Calm, UNCHANGED <<acc, size, queue, popped>>
    PROVE  SendInv' /\ LogInv'
<1>1. \A s \in Senders : Busy(s)' => Busy(s) /\ pc'[s] = pc[s] /\ msg'[s] = msg[s]
  BY Zenon DEF Calm, Busy
<1>2. SendInv'
  <2>1. ASSUME NEW s \in Senders
        PROVE  (/\ Busy(s) => /\ msg[s].id \in 0..(acc - 1) /\ msg[s].len = size[msg[s].id]
                              /\ msg[s].frag \in 1..msg[s].len
                /\ msg[s].chunk # None => pc[s] = "push" /\ msg[s].frag = 1 /\ msg[s].len > 1
                /\ pc[s] = "storage" => msg[s].frag = 1 /\ msg[s].len > 1)'
    BY <2>1, Zenon DEF Calm, SendInv, Busy
  <2>2. \A s, t \in Senders : (Busy(s) /\ Busy(t) /\ msg[s].id = msg[t].id => s = t)'
    BY <1>1 DEF SendInv
  <2> QED BY <2>1, <2>2, Zenon DEF SendInv
<1>3. Log' = Log
  BY Zenon DEF Log
<1>4. \A i \in 1..Len(Log) : Fits(Log[i])'
  BY <1>3, Zenon DEF LogInv, Fits
<1>5. InOrder(Log)' /\ NoGaps(Log)'
  BY <1>3, Zenon DEF LogInv, InOrder, NoGaps
<1>6. ASSUME NEW s \in Senders PROVE Ahead(Log, s)'
  BY <1>1, <1>3 DEF LogInv, Ahead
<1> QED BY <1>2, <1>3, <1>4, <1>5, <1>6, Zenon DEF LogInv

\* What is kept of partial messages.
LEMMA SamePartial ==
    ASSUME PartialInv, UNCHANGED <<cache, cut, popped, size, acc>>
    PROVE  PartialInv'
<1>1. ASSUME NEW id PROVE KeptPart(id)' = KeptPart(id)
  BY Zenon DEF KeptPart, LastPopped
<1>2. ASSUME NEW id PROVE Gone(id)' = Gone(id)
  BY Zenon DEF Gone
<1> QED BY <1>1, <1>2, Zenon DEF PartialInv

\* The references to chunks.
LEMMA CalmRefs ==
    ASSUME RefInv, Calm, UNCHANGED <<queue, popped, held, count, content>>
    PROVE  RefInv'
BY DEF RefInv, Calm, Carries

\* The free lists.
LEMMA SamePools ==
    ASSUME PoolInv, UNCHANGED <<next_, cursor_, count>>
    PROVE  PoolInv'
BY DEF PoolInv, FreeList

-----------------------------------------------------------------------------
(* Opening *)

\* conn_head_base::init: InitDone, InitLock, InitNew and InitMark.
LEMMA OpeningInv ==
    ASSUME IInv, NEW x \in Procs, Opening(x)
    PROVE  IInv'
<1> TypeInv /\ HeadInv /\ SendInv /\ LogInv /\ PartialInv /\ RefInv /\ PoolInv /\ LostInv
  BY Zenon DEF IInv
<1>1. /\ UNCHANGED <<acc, queue, popped, next_, cursor_, count, content, msg, cache, held, cut,
                     size, timeouts, leaves, ghosts>>
      /\ pc[x] \in {"closed", "new", "mark"} /\ cc' \in {cc, 0} /\ inits' \in {inits, inits + 1}
  BY Zenon DEF Opening, InitDone, InitLock, InitNew, InitMark, head, pools, receiving, ends
<1>9. lc' \in BOOLEAN /\ constructed' \in BOOLEAN
  BY Zenon DEF Opening, InitDone, InitLock, InitNew, InitMark, head, TypeInv
<1>2. \E w \in {"open", "new", "mark"} : pc' = [pc EXCEPT ![x] = w]
  BY Zenon DEF Opening, InitDone, InitLock, InitNew, InitMark, Goto
<1>3. Calm
  BY <1>1, <1>2, Zenon DEF Calm, TypeInv, SendInv, Procs
<1>4. TypeInv'
  <2>1. pc' \in [Procs -> Places]
    BY <1>2, Zenon DEF TypeInv, Places
  <2>2. cc' \in 0..(2^Width - 1)
    BY <1>1, ChannelAssumption DEF TypeInv
  <2> QED BY <1>1, <1>9, <2>1, <2>2 DEF TypeInv
<1>5. HeadInv'
  <2>1. CASE InitDone(x)
    BY <2>1, <1>1, Zenon DEF InitDone, Goto, head, HeadInv, CountsReceivers, TypeInv, Procs
  <2>2. CASE InitLock(x)
    BY <2>2, <1>1, Zenon DEF InitLock, Goto, HeadInv, CountsReceivers, TypeInv, Procs
  <2>3. CASE InitNew(x)
    BY <2>3, <1>1 DEF InitNew, Goto, HeadInv, CountsReceivers, TypeInv, Procs
  <2>4. CASE InitMark(x)
    BY <2>4, <1>1, Zenon DEF InitMark, Goto, HeadInv, CountsReceivers, TypeInv, Procs
  <2> QED BY <2>1, <2>2, <2>3, <2>4, Zenon DEF Opening
<1>6. SendInv' /\ LogInv'
  BY <1>1, <1>3, CalmSends, Zenon
<1>7. PartialInv' /\ RefInv' /\ PoolInv'
  BY <1>1, <1>3, SamePartial, CalmRefs, SamePools, Zenon
<1>8. LostInv'
  <2>1. pc[Receiver] = "receiving" => pc'[Receiver] = "receiving"
    BY <1>1, <1>2, Zenon DEF TypeInv, Procs
  <2>2. \A k \in Chunks : Referred(k) => Referred(k)'
    BY <1>1, Zenon DEF Referred
  <2> QED BY <1>1, <2>1, <2>2, Zenon DEF LostInv
<1> QED BY <1>4, <1>5, <1>6, <1>7, <1>8, Zenon DEF IInv

\* reconnect as a receiver.
LEMMA ConnectInv ==
    ASSUME IInv, Connect
    PROVE  IInv'
<1> TypeInv /\ HeadInv /\ SendInv /\ LogInv /\ PartialInv /\ RefInv /\ PoolInv /\ LostInv
  BY Zenon DEF IInv
<1>1. /\ UNCHANGED <<lc, constructed, inits, acc, queue, popped, next_, cursor_, count, content, msg,
                     cache, held, cut, size, timeouts, leaves, ghosts>>
      /\ pc[Receiver] = "open" /\ cc' = (cc + 1) % 2^Width
  BY Zenon DEF Connect, connect_receiver, pools, receiving, ends
<1>2. /\ pc' \in [Procs -> Places]
      /\ pc'[Receiver] = "receiving"
      /\ \A s \in Senders : pc'[s] = IF pc[s] = "asleep" THEN "wait" ELSE pc[s]
  BY ChannelAssumption, Zenon DEF Connect, TypeInv, Procs, Places
<1>3. Calm
  BY <1>1, <1>2, Zenon DEF Calm, SendInv
<1>4. /\ cc' \in 0..(2^Width - 1)
      /\ cc + 1 < 2^Width => cc' = cc + 1
  BY <1>1, Counting, Zenon DEF TypeInv
<1>5. TypeInv'
  BY <1>1, <1>2, <1>4, Zenon DEF TypeInv
<1>6. HeadInv'
  <2>1. inits # 0
    BY <1>1, Zenon DEF HeadInv, Procs
  <2>2. CountsReceivers'
    <3> SUFFICES ASSUME timeouts = 0, inits <= 1
                 PROVE  cc' = ghosts + 1 /\ \A s \in Senders : pc'[s] # "asleep"
      BY <1>1, <1>2, Zenon DEF CountsReceivers
    <3>1. cc = ghosts
      BY <1>1 DEF HeadInv, CountsReceivers, TypeInv
    <3>2. cc + 1 < 2^Width
      BY <3>1, ChannelAssumption DEF TypeInv
    <3> QED BY <3>1, <3>2, <1>2, <1>4, Zenon
  <2> QED BY <2>1, <2>2, <1>1, Zenon DEF HeadInv
<1>7. SendInv' /\ LogInv'
  BY <1>1, <1>3, CalmSends, Zenon
<1>8. PartialInv' /\ RefInv' /\ PoolInv'
  BY <1>1, <1>3, SamePartial, CalmRefs, SamePools, Zenon
<1>9. LostInv'
  <2>1. \A k \in Chunks : Referred(k) => Referred(k)'
    BY <1>1, Zenon DEF Referred
  <2>2. timeouts = 0 /\ leaves = 0 => cc = 0 /\ cc' = 1
    BY <1>1, <1>4, ChannelAssumption DEF LostInv, TypeInv
  <2> QED BY <1>1, <1>2, <2>1, <2>2, Zenon DEF LostInv
<1> QED BY <1>5, <1>6, <1>7, <1>8, <1>9, Zenon DEF IInv

\* The end of the receiver: everything it kept is dropped.
LEMMA LeaveInv ==
    ASSUME IInv, NEW clean \in BOOLEAN, Leave(clean)
    PROVE  IInv'
<1> TypeInv /\ HeadInv /\ SendInv /\ LogInv /\ PartialInv /\ RefInv /\ PoolInv /\ LostInv
  BY Zenon DEF IInv
<1>1. /\ UNCHANGED <<lc, constructed, inits, acc, queue, popped, next_, cursor_, count, content, msg,
                     size, timeouts>>
      /\ pc[Receiver] = "receiving" /\ leaves < MaxLeaves /\ leaves' = leaves + 1
      /\ cut' = cut \cup DOMAIN cache /\ cache' = << >> /\ held' = {}
      /\ pc' = [pc EXCEPT ![Receiver] = "closed"]
  BY Zenon DEF Leave, Goto, pools
<1>2. \/ cc' = (cc - 1) % 2^Width /\ ghosts' = ghosts
      \/ cc' = cc /\ ghosts' = ghosts + 1
  BY Zenon DEF Leave, disconnect_receiver
<1>3. Calm
  BY <1>1, ChannelAssumption, Zenon DEF Calm, TypeInv, Procs
<1>4. /\ cc' \in 0..(2^Width - 1)
      /\ \/ cc' = cc /\ ghosts' = ghosts + 1
         \/ ghosts' = ghosts /\ (cc > 0 => cc' = cc - 1)
  BY <1>2, Counting, Zenon DEF TypeInv
<1>5. TypeInv'
  <2>1. pc' \in [Procs -> Places]
    BY <1>1, Zenon DEF TypeInv, Places
  <2>2. leaves' \in 0..MaxLeaves /\ ghosts' \in 0..leaves'
    BY <1>1, <1>4, ChannelAssumption DEF TypeInv
  <2>3. cut' \subseteq 0..(acc' - 1)
    BY <1>1, Zenon DEF TypeInv
  <2>4. DOMAIN cache' = {}
    BY <1>1
  <2> QED BY <1>1, <1>4, <2>1, <2>2, <2>3, <2>4, Zenon DEF TypeInv
<1>6. HeadInv'
  <2>1. inits # 0
    BY <1>1, Zenon DEF HeadInv, Procs
  <2>2. pc'[Receiver] = "closed"
    BY <1>1, Zenon DEF TypeInv, Procs
  <2>3. timeouts = 0 /\ inits <= 1 => cc = ghosts + 1
    BY <1>1, Zenon DEF HeadInv, CountsReceivers
  <2>4. CountsReceivers'
    BY <1>1, <1>4, <2>2, <2>3 DEF CountsReceivers, TypeInv
  <2> QED BY <2>1, <2>4, <1>1, Zenon DEF HeadInv
<1>7. SendInv' /\ LogInv'
  BY <1>1, <1>3, CalmSends, Zenon
<1>8. PartialInv'
  <2>1. ASSUME NEW id \in 0..(acc - 1) PROVE Gone(id)'
    <3>1. CASE id \in DOMAIN cache
      BY <1>1, <3>1, Zenon DEF Gone
    <3>2. CASE id \notin DOMAIN cache
      BY <1>1, <3>2, Zenon DEF Gone, PartialInv
    <3> QED BY <3>1, <3>2, Zenon
  <2> QED BY <1>1, <2>1 DEF PartialInv
<1>9. RefInv'
  BY <1>1, Zenon DEF RefInv, Carries
<1>10. PoolInv'
  BY <1>1, SamePools, Zenon
<1>11. LostInv'
  BY <1>1 DEF LostInv, TypeInv
<1> QED BY <1>5, <1>6, <1>7, <1>8, <1>9, <1>10, <1>11, Zenon DEF IInv

-----------------------------------------------------------------------------
(* Sends that fail *)

\* force_push and the failed send.
LEMMA PushTimeoutInv ==
    ASSUME IInv, NEW s \in Senders, PushTimeout(s)
    PROVE  IInv'
<1> TypeInv /\ HeadInv /\ SendInv /\ LogInv /\ PartialInv /\ RefInv /\ PoolInv /\ LostInv
  BY Zenon DEF IInv
<1>1. /\ UNCHANGED <<lc, constructed, inits, acc, queue, popped, next_, cursor_, count, content,
                     cache, held, cut, size, leaves, ghosts>>
      /\ pc[s] = "push" /\ timeouts' = timeouts + 1
      /\ pc' = [pc EXCEPT ![s] = "wait"]
  BY Zenon DEF PushTimeout, Goto, pools, receiving, ends
<1>2. \E m \in MsgType : m.chunk = None /\ msg' = [msg EXCEPT ![s] = m]
  BY Zenon DEF PushTimeout, TypeInv, NoMsg, MsgType
<1>3. Calm
  BY <1>1, <1>2, Zenon DEF Calm, TypeInv, Procs
<1>4. TypeInv'
  <2>1. pc' \in [Procs -> Places] /\ msg' \in [Senders -> MsgType]
    BY <1>1, <1>2, Zenon DEF TypeInv, Places
  <2>2. cc' \in 0..(2^Width - 1)
    BY Counting, Zenon DEF PushTimeout, force_push, disconnect_receiver, TypeInv
  <2> QED BY <1>1, <2>1, <2>2 DEF TypeInv
<1>5. HeadInv'
  <2>1. inits # 0
    BY <1>1, Zenon DEF HeadInv, Procs
  <2> QED BY <1>1, <2>1 DEF HeadInv, CountsReceivers, TypeInv
<1>6. SendInv' /\ LogInv'
  BY <1>1, <1>3, CalmSends, Zenon
<1>7. PartialInv' /\ RefInv' /\ PoolInv'
  BY <1>1, <1>3, SamePartial, CalmRefs, SamePools, Zenon
<1>8. LostInv'
  BY <1>1 DEF LostInv, TypeInv
<1> QED BY <1>4, <1>5, <1>6, <1>7, <1>8, Zenon DEF IInv

\* wait_for_recv after a failed send.
LEMMA WaitForRecvInv ==
    ASSUME IInv, NEW s \in Senders, WaitForRecv(s)
    PROVE  IInv'
<1> TypeInv /\ HeadInv /\ SendInv /\ LogInv /\ PartialInv /\ RefInv /\ PoolInv /\ LostInv
  BY Zenon DEF IInv
<1>1. /\ UNCHANGED <<cc, lc, constructed, inits, acc, queue, popped, next_, cursor_, count, content,
                     cache, held, cut, size, timeouts, leaves, ghosts>>
      /\ pc[s] = "wait"
      /\ msg' = msg \/ msg' = [msg EXCEPT ![s] = NoMsg]
  BY Zenon DEF WaitForRecv, TryAgain, GiveUp, head, pools, receiving, ends
<1>2. \E w \in {"asleep", "again", "open"} :
         pc' = [pc EXCEPT ![s] = w] /\ (w = "asleep" => cc = 0)
  BY Zenon DEF WaitForRecv, TryAgain, GiveUp, Goto
<1>3. NoMsg \in MsgType /\ NoMsg.chunk = None
  BY Zenon DEF NoMsg, MsgType
<1>4. Calm /\ \A t \in Senders : msg'[t].chunk = msg[t].chunk
  BY <1>1, <1>2, <1>3, Zenon DEF Calm, TypeInv, SendInv, Procs
<1>5. TypeInv'
  <2>1. pc' \in [Procs -> Places] /\ msg' \in [Senders -> MsgType]
    BY <1>1, <1>2, <1>3, Zenon DEF TypeInv, Places
  <2> QED BY <1>1, <2>1, Zenon DEF TypeInv
<1>6. HeadInv'
  <2>1. inits # 0
    BY <1>1, Zenon DEF HeadInv, Procs
  <2>2. pc'[Receiver] = pc[Receiver]
    BY <1>2, ChannelAssumption, Zenon DEF TypeInv, Procs
  <2>3. \A t \in Senders : pc'[t] = "asleep" => pc[t] = "asleep" \/ cc = 0
    BY <1>2, Zenon DEF TypeInv, Procs
  <2>4. timeouts = 0 /\ inits <= 1 /\ pc[Receiver] = "receiving" => cc # 0
    <3>1. ghosts \in Nat
      BY DEF TypeInv
    <3> QED BY <3>1 DEF HeadInv, CountsReceivers
  <2>5. CountsReceivers'
    BY <1>1, <2>2, <2>3, <2>4, Zenon DEF HeadInv, CountsReceivers
  <2> QED BY <1>1, <2>1, <2>5, Zenon DEF HeadInv
<1>7. SendInv' /\ LogInv'
  BY <1>1, <1>4, CalmSends, Zenon
<1>8. PartialInv' /\ RefInv' /\ PoolInv'
  BY <1>1, <1>4, SamePartial, CalmRefs, SamePools, Zenon
<1>9. LostInv'
  <2>1. pc'[Receiver] = pc[Receiver]
    BY <1>2, ChannelAssumption, Zenon DEF TypeInv, Procs
  <2>2. \A k \in Chunks : Referred(k) => Referred(k)'
    BY <1>1, <1>4, Zenon DEF Referred
  <2> QED BY <1>1, <2>1, <2>2, Zenon DEF LostInv
<1> QED BY <1>5, <1>6, <1>7, <1>8, <1>9, Zenon DEF IInv

-----------------------------------------------------------------------------
(* send *)

\* The count of receivers, in a step of a sender that does not fall asleep.
LEMMA SenderHead ==
    ASSUME IInv, NEW s \in Senders, pc[s] \notin {"closed", "new"},
           NEW w \in Places \ {"asleep"}, pc' = [pc EXCEPT ![s] = w],
           UNCHANGED <<cc, constructed, inits, ghosts, timeouts>>
    PROVE  HeadInv'
<1> TypeInv /\ HeadInv
  BY Zenon DEF IInv
<1>1. inits # 0
  BY Zenon DEF HeadInv, Procs
<1>2. pc'[Receiver] = pc[Receiver]
  BY ChannelAssumption, Zenon DEF TypeInv, Procs
<1>3. \A t \in Senders : pc'[t] = "asleep" => pc[t] = "asleep"
  BY Zenon DEF TypeInv, Procs
<1> QED BY <1>1, <1>2, <1>3, Zenon DEF HeadInv, CountsReceivers

\* A send with no receiver.
LEMMA SendFails ==
    ASSUME IInv, NEW s \in Senders, NEW n \in Sizes, Send(s, n), cc = 0
    PROVE  IInv'
<1> TypeInv /\ HeadInv /\ SendInv /\ LogInv /\ PartialInv /\ RefInv /\ PoolInv /\ LostInv
  BY Zenon DEF IInv
<1>1. /\ UNCHANGED <<cc, lc, constructed, inits, acc, queue, popped, next_, cursor_, count, content,
                     cache, held, cut, size, timeouts, leaves, ghosts>>
      /\ pc[s] \in {"open", "again"}
      /\ pc' = [pc EXCEPT ![s] = "wait"]
  BY Zenon DEF Send, Goto, head, pools, receiving, ends
<1>2. \E m \in MsgType : m.chunk = None /\ msg' = [msg EXCEPT ![s] = m]
  BY ChannelAssumption, Zenon DEF Send, NoMsg, MsgType
<1>3. Calm /\ \A t \in Senders : msg'[t].chunk = msg[t].chunk
  BY <1>1, <1>2, Zenon DEF Calm, TypeInv, SendInv, Procs
<1>4. TypeInv'
  <2>1. pc' \in [Procs -> Places] /\ msg' \in [Senders -> MsgType]
    BY <1>1, <1>2, Zenon DEF TypeInv, Places
  <2> QED BY <1>1, <2>1, Zenon DEF TypeInv
<1>5. HeadInv'
  BY <1>1, SenderHead, Zenon DEF Places
<1>6. SendInv' /\ LogInv'
  BY <1>1, <1>3, CalmSends, Zenon
<1>7. PartialInv' /\ RefInv' /\ PoolInv'
  BY <1>1, <1>3, SamePartial, CalmRefs, SamePools, Zenon
<1>8. LostInv'
  <2>1. pc'[Receiver] = pc[Receiver]
    BY <1>1, ChannelAssumption, Zenon DEF TypeInv, Procs
  <2>2. \A k \in Chunks : Referred(k) => Referred(k)'
    BY <1>1, <1>3, Zenon DEF Referred
  <2> QED BY <1>1, <2>1, <2>2, Zenon DEF LostInv
<1> QED BY <1>4, <1>5, <1>6, <1>7, <1>8, Zenon DEF IInv

\* A send that draws an id.
LEMMA SendDraws ==
    ASSUME IInv, NEW s \in Senders, NEW n \in Sizes, Send(s, n), cc # 0
    PROVE  IInv'
<1> TypeInv /\ HeadInv /\ SendInv /\ LogInv /\ PartialInv /\ RefInv /\ PoolInv /\ LostInv
  BY Zenon DEF IInv
<1>1. /\ UNCHANGED <<cc, lc, constructed, inits, queue, popped, next_, cursor_, count, content,
                     cache, held, cut, timeouts, leaves, ghosts>>
      /\ pc[s] \in {"open", "again"} /\ acc < MaxIds /\ acc' = acc + 1
      /\ pc' = [pc EXCEPT ![s] = IF n > 1 THEN "storage" ELSE "push"]
  BY Zenon DEF Send, Goto, head, pools, receiving, ends
<1>2. size' = [i \in 0..acc |-> IF i = acc THEN n ELSE size[i]]
  BY Zenon DEF Send
<1>3. n \in Nat \ {0} /\ acc \in Nat
  BY ChannelAssumption DEF TypeInv
<1>4. size' \in [0..acc -> Sizes] /\ size'[acc] = n /\ \A i \in 0..(acc - 1) : size'[i] = size[i]
  BY <1>2, <1>3 DEF TypeInv
<1>5. PICK m \in MsgType : /\ m.len = n /\ m.id = acc /\ m.frag = 1 /\ m.chunk = None
                           /\ msg' = [msg EXCEPT ![s] = m]
  BY <1>3, Zenon DEF Send, NoMsg, MsgType
<1>6. /\ msg'[s] = m /\ \A t \in Senders \ {s} : msg'[t] = msg[t] /\ pc'[t] = pc[t]
      /\ pc'[s] = IF n > 1 THEN "storage" ELSE "push"
      /\ pc'[Receiver] = pc[Receiver]
  BY <1>1, <1>5, ChannelAssumption, Zenon DEF TypeInv, Procs
<1>7. msg[s].chunk = None
  BY <1>1, Zenon DEF SendInv
<1>8. TypeInv'
  <2>1. pc' \in [Procs -> Places] /\ msg' \in [Senders -> MsgType]
    BY <1>1, <1>5, Zenon DEF TypeInv, Places
  <2>2. acc' \in 0..MaxIds /\ size' \in [0..(acc' - 1) -> Sizes]
    <3>1. acc' - 1 = acc
      BY <1>1, <1>3
    <3> QED BY <3>1, <1>1, <1>3, <1>4, ChannelAssumption
  <2>3. 0..(acc - 1) \subseteq 0..(acc' - 1)
    BY <1>1, <1>3
  <2>4. /\ content' \in [Chunks -> (0..(acc' - 1)) \cup {None}]
        /\ DOMAIN cache' \subseteq 0..(acc' - 1) /\ cut' \subseteq 0..(acc' - 1)
        /\ held' \subseteq [id : 0..(acc' - 1), chunk : Chunks]
    BY <1>1, <2>3, Zenon DEF TypeInv
  <2> QED BY <1>1, <2>1, <2>2, <2>4, Zenon DEF TypeInv
<1>9. HeadInv'
  BY <1>1, SenderHead, Zenon DEF Places
<1>10. SendInv'
  <2>1. ASSUME NEW t \in Senders
        PROVE  (/\ Busy(t) => /\ msg[t].id \in 0..(acc - 1) /\ msg[t].len = size[msg[t].id]
                              /\ msg[t].frag \in 1..msg[t].len
                /\ msg[t].chunk # None => pc[t] = "push" /\ msg[t].frag = 1 /\ msg[t].len > 1
                /\ pc[t] = "storage" => msg[t].frag = 1 /\ msg[t].len > 1)'
    <3>1. CASE t = s
      BY <3>1, <1>1, <1>3, <1>4, <1>5, <1>6
    <3>2. CASE t # s
      BY <3>2, <1>1, <1>3, <1>4, <1>6 DEF SendInv, Busy
    <3> QED BY <3>1, <3>2, Zenon
  <2>2. ASSUME NEW t \in Senders, NEW u \in Senders, (Busy(t) /\ Busy(u) /\ msg[t].id = msg[u].id)'
        PROVE  t = u
    BY <2>2, <1>3, <1>5, <1>6 DEF SendInv, Busy
  <2> QED BY <2>1, <2>2, Zenon DEF SendInv
<1>11. LogInv'
  <2>1. Log' = Log
    BY <1>1, Zenon DEF Log
  <2>2. ASSUME NEW i \in 1..Len(Log) PROVE Fits(Log[i])' /\ Log[i].id # acc
    BY <2>1, <1>1, <1>3, <1>4 DEF LogInv, Fits
  <2>3. InOrder(Log)' /\ NoGaps(Log)'
    BY <2>1, Zenon DEF LogInv, InOrder, NoGaps
  <2>4. ASSUME NEW t \in Senders PROVE Ahead(Log, t)'
    <3>1. CASE t = s
      BY <3>1, <2>1, <2>2, <1>5, <1>6 DEF Ahead
    <3>2. CASE t # s
      BY <3>2, <2>1, <1>6 DEF LogInv, Ahead, Busy
    <3> QED BY <3>1, <3>2, Zenon
  <2> QED BY <2>1, <2>2, <2>3, <2>4, Zenon DEF LogInv
<1>12. PartialInv'
  <2>1. ASSUME NEW id \in DOMAIN cache PROVE KeptPart(id)'
    <3>1. size'[id] = size[id]
      BY <1>4, Zenon DEF TypeInv
    <3>2. KeptPart(id)
      BY Zenon DEF PartialInv
    <3> QED BY <1>1, <3>1, <3>2, Zenon DEF KeptPart, LastPopped
  <2>2. ASSUME NEW id \in 0..(acc - 1), id \notin DOMAIN cache PROVE Gone(id)'
    <3>1. size'[id] = size[id]
      BY <1>4, Zenon
    <3>2. Gone(id)
      BY <2>2, Zenon DEF PartialInv
    <3> QED BY <1>1, <3>1, <3>2, Zenon DEF Gone
  <2>3. ASSUME NEW id, id = acc PROVE Gone(id)'
    <3>1. \A i \in 1..Len(popped) : i \in 1..Len(Log) /\ Log[i] = popped[i]
      BY DEF Log, TypeInv
    <3>2. \A i \in 1..Len(popped) : popped[i].id # acc
      BY <3>1, <1>3 DEF LogInv, Fits
    <3> QED BY <1>1, <2>3, <3>2, Zenon DEF Gone
  <2>4. 0..(acc' - 1) = 0..(acc - 1) \cup {acc}
    BY <1>1, <1>3
  <2> QED BY <1>1, <2>1, <2>2, <2>3, <2>4, Zenon DEF PartialInv
<1>13. RefInv'
  BY <1>1, <1>5, <1>6 DEF RefInv, Carries
<1>14. PoolInv'
  BY <1>1, SamePools, Zenon
<1>15. LostInv'
  <2>1. \A k \in Chunks : Referred(k) => Referred(k)'
    BY <1>1, <1>6, <1>7, ChunkFacts, Zenon DEF Referred
  <2> QED BY <1>1, <1>6, <2>1, Zenon DEF LostInv
<1> QED BY <1>8, <1>9, <1>10, <1>11, <1>12, <1>13, <1>14, <1>15, Zenon DEF IInv

\* id_pool::acquire takes the first chunk off the free list.
LEMMA AcquireList ==
    ASSUME IInv, NEW n \in Classes, NEW c \in Nat \ {0},
           cursor_[n] \in 0..(ChunksPerSize - 1), acquire(n),
           count' = [count EXCEPT ![<<n, cursor_[n]>>] = c]
    PROVE  count[<<n, cursor_[n]>>] = 0 /\ PoolInv'
<1> TypeInv /\ PoolInv
  BY Zenon DEF IInv
<1>1. PICK l \in Seq(0..(ChunksPerSize - 1)) : FreeList(n, l)
  BY Zenon DEF PoolInv
<1>2. PICK i \in 0..(ChunksPerSize - 1) : i = cursor_[n]
  BY Zenon
<1>3. l # << >> /\ l[1] = i
  BY <1>1, <1>2, ChannelAssumption DEF FreeList
<1>4. Len(l) \in Nat \ {0} /\ 1 \in 1..Len(l)
  BY <1>3
<1>5. count[<<n, i>>] = 0
  BY <1>1, <1>3, <1>4, Zenon DEF FreeList
<1>6. /\ cursor_' = [cursor_ EXCEPT ![n] = next_[<<n, i>>]] /\ next_' = next_
      /\ count' = [count EXCEPT ![<<n, i>>] = c]
  BY <1>2, Zenon DEF acquire
<1>7. /\ \A m \in Classes, j \in 0..(ChunksPerSize - 1) :
           count'[<<m, j>>] = IF m = n /\ j = i THEN c ELSE count[<<m, j>>]
      /\ \A m \in Classes \ {n} : cursor_'[m] = cursor_[m]
      /\ cursor_'[n] = next_[<<n, i>>]
  BY <1>6, ChunkFacts, Zenon DEF TypeInv
<1>8. FreeList(n, Tail(l))'
  <2> DEFINE r == Tail(l)
  <2>1. r \in Seq(0..(ChunksPerSize - 1)) /\ Len(r) = Len(l) - 1 /\ \A j \in 1..Len(r) : r[j] = l[j + 1]
    BY <1>3
  <2> HIDE DEF r
  <2>2. r = << >> <=> Len(l) = 1
    BY <2>1, <1>4
  <2>8. \A j \in 1..Len(r) : j + 1 \in 1..Len(l) /\ r[j] = l[j + 1]
    BY <2>1, <1>4
  <2>3. ASSUME NEW a \in 1..Len(r), NEW b \in 1..Len(r), r[a] = r[b] PROVE a = b
    <3>1. a + 1 = b + 1
      BY <2>3, <2>8, <1>1 DEF FreeList
    <3> QED BY <3>1
  <2>4. cursor_'[n] = IF r = << >> THEN ChunksPerSize ELSE r[1]
    BY <1>1, <1>3, <1>4, <1>7, <2>1, <2>2 DEF FreeList
  <2>5. ASSUME NEW j \in 1..Len(r)
        PROVE  next_[<<n, r[j]>>] = IF j = Len(r) THEN ChunksPerSize ELSE r[j + 1]
    <3>1. j + 1 \in 1..Len(l) /\ r[j] = l[j + 1] /\ (j # Len(r) => r[j + 1] = l[(j + 1) + 1])
      BY <2>1, <1>4
    <3>2. next_[<<n, l[j + 1]>>] = IF j + 1 = Len(l) THEN ChunksPerSize ELSE l[(j + 1) + 1]
      BY <3>1, <1>1, Zenon DEF FreeList
    <3>3. j + 1 = Len(l) <=> j = Len(r)
      BY <2>1, <1>4
    <3> QED BY <3>1, <3>2, <3>3, Zenon
  <2>6. ASSUME NEW x \in 0..(ChunksPerSize - 1)
        PROVE  count'[<<n, x>>] = 0 <=> \E j \in 1..Len(r) : r[j] = x
    <3>1. CASE x = i
      <4>1. \A j \in 1..Len(r) : r[j] # i
        BY <1>1, <1>3, <1>4, <2>1 DEF FreeList
      <4> QED BY <3>1, <4>1, <1>7
    <3>2. CASE x # i
      <4>1. ASSUME NEW j \in 1..Len(l), l[j] = x PROVE j - 1 \in 1..Len(r) /\ r[j - 1] = x
        BY <4>1, <3>2, <1>3, <1>4, <2>1
      <4>2. (\E j \in 1..Len(l) : l[j] = x) <=> (\E j \in 1..Len(r) : r[j] = x)
        BY <4>1, <2>1, <1>4
      <4> QED BY <3>2, <4>2, <1>1, <1>7 DEF FreeList
    <3> QED BY <3>1, <3>2, Zenon
  <2>7. FreeList(n, r)'
    BY <1>6, <2>3, <2>4, <2>5, <2>6, Zenon DEF FreeList
  <2> QED BY <2>7, Zenon DEF r
<1>9. ASSUME NEW m \in Classes, m # n
      PROVE  \E q \in Seq(0..(ChunksPerSize - 1)) : FreeList(m, q)'
  <2>1. PICK q \in Seq(0..(ChunksPerSize - 1)) : FreeList(m, q)
    BY Zenon DEF PoolInv
  <2>2. FreeList(m, q)'
    BY <1>6, <1>7, <1>9, <2>1 DEF FreeList
  <2> QED BY <2>2, Zenon
<1>10. Tail(l) \in Seq(0..(ChunksPerSize - 1))
  BY <1>3
<1> QED BY <1>2, <1>5, <1>8, <1>9, <1>10, Zenon DEF PoolInv

\* id_pool::release puts a chunk that is not free first.
LEMMA ReleaseList ==
    ASSUME IInv, NEW n \in Classes, NEW i \in 0..(ChunksPerSize - 1),
           count[<<n, i>>] # 0,
           next_' = [next_ EXCEPT ![<<n, i>>] = cursor_[n]],
           cursor_' = [cursor_ EXCEPT ![n] = i],
           count' = [count EXCEPT ![<<n, i>>] = 0]
    PROVE  PoolInv'
<1> TypeInv /\ PoolInv
  BY Zenon DEF IInv
<1>1. PICK l \in Seq(0..(ChunksPerSize - 1)) : FreeList(n, l)
  BY Zenon DEF PoolInv
<1>2. /\ \A m \in Classes, j \in 0..(ChunksPerSize - 1) :
           /\ count'[<<m, j>>] = IF m = n /\ j = i THEN 0 ELSE count[<<m, j>>]
           /\ next_'[<<m, j>>] = IF m = n /\ j = i THEN cursor_[n] ELSE next_[<<m, j>>]
      /\ \A m \in Classes \ {n} : cursor_'[m] = cursor_[m]
      /\ cursor_'[n] = i
  BY ChunkFacts, Zenon DEF TypeInv
<1>3. \A j \in 1..Len(l) : l[j] # i
  BY <1>1, Zenon DEF FreeList
<1> DEFINE r == <<i>> \o l
<1>4. /\ r \in Seq(0..(ChunksPerSize - 1)) /\ Len(r) = Len(l) + 1 /\ r # << >>
      /\ r[1] = i /\ \A j \in 2..Len(r) : r[j] = l[j - 1]
  OBVIOUS
<1>5. Len(l) \in Nat /\ (l = << >> <=> Len(l) = 0)
  OBVIOUS
<1> HIDE DEF r
<1>6. \A a \in 1..Len(r) : a # 1 => \E y \in 1..Len(l) : a = y + 1 /\ r[a] = l[y]
  BY <1>4, <1>5
<1>7. FreeList(n, r)'
  <2>1. ASSUME NEW a \in 1..Len(r), NEW b \in 1..Len(r), r[a] = r[b] PROVE a = b
    <3>1. CASE a = 1 /\ b # 1
      BY <2>1, <3>1, <1>3, <1>4, <1>6, Zenon
    <3>2. CASE a # 1 /\ b = 1
      BY <2>1, <3>2, <1>3, <1>4, <1>6, Zenon
    <3>3. CASE a # 1 /\ b # 1
      <4>1. PICK x \in 1..Len(l) : a = x + 1 /\ r[a] = l[x]
        BY <3>3, <1>6, Zenon
      <4>2. PICK y \in 1..Len(l) : b = y + 1 /\ r[b] = l[y]
        BY <3>3, <1>6, Zenon
      <4>3. l[x] = l[y]
        BY <4>1, <4>2, <2>1, Zenon
      <4>4. x = y
        BY <4>3, <1>1, Zenon DEF FreeList
      <4> QED BY <4>1, <4>2, <4>4, Zenon
    <3> QED BY <3>1, <3>2, <3>3, Zenon
  <2>2. next_'[<<n, i>>] = IF Len(r) = 1 THEN ChunksPerSize ELSE r[2]
    BY <1>1, <1>2, <1>4, <1>5 DEF FreeList
  <2>3. ASSUME NEW j \in 2..Len(r)
        PROVE  next_'[<<n, r[j]>>] = IF j = Len(r) THEN ChunksPerSize ELSE r[j + 1]
    <3>1. j - 1 \in 1..Len(l) /\ r[j] = l[j - 1]
      BY <1>4, <1>5
    <3>2. ASSUME j # Len(r) PROVE r[j + 1] = l[j]
      <4>1. j + 1 \in 2..Len(r) /\ (j + 1) - 1 = j
        BY <1>4, <1>5, <3>2
      <4> QED BY <4>1, <1>4, Zenon
    <3>3. l[j - 1] \in 0..(ChunksPerSize - 1) /\ l[j - 1] # i
      <4>1. PICK y \in 1..Len(l) : y = j - 1
        BY <3>1, Zenon
      <4>2. l[y] \in 0..(ChunksPerSize - 1)
        BY ChannelAssumption
      <4> QED BY <4>1, <4>2, <1>3, Zenon
    <3>4. next_'[<<n, l[j - 1]>>] = next_[<<n, l[j - 1]>>]
      BY <3>3, <1>2
    <3>5. next_[<<n, l[j - 1]>>] = IF j - 1 = Len(l) THEN ChunksPerSize ELSE l[j]
      BY <3>1, <1>1 DEF FreeList
    <3> QED BY <3>1, <3>2, <3>4, <3>5, <1>4, <1>5
  <2>4. ASSUME NEW x \in 0..(ChunksPerSize - 1)
        PROVE  count'[<<n, x>>] = 0 <=> \E j \in 1..Len(r) : r[j] = x
    <3>1. CASE x = i
      BY <3>1, <1>2, <1>4, <1>5
    <3>2. CASE x # i
      <4>1. ASSUME NEW j \in 1..Len(l) PROVE j + 1 \in 1..Len(r) /\ r[j + 1] = l[j]
        BY <1>4, <1>5
      <4>2. ASSUME NEW j \in 1..Len(r), r[j] = x PROVE j - 1 \in 1..Len(l) /\ l[j - 1] = x
        BY <4>2, <3>2, <1>4, <1>5
      <4>3. (\E j \in 1..Len(l) : l[j] = x) <=> (\E j \in 1..Len(r) : r[j] = x)
        BY <4>1, <4>2, Zenon
      <4> QED BY <3>2, <4>3, <1>1, <1>2 DEF FreeList
    <3> QED BY <3>1, <3>2, Zenon
  <2>5. \A j \in 1..Len(r) : next_'[<<n, r[j]>>] = IF j = Len(r) THEN ChunksPerSize ELSE r[j + 1]
    <3>1. \A j \in 1..Len(r) : j = 1 \/ j \in 2..Len(r)
      BY <1>4, <1>5
    <3>2. next_'[<<n, r[1]>>] = IF 1 = Len(r) THEN ChunksPerSize ELSE r[1 + 1]
      BY <2>2, <1>4
    <3> QED BY <2>3, <3>1, <3>2, Zenon
  <2> QED BY <2>1, <2>4, <2>5, <1>2, <1>4, Zenon DEF FreeList
<1>8. ASSUME NEW m \in Classes, m # n
      PROVE  \E q \in Seq(0..(ChunksPerSize - 1)) : FreeList(m, q)'
  <2>1. PICK q \in Seq(0..(ChunksPerSize - 1)) : FreeList(m, q)
    BY Zenon DEF PoolInv
  <2>2. FreeList(m, q)'
    BY <1>2, <1>8, <2>1 DEF FreeList
  <2> QED BY <2>2, Zenon
<1> QED BY <1>4, <1>7, <1>8, Zenon DEF PoolInv

\* A large message takes a chunk or is cut up.
LEMMA StorageInv ==
    ASSUME IInv, NEW s \in Senders, Storage(s)
    PROVE  IInv'
<1> TypeInv /\ HeadInv /\ SendInv /\ LogInv /\ PartialInv /\ RefInv /\ PoolInv /\ LostInv
  BY Zenon DEF IInv
<1>1. /\ UNCHANGED <<cc, lc, constructed, inits, acc, queue, popped,
                     cache, held, cut, size, timeouts, leaves, ghosts>>
      /\ pc[s] = "storage" /\ pc' = [pc EXCEPT ![s] = "push"]
  BY Zenon DEF Storage, Goto, head, receiving, ends
<1> DEFINE n == msg[s].len
           k == <<n, cursor_[n]>>
<1>2. /\ msg[s].id \in 0..(acc - 1) /\ n = size[msg[s].id] /\ msg[s].frag = 1 /\ n > 1
      /\ msg[s].chunk = None
  BY <1>1, Zenon DEF SendInv, Busy
<1>3. n \in Classes
  BY <1>2, ChannelAssumption DEF TypeInv, Classes
<1>4. PICK c \in Chunks \cup {None} :
         /\ msg' = [msg EXCEPT ![s].chunk = c]
         /\ c = None => UNCHANGED <<next_, cursor_, count, content>>
         /\ c # None => /\ c = k /\ cc # 0 /\ acquire(n)
                        /\ count' = [count EXCEPT ![c] = cc]
                        /\ content' = [content EXCEPT ![c] = msg[s].id]
  <2>1. CASE cc # 0 /\ k \in Chunks
    <3>1. /\ msg' = [msg EXCEPT ![s].chunk = k]
          /\ acquire(k[1]) /\ k[1] = n
          /\ count' = [count EXCEPT ![k] = cc]
          /\ content' = [content EXCEPT ![k] = msg[s].id]
      BY <2>1, Zenon DEF Storage, apply_storage
    <3> QED BY <2>1, <3>1, ChunkFacts, Zenon
  <2>2. CASE ~(cc # 0 /\ k \in Chunks)
    <3>1. msg' = msg /\ UNCHANGED <<next_, cursor_, count, content>>
      BY <2>2, Zenon DEF Storage, pools
    <3>2. [msg EXCEPT ![s].chunk = None] = msg
      BY <1>2, Zenon DEF TypeInv, MsgType
    <3> QED BY <3>1, <3>2, Zenon
  <2> QED BY <2>1, <2>2, Zenon
<1>5. /\ msg'[s] \in MsgType /\ msg'[s].len = n /\ msg'[s].id = msg[s].id
      /\ msg'[s].frag = 1 /\ msg'[s].chunk = c
      /\ \A t \in Senders \ {s} : msg'[t] = msg[t] /\ pc'[t] = pc[t]
      /\ pc'[s] = "push" /\ pc'[Receiver] = pc[Receiver]
  <2>1. msg[s] \in MsgType /\ msg'[s] = [msg[s] EXCEPT !.chunk = c]
    BY <1>4, Zenon DEF TypeInv
  <2>2. \A t \in Senders \ {s} : msg'[t] = msg[t]
    BY <1>4, Zenon DEF TypeInv
  <2>3. /\ \A t \in Senders \ {s} : pc'[t] = pc[t]
        /\ pc'[s] = "push" /\ pc'[Receiver] = pc[Receiver]
    BY <1>1, ChannelAssumption, Zenon DEF TypeInv, Procs
  <2> QED BY <2>1, <2>2, <2>3, <1>2, Zenon DEF MsgType
<1>6. c # None => /\ c = <<n, cursor_[n]>> /\ cursor_[n] \in 0..(ChunksPerSize - 1)
                  /\ cc \in Nat \ {0} /\ c \in Chunks
  BY <1>4, ChunkFacts DEF TypeInv, Chunks
<1>7. PoolInv' /\ (c # None => count[c] = 0)
  <2>1. CASE c = None
    BY <2>1, <1>4, SamePools, Zenon
  <2>2. CASE c # None
    BY <2>2, <1>3, <1>4, <1>6, AcquireList, Zenon
  <2> QED BY <2>1, <2>2, Zenon
<1>8. TypeInv'
  <2>1. pc' \in [Procs -> Places] /\ msg' \in [Senders -> MsgType]
    <3>1. msg' = [msg EXCEPT ![s] = msg'[s]]
      BY <1>4, Zenon DEF TypeInv
    <3> QED BY <3>1, <1>1, <1>5, Zenon DEF TypeInv, Places
  <2>2. /\ next_' \in [Chunks -> 0..ChunksPerSize] /\ cursor_' \in [Classes -> 0..ChunksPerSize]
        /\ count' \in [Chunks -> 0..(2^Width - 1)]
        /\ content' \in [Chunks -> (0..(acc - 1)) \cup {None}]
    <3>1. CASE c = None
      BY <3>1, <1>4, Zenon DEF TypeInv
    <3>2. CASE c # None
      <4>1. next_' = next_ /\ cursor_' = [cursor_ EXCEPT ![n] = next_[c]]
        BY <3>2, <1>4, Zenon DEF acquire
      <4>2. next_[c] \in 0..ChunksPerSize
        BY <3>2, <1>6, Zenon DEF TypeInv
      <4>3. cursor_' \in [Classes -> 0..ChunksPerSize]
        BY <4>1, <4>2, Zenon DEF TypeInv
      <4>4. count' \in [Chunks -> 0..(2^Width - 1)]
        BY <3>2, <1>4, Zenon DEF TypeInv
      <4>5. content' \in [Chunks -> (0..(acc - 1)) \cup {None}]
        BY <3>2, <1>2, <1>4, Zenon DEF TypeInv
      <4> QED BY <4>1, <4>3, <4>4, <4>5, Zenon DEF TypeInv
    <3> QED BY <3>1, <3>2, Zenon
  <2> QED BY <1>1, <2>1, <2>2, Zenon DEF TypeInv
<1>9. HeadInv'
  BY <1>1, SenderHead, Zenon DEF Places
<1>10. SendInv'
  <2>1. ASSUME NEW t \in Senders
        PROVE  (/\ Busy(t) => /\ msg[t].id \in 0..(acc - 1) /\ msg[t].len = size[msg[t].id]
                              /\ msg[t].frag \in 1..msg[t].len
                /\ msg[t].chunk # None => pc[t] = "push" /\ msg[t].frag = 1 /\ msg[t].len > 1
                /\ pc[t] = "storage" => msg[t].frag = 1 /\ msg[t].len > 1)'
    <3>1. CASE t = s
      BY <3>1, <1>1, <1>2, <1>5 DEF MsgType
    <3>2. CASE t # s
      BY <3>2, <1>1, <1>5 DEF SendInv, Busy
    <3> QED BY <3>1, <3>2, Zenon
  <2>2. ASSUME NEW t \in Senders, NEW u \in Senders, (Busy(t) /\ Busy(u) /\ msg[t].id = msg[u].id)'
        PROVE  t = u
    <3>1. \A v \in Senders : Busy(v)' => Busy(v) /\ msg'[v].id = msg[v].id
      BY <1>1, <1>5, Zenon DEF Busy
    <3> QED BY <2>2, <3>1, Zenon DEF SendInv
  <2> QED BY <2>1, <2>2, Zenon DEF SendInv
<1>11. LogInv'
  <2>1. Log' = Log
    BY <1>1, Zenon DEF Log
  <2>2. \A i \in 1..Len(Log) : Fits(Log[i])'
    BY <2>1, <1>1, Zenon DEF LogInv, Fits
  <2>3. InOrder(Log)' /\ NoGaps(Log)'
    BY <2>1 DEF LogInv, InOrder, NoGaps
  <2>4. ASSUME NEW t \in Senders PROVE Ahead(Log, t)'
    <3>1. CASE t = s
      <4>1. \A i \in 1..Len(Log) : Log[i].id = msg[s].id => Log[i].chunk = None /\ Log[i].piece < 1
        BY <1>1, <1>2, Zenon DEF LogInv, Ahead, Busy
      <4>2. ASSUME NEW i \in 1..Len(Log) PROVE Log[i].id # msg[s].id
        <5>1. Log[i].id \in 0..(acc - 1) /\ (Log[i].chunk = None => Log[i].piece \in 1..size[Log[i].id])
          BY Zenon DEF LogInv, Fits
        <5>2. size[Log[i].id] \in Nat
          BY <5>1, ChannelAssumption, Zenon DEF TypeInv
        <5> QED BY <4>1, <5>1, <5>2
      <4> QED BY <3>1, <4>2, <2>1, <1>5 DEF Ahead
    <3>2. CASE t # s
      BY <3>2, <2>1, <1>5 DEF LogInv, Ahead, Busy
    <3> QED BY <3>1, <3>2, Zenon
  <2> QED BY <2>1, <2>2, <2>3, <2>4, Zenon DEF LogInv
<1>12. PartialInv'
  BY <1>1, SamePartial, Zenon
<1>13. RefInv'
  <2>1. CASE c = None
    BY <2>1, <1>1, <1>4, <1>5 DEF RefInv, Carries
  <2>2. CASE c # None
    <3>1. Carries(c, msg[s].id)'
      <4>1. content'[c] = msg[s].id /\ count'[c] = cc
        BY <2>2, <1>4, <1>6, Zenon DEF TypeInv
      <4> QED BY <2>2, <4>1, <1>4, <1>5, <1>6, Zenon DEF Carries
    <3>2. ASSUME NEW x \in Chunks, NEW id, Carries(x, id) PROVE Carries(x, id)'
      BY <3>2, <2>2, <1>4, <1>6, <1>7, Zenon DEF Carries, TypeInv
    <3>3. ASSUME NEW t \in Senders, msg'[t].chunk # None PROVE Carries(msg[t].chunk, msg[t].id)'
      <4>1. CASE t = s
        BY <4>1, <3>1, <1>5, Zenon
      <4>2. CASE t # s
        <5>1. msg'[t] = msg[t] /\ msg[t].chunk \in Chunks /\ Carries(msg[t].chunk, msg[t].id)
          BY <4>2, <3>3, <1>5 DEF TypeInv, MsgType, RefInv
        <5> QED BY <5>1, <3>2, Zenon
      <4> QED BY <4>1, <4>2, Zenon
    <3>4. ASSUME NEW i \in 1..Len(queue), queue[i].chunk # None PROVE Carries(queue[i].chunk, queue[i].id)'
      <4>1. queue[i].chunk \in Chunks /\ Carries(queue[i].chunk, queue[i].id)
        <5>1. queue[i] \in ItemType
          BY DEF TypeInv
        <5> QED BY <5>1, <3>4, Zenon DEF ItemType, RefInv
      <4> QED BY <4>1, <3>2, <1>1, Zenon
    <3>5. ASSUME NEW h \in held PROVE Carries(h.chunk, h.id)'
      <4>1. h.chunk \in Chunks /\ Carries(h.chunk, h.id)
        BY Zenon DEF TypeInv, RefInv
      <4> QED BY <4>1, <3>2, Zenon
    <3> QED BY <3>3, <3>4, <3>5, <1>1, Zenon DEF RefInv
  <2> QED BY <2>1, <2>2, Zenon
<1>14. LostInv'
  <2> SUFFICES ASSUME timeouts = 0, leaves = 0, NEW x \in Chunks, count'[x] # 0
               PROVE  count'[x] = 1 /\ Referred(x)'
    BY <1>1, <1>5, Zenon DEF LostInv
  <2>1. CASE x = c
    <3>1. cc = 1 /\ c # None
      BY <2>1, <1>4, ChunkFacts, Zenon DEF LostInv
    <3>2. count'[c] = 1
      BY <2>1, <3>1, <1>4, Zenon DEF TypeInv
    <3> QED BY <2>1, <3>2, <1>5, Zenon DEF Referred
  <2>2. CASE x # c
    <3>1. count'[x] = count[x]
      BY <2>2, <1>4, Zenon DEF TypeInv
    <3>2. count[x] = 1 /\ Referred(x)
      BY <3>1, Zenon DEF LostInv
    <3>3. Referred(x)'
      BY <2>2, <3>2, <1>1, <1>2, <1>5, ChunkFacts, Zenon DEF Referred
    <3> QED BY <3>1, <3>2, <3>3, Zenon
  <2> QED BY <2>1, <2>2, Zenon
<1> QED BY <1>7, <1>8, <1>9, <1>10, <1>11, <1>12, <1>13, <1>14, Zenon DEF IInv

\* The next fragment of a message, or a first item of it, keeps the log in order.
LEMMA LogGrows ==
    ASSUME NEW L \in Seq(ItemType), NEW m \in ItemType, InOrder(L), NoGaps(L),
           \A i \in 1..Len(L) : L[i].id = m.id =>
               L[i].chunk = None /\ m.chunk = None /\ L[i].piece < m.piece,
           m.piece > 1 => \E i \in 1..Len(L) : L[i].id = m.id /\ L[i].piece = m.piece - 1
    PROVE  InOrder(Append(L, m)) /\ NoGaps(Append(L, m))
<1> DEFINE A == Append(L, m)
<1>1. /\ Len(A) = Len(L) + 1 /\ Len(L) \in Nat
      /\ A[Len(L) + 1] = m /\ \A i \in 1..Len(L) : A[i] = L[i]
  OBVIOUS
<1> HIDE DEF A
<1>2. ASSUME NEW i \in 1..Len(A), NEW j \in 1..Len(A), i < j, A[i].id = A[j].id
      PROVE  A[i].chunk = None /\ A[j].chunk = None /\ A[i].piece < A[j].piece
  <2>1. i \in 1..Len(L)
    BY <1>1, <1>2
  <2>2. CASE j = Len(L) + 1
    BY <2>1, <2>2, <1>1, <1>2, Zenon
  <2>3. CASE j \in 1..Len(L)
    BY <2>1, <2>3, <1>1, <1>2 DEF InOrder
  <2> QED BY <2>2, <2>3, <1>1
<1>3. ASSUME NEW j \in 1..Len(A), A[j].piece > 1
      PROVE  \E i \in 1..(j - 1) : A[i].id = A[j].id /\ A[i].piece = A[j].piece - 1
  <2>1. CASE j = Len(L) + 1
    BY <2>1, <1>1, <1>3
  <2>2. CASE j \in 1..Len(L)
    <3>1. PICK i \in 1..(j - 1) : L[i].id = L[j].id /\ L[i].piece = L[j].piece - 1
      BY <2>2, <1>1, <1>3, Zenon DEF NoGaps
    <3> QED BY <2>2, <3>1, <1>1
  <2> QED BY <2>1, <2>2, <1>1
<1> QED BY <1>2, <1>3, Zenon DEF InOrder, NoGaps, A

\* What a send pushes next: a fragment of its message, or the chunk with all of it.
LEMMA ItemFits ==
    ASSUME IInv, NEW s \in Senders, pc[s] = "push"
    PROVE  /\ Item(s) \in ItemType /\ Fits(Item(s))
           /\ Item(s).id = msg[s].id /\ Item(s).chunk = msg[s].chunk
           /\ msg[s].chunk = None => Item(s).piece = msg[s].frag
<1> TypeInv /\ SendInv
  BY Zenon DEF IInv
<1>1. /\ msg[s] \in MsgType /\ msg[s].id \in 0..(acc - 1) /\ msg[s].len = size[msg[s].id]
      /\ msg[s].frag \in 1..msg[s].len
      /\ msg[s].chunk # None => msg[s].frag = 1 /\ msg[s].len > 1
  BY Zenon DEF TypeInv, SendInv, Busy
<1>2. /\ Item(s).id = msg[s].id /\ Item(s).chunk = msg[s].chunk
      /\ Item(s).left = msg[s].len - msg[s].frag + 1
      /\ Item(s).piece = IF msg[s].chunk = None THEN msg[s].frag ELSE 0
  BY Zenon DEF Item
<1>3. Item(s) \in ItemType
  BY <1>1 DEF Item, ItemType, MsgType
<1>4. Fits(Item(s))
  BY <1>1, <1>2 DEF Fits, MsgType
<1> QED BY <1>2, <1>3, <1>4, Zenon

\* The push of a fragment or of a chunk.
LEMMA PushInv ==
    ASSUME IInv, NEW s \in Senders, Push(s)
    PROVE  IInv'
<1> TypeInv /\ HeadInv /\ SendInv /\ LogInv /\ PartialInv /\ RefInv /\ PoolInv /\ LostInv
  BY Zenon DEF IInv
<1> DEFINE more == msg[s].chunk = None /\ msg[s].frag # msg[s].len
<1>1. /\ UNCHANGED <<cc, lc, constructed, inits, acc, popped, next_, cursor_, count, content,
                     cache, held, cut, size, timeouts, leaves, ghosts>>
      /\ pc[s] = "push" /\ Len(queue) < RingSize /\ queue' = Append(queue, Item(s))
  BY Zenon DEF Push, Ring!Put, head, pools, ends
<1>2. /\ more => msg' = [msg EXCEPT ![s].frag = @ + 1] /\ pc' = pc
      /\ ~more => msg' = [msg EXCEPT ![s] = NoMsg] /\ pc' = [pc EXCEPT ![s] = "open"]
  BY Zenon DEF Push, Goto
<1>3. PICK m \in ItemType :
         /\ m = Item(s) /\ m.id = msg[s].id /\ m.chunk = msg[s].chunk
         /\ msg[s].chunk = None => m.piece = msg[s].frag
         /\ Fits(m)
  BY <1>1, ItemFits, Zenon
<1>4. /\ \A t \in Senders \ {s} : msg'[t] = msg[t] /\ pc'[t] = pc[t]
      /\ pc'[Receiver] = pc[Receiver]
      /\ more => /\ pc'[s] = "push" /\ msg'[s] \in MsgType
                 /\ msg'[s].id = msg[s].id /\ msg'[s].len = msg[s].len
                 /\ msg'[s].chunk = None /\ msg'[s].frag = msg[s].frag + 1
      /\ ~more => pc'[s] = "open" /\ msg'[s] \in MsgType /\ msg'[s].chunk = None
  <2>1. CASE more
    <3>1. msg[s] \in MsgType /\ msg'[s] = [msg[s] EXCEPT !.frag = msg[s].frag + 1]
      BY <2>1, <1>2, Zenon DEF TypeInv
    <3>2. /\ msg'[s] \in MsgType
          /\ msg'[s].id = msg[s].id /\ msg'[s].len = msg[s].len
          /\ msg'[s].chunk = None /\ msg'[s].frag = msg[s].frag + 1
      BY <2>1, <3>1 DEF MsgType
    <3>3. \A t \in Senders \ {s} : msg'[t] = msg[t]
      BY <2>1, <1>2, Zenon DEF TypeInv
    <3> QED BY <2>1, <3>2, <3>3, <1>1, <1>2, Zenon
  <2>2. CASE ~more
    <3>1. NoMsg \in MsgType /\ NoMsg.chunk = None
      BY Zenon DEF NoMsg, MsgType
    <3>2. \A t \in Senders \ {s} : msg'[t] = msg[t]
      BY <2>2, <1>2, Zenon DEF TypeInv
    <3>3. msg'[s] = NoMsg
      BY <2>2, <1>2, Zenon DEF TypeInv
    <3>4. pc'[s] = "open" /\ pc'[Receiver] = pc[Receiver] /\ \A t \in Senders \ {s} : pc'[t] = pc[t]
      BY <2>2, <1>2, ChannelAssumption, Zenon DEF TypeInv, Procs
    <3> QED BY <2>2, <3>1, <3>2, <3>3, <3>4, Zenon
  <2> QED BY <2>1, <2>2, Zenon
<1>5. /\ queue' \in Seq(ItemType) /\ Len(queue') = Len(queue) + 1 /\ Len(queue) \in Nat
      /\ queue'[Len(queue) + 1] = m /\ \A i \in 1..Len(queue) : queue'[i] = queue[i]
  BY <1>1, <1>3 DEF TypeInv
<1>6. TypeInv'
  <2>1. msg' \in [Senders -> MsgType]
    <3>1. msg' = [msg EXCEPT ![s] = msg'[s]]
      BY <1>2, Zenon DEF TypeInv
    <3> QED BY <3>1, <1>4, Zenon DEF TypeInv
  <2>2. pc' \in [Procs -> Places]
    BY <1>2, Zenon DEF TypeInv, Places
  <2>3. Len(queue') <= RingSize
    BY <1>1, <1>5, ChannelAssumption
  <2> QED BY <1>1, <1>5, <2>1, <2>2, <2>3, Zenon DEF TypeInv
<1>7. HeadInv'
  <2>1. \E w \in Places \ {"asleep"} : pc' = [pc EXCEPT ![s] = w]
    <3>1. CASE more
      <4>1. pc' = [pc EXCEPT ![s] = "push"]
        BY <3>1, <1>1, <1>2, Zenon DEF TypeInv
      <4> QED BY <4>1, Zenon DEF Places
    <3>2. CASE ~more
      BY <3>2, <1>2, Zenon DEF Places
    <3> QED BY <3>1, <3>2, Zenon
  <2> QED BY <1>1, <2>1, SenderHead, Zenon
<1>8. SendInv'
  <2>1. ASSUME NEW t \in Senders
        PROVE  (/\ Busy(t) => /\ msg[t].id \in 0..(acc - 1) /\ msg[t].len = size[msg[t].id]
                              /\ msg[t].frag \in 1..msg[t].len
                /\ msg[t].chunk # None => pc[t] = "push" /\ msg[t].frag = 1 /\ msg[t].len > 1
                /\ pc[t] = "storage" => msg[t].frag = 1 /\ msg[t].len > 1)'
    <3>1. CASE t # s
      BY <3>1, <1>1, <1>4 DEF SendInv, Busy
    <3>2. CASE t = s /\ more
      <4>1. /\ msg[s].id \in 0..(acc - 1) /\ msg[s].len = size[msg[s].id]
            /\ msg[s].frag \in 1..msg[s].len /\ msg[s].len \in Nat
        BY <1>1, Zenon DEF SendInv, Busy, TypeInv, MsgType
      <4>2. msg[s].frag + 1 \in 1..msg[s].len
        BY <3>2, <4>1
      <4> QED BY <3>2, <4>1, <4>2, <1>1, <1>4, Zenon
    <3>3. CASE t = s /\ ~more
      BY <3>3, <1>4, Zenon DEF Busy
    <3> QED BY <3>1, <3>2, <3>3, Zenon
  <2>2. ASSUME NEW t \in Senders, NEW u \in Senders, (Busy(t) /\ Busy(u) /\ msg[t].id = msg[u].id)'
        PROVE  t = u
    <3>1. \A v \in Senders : Busy(v)' => Busy(v) /\ msg'[v].id = msg[v].id
      BY <1>1, <1>4, Zenon DEF Busy
    <3> QED BY <2>2, <3>1, Zenon DEF SendInv
  <2> QED BY <2>1, <2>2, Zenon DEF SendInv
<1>9. LogInv'
  <2>1. Log \in Seq(ItemType) /\ Log' = Append(Log, m)
    <3>1. queue \in Seq(ItemType) /\ popped \in Seq(ItemType)
      BY Zenon DEF TypeInv
    <3>2. Log \in Seq(ItemType)
      BY <3>1 DEF Log
    <3>3. popped \o Append(queue, m) = Append(popped \o queue, m)
      BY <3>1, PushLog
    <3>4. queue' = Append(queue, m) /\ popped' = popped
      BY <1>1, <1>3, Zenon
    <3> QED BY <3>2, <3>3, <3>4, Zenon DEF Log
  <2>2. /\ Len(Log') = Len(Log) + 1 /\ Len(Log) \in Nat
        /\ Log'[Len(Log) + 1] = m /\ \A i \in 1..Len(Log) : Log'[i] = Log[i]
    BY <2>1
  <2>3. Ahead(Log, s) /\ Busy(s)
    BY <1>1, Zenon DEF LogInv, Busy
  <2>4. /\ \A i \in 1..Len(Log) : Log[i].id = m.id =>
              Log[i].chunk = None /\ m.chunk = None /\ Log[i].piece < m.piece
        /\ m.piece > 1 => \E i \in 1..Len(Log) : Log[i].id = m.id /\ Log[i].piece = m.piece - 1
    BY <2>3, <1>3 DEF Ahead, Fits
  <2>5. InOrder(Log)' /\ NoGaps(Log)'
    <3>1. InOrder(Append(Log, m)) /\ NoGaps(Append(Log, m))
      BY <2>1, <2>4, LogGrows, Zenon DEF LogInv
    <3> QED BY <3>1, <2>1, Zenon DEF InOrder, NoGaps
  <2>6. ASSUME NEW i \in 1..Len(Log') PROVE Fits(Log[i])'
    <3>1. Fits(Log'[i])
      BY <2>2, <1>3 DEF LogInv
    <3> QED BY <3>1, <1>1, Zenon DEF Fits
  <2>7. ASSUME NEW t \in Senders, Busy(t)' PROVE Ahead(Log, t)'
    <3>1. CASE t = s
      <4>1. more
        BY <2>7, <3>1, <1>4, Zenon DEF Busy
      <4>2. m.piece = msg[s].frag /\ m.chunk = None /\ msg[s].frag \in Nat
        BY <4>1, <1>3, Zenon DEF TypeInv, MsgType
      <4>3. ASSUME NEW i \in 1..Len(Log'), Log'[i].id = msg[s].id
            PROVE  Log'[i].chunk = None /\ Log'[i].piece < msg[s].frag + 1
        <5>1. CASE i = Len(Log) + 1
          BY <5>1, <2>2, <4>2
        <5>2. CASE i \in 1..Len(Log)
          <6>1. Log[i].chunk = None /\ Log[i].piece < msg[s].frag
            BY <5>2, <4>3, <2>2, <2>3, Zenon DEF Ahead
          <6>2. Log[i].piece \in Nat
            <7>1. Log[i] \in ItemType
              BY <5>2, <2>1
            <7> QED BY <7>1, Zenon DEF ItemType
          <6> QED BY <5>2, <6>1, <6>2, <2>2, <4>2
        <5> QED BY <5>1, <5>2, <2>2
      <4>4. Log'[Len(Log) + 1].id = msg[s].id /\ Log'[Len(Log) + 1].piece = (msg[s].frag + 1) - 1
        BY <2>2, <4>2, <1>3
      <4> QED BY <3>1, <4>1, <4>3, <4>4, <2>2, <1>4 DEF Ahead
    <3>2. CASE t # s
      <4>1. msg'[t] = msg[t] /\ Busy(t) /\ msg[t].id # m.id
        BY <3>2, <2>7, <2>3, <1>3, <1>4, Zenon DEF SendInv, Busy
      <4>2. Ahead(Log, t)
        BY Zenon DEF LogInv
      <4>3. \A i \in 1..Len(Log') : Log'[i].id = msg[t].id => i \in 1..Len(Log)
        BY <4>1, <2>2
      <4> QED BY <4>1, <4>2, <4>3, <2>2 DEF Ahead
    <3> QED BY <3>1, <3>2, Zenon
  <2>8. \A t \in Senders : Ahead(Log, t)'
    BY <2>7, Zenon DEF Ahead
  <2> QED BY <2>5, <2>6, <2>8, Zenon DEF LogInv
<1>10. PartialInv' /\ PoolInv'
  BY <1>1, SamePartial, SamePools, Zenon
<1>11. RefInv'
  <2>1. \A t \in Senders : msg'[t].chunk # None => msg'[t] = msg[t]
    BY <1>4, Zenon
  <2>2. ASSUME NEW i \in 1..Len(queue'), queue'[i].chunk # None
        PROVE  Carries(queue'[i].chunk, queue'[i].id)
    <3>1. CASE i = Len(queue) + 1
      BY <3>1, <2>2, <1>3, <1>5, Zenon DEF RefInv
    <3>2. CASE i \in 1..Len(queue)
      BY <3>2, <2>2, <1>5, Zenon DEF RefInv
    <3> QED BY <3>1, <3>2, <1>5
  <2>3. \A k, id : Carries(k, id)' = Carries(k, id)
    BY <1>1, Zenon DEF Carries
  <2>4. \A t \in Senders : msg'[t].chunk # None => Carries(msg'[t].chunk, msg'[t].id)
    BY <2>1, Zenon DEF RefInv
  <2>5. \A h \in held : /\ Carries(h.chunk, h.id)
                        /\ \E i \in 1..Len(popped) : popped[i].id = h.id /\ popped[i].chunk = h.chunk
    BY Zenon DEF RefInv
  <2> QED BY <1>1, <2>2, <2>3, <2>4, <2>5, Zenon DEF RefInv
<1>12. LostInv'
  <2>1. ASSUME NEW k \in Chunks, Referred(k) PROVE Referred(k)'
    <3>1. CASE \E t \in Senders : msg[t].chunk = k
      <4>1. PICK t \in Senders : msg[t].chunk = k
        BY <3>1, Zenon
      <4>2. CASE t = s
        BY <4>1, <4>2, <1>3, <1>5 DEF Referred
      <4>3. CASE t # s
        BY <4>1, <4>3, <1>4, Zenon DEF Referred
      <4> QED BY <4>2, <4>3, Zenon
    <3>2. CASE \E i \in 1..Len(queue) : queue[i].chunk = k
      BY <3>2, <1>5 DEF Referred
    <3>3. CASE \E h \in held : h.chunk = k
      BY <3>3, <1>1, Zenon DEF Referred
    <3> QED BY <2>1, <3>1, <3>2, <3>3, Zenon DEF Referred
  <2> QED BY <1>1, <1>4, <2>1, Zenon DEF LostInv
<1> QED BY <1>6, <1>7, <1>8, <1>9, <1>10, <1>11, <1>12, Zenon DEF IInv

-----------------------------------------------------------------------------
(* recv *)

\* What the log says of the item that is popped next.
LEMMA HeadItem ==
    ASSUME IInv, queue # << >>, NEW m, m = Head(queue)
    PROVE  /\ m \in ItemType /\ Fits(m) /\ m = queue[1] /\ Len(queue) \in Nat \ {0}
           /\ \A i \in 1..Len(popped) : Fits(popped[i])
           /\ \A i \in 1..Len(popped) : popped[i].id = m.id =>
                popped[i].chunk = None /\ m.chunk = None /\ popped[i].piece < m.piece
           /\ m.piece > 1 => \E i \in 1..Len(popped) :
                popped[i].id = m.id /\ popped[i].piece = m.piece - 1
           /\ \A i \in 2..Len(queue) : queue[i].id = m.id => m.chunk = None
<1> TypeInv /\ LogInv
  BY Zenon DEF IInv
<1>1. /\ queue \in Seq(ItemType) /\ popped \in Seq(ItemType)
      /\ Len(queue) \in Nat \ {0} /\ Len(popped) \in Nat /\ m = queue[1] /\ m \in ItemType
  BY DEF TypeInv
<1>2. /\ Len(Log) = Len(popped) + Len(queue)
      /\ \A i \in 1..Len(popped) : Log[i] = popped[i]
      /\ \A i \in 1..Len(queue) : Log[Len(popped) + i] = queue[i]
  BY <1>1 DEF Log
<1>3. PICK n \in Nat : n = Len(popped) + 1
  BY <1>1
<1>4. n \in 1..Len(Log) /\ Log[n] = m
  BY <1>1, <1>2, <1>3
<1>5. Fits(m) /\ \A i \in 1..Len(popped) : Fits(popped[i])
  BY <1>1, <1>2, <1>4 DEF LogInv
<1>6. ASSUME NEW i \in 1..Len(popped), popped[i].id = m.id
      PROVE  popped[i].chunk = None /\ m.chunk = None /\ popped[i].piece < m.piece
  <2>1. i \in 1..Len(Log) /\ i < n /\ Log[i] = popped[i]
    BY <1>1, <1>2, <1>3
  <2> QED BY <2>1, <1>4, <1>6, Zenon DEF LogInv, InOrder
<1>7. ASSUME m.piece > 1
      PROVE  \E i \in 1..Len(popped) : popped[i].id = m.id /\ popped[i].piece = m.piece - 1
  <2>1. PICK i \in 1..(n - 1) : Log[i].id = m.id /\ Log[i].piece = m.piece - 1
    BY <1>4, <1>7, Zenon DEF LogInv, NoGaps
  <2>2. i \in 1..Len(popped)
    BY <1>1, <1>3
  <2> QED BY <2>1, <2>2, <1>2, Zenon
<1>8. ASSUME NEW i \in 2..Len(queue), queue[i].id = m.id PROVE m.chunk = None
  <2>1. PICK j \in Nat : j = Len(popped) + i
    BY <1>1
  <2>2. j \in 1..Len(Log) /\ n < j /\ Log[j] = queue[i]
    BY <2>1, <1>1, <1>2, <1>3
  <2> QED BY <2>2, <1>4, <1>8, Zenon DEF LogInv, InOrder
<1> QED BY <1>1, <1>5, <1>6, <1>7, <1>8, Zenon

\* Of the message the item belongs to, what is kept ends right before it, and
\* if nothing is kept the item is the first or the rest was dropped.
LEMMA KeptBefore ==
    ASSUME IInv, queue # << >>, NEW m, m = Head(queue)
    PROVE  /\ m.id \in DOMAIN cache =>
                /\ m.chunk = None
                /\ \E a \in 1..(m.piece - 1) : /\ cache[m.id] = Part(m.id, a, m.piece - 1)
                                               /\ a > 1 => m.id \in cut
           /\ m.id \notin DOMAIN cache /\ m.piece > 1 => m.id \in cut
<1> TypeInv /\ LogInv /\ PartialInv
  BY Zenon DEF IInv
<1>1. /\ m \in ItemType /\ Fits(m)
      /\ \A i \in 1..Len(popped) : Fits(popped[i])
      /\ \A i \in 1..Len(popped) : popped[i].id = m.id =>
           popped[i].chunk = None /\ m.chunk = None /\ popped[i].piece < m.piece
      /\ m.piece > 1 => \E i \in 1..Len(popped) :
           popped[i].id = m.id /\ popped[i].piece = m.piece - 1
  BY HeadItem, Zenon
<1>2. m.id \in 0..(acc - 1) /\ m.piece \in Nat /\ size[m.id] \in Nat /\ m.piece <= size[m.id]
  <2>1. m.id \in 0..(acc - 1) /\ m.piece \in Nat
    BY <1>1, Zenon DEF Fits, ItemType
  <2>2. size[m.id] \in Nat
    BY <2>1, ChannelAssumption, Zenon DEF TypeInv
  <2> QED BY <2>1, <2>2, <1>1 DEF Fits
<1>3. ASSUME m.id \in DOMAIN cache
      PROVE  /\ m.chunk = None
             /\ \E a \in 1..(m.piece - 1) : /\ cache[m.id] = Part(m.id, a, m.piece - 1)
                                            /\ a > 1 => m.id \in cut
  <2>1. PICK a \in 1..size[m.id], p \in 1..size[m.id] :
           /\ a <= p /\ cache[m.id] = Part(m.id, a, p) /\ LastPopped(m.id, p)
           /\ a > 1 => m.id \in cut
    BY <1>3, Zenon DEF PartialInv, KeptPart
  <2>2. m.chunk = None /\ p < m.piece
    BY <2>1, <1>1, Zenon DEF LastPopped
  <2>3. m.piece - 1 <= p
    BY <2>1, <2>2, <1>1, <1>2 DEF LastPopped
  <2>4. p = m.piece - 1
    BY <2>2, <2>3, <1>2
  <2> QED BY <2>1, <2>2, <2>4, <1>2
<1>4. ASSUME m.id \notin DOMAIN cache, m.piece > 1 PROVE m.id \in cut
  <2>1. PICK i \in 1..Len(popped) : popped[i].id = m.id /\ popped[i].chunk = None
    BY <1>1, <1>4, Zenon
  <2>2. Gone(m.id)
    BY <1>2, <1>4, Zenon DEF PartialInv
  <2>3. ASSUME NEW j \in 1..Len(popped), popped[j].id = m.id PROVE popped[j].piece # size[m.id]
    BY <2>3, <1>1, <1>2
  <2> QED BY <2>1, <2>2, <2>3, Zenon DEF Gone
<1> QED BY <1>3, <1>4, Zenon

\* An item that is a chunk is found, and none of its message was kept.
LEMMA ChunkFound ==
    ASSUME IInv, queue # << >>, NEW m, m = Head(queue), m.chunk # None
    PROVE  m.id \notin DOMAIN cache /\ m.left > 1 /\ Found(m)
<1> TypeInv /\ LogInv /\ PartialInv /\ RefInv
  BY Zenon DEF IInv
<1>1. m \in ItemType /\ Fits(m) /\ m = queue[1] /\ Len(queue) \in Nat \ {0}
  BY HeadItem, Zenon
<1>2. m.id \notin DOMAIN cache
  BY KeptBefore, Zenon
<1>3. m.left > 1
  BY <1>1, Zenon DEF Fits
<1>4. Found(m)
  BY <1>1 DEF RefInv, Carries, Found
<1> QED BY <1>2, <1>3, <1>4, Zenon

\* A part grows by its next piece, and a part that ends with the message is its tail.
LEMMA PartGrows ==
    ASSUME NEW id, NEW a \in Nat \ {0}, NEW p \in Nat, a <= p
    PROVE  Append(Part(id, a, p - 1), <<id, p>>) = Part(id, a, p)
<1> DEFINE x == Part(id, a, p - 1)
           y == Part(id, a, p)
           z == Append(x, <<id, p>>)
<1>1. PICK n \in Nat : n = p - a
  OBVIOUS
<1>2. x \in Seq(UNION {{<<id, i>>} : i \in Nat}) /\ Len(x) = n /\ \A i \in 1..n : x[i] = <<id, a + i - 1>>
  BY <1>1 DEF Part
<1>3. y = [i \in 1..(n + 1) |-> <<id, a + i - 1>>]
  BY <1>1, Zenon DEF Part
<1> HIDE DEF x, y
<1>4. z = [i \in 1..(n + 1) |-> IF i = n + 1 THEN <<id, p>> ELSE x[i]]
  BY <1>2
<1>5. \A i \in 1..(n + 1) : (IF i = n + 1 THEN <<id, p>> ELSE x[i]) = <<id, a + i - 1>>
  BY <1>1, <1>2
<1> HIDE DEF z
<1>6. z = y
  BY <1>3, <1>4, <1>5, Zenon
<1> QED BY <1>6, Zenon DEF x, y, z

LEMMA PartIsTail ==
    ASSUME NEW id, size[id] \in Nat, NEW a \in 1..size[id]
    PROVE  /\ Part(id, a, size[id]) = SubSeq(Whole(id), a, size[id])
           /\ a = 1 => Part(id, a, size[id]) = Whole(id)
<1>1. PICK n \in Nat : n = size[id]
  BY Zenon
<1>2. Whole(id) = [i \in 1..n |-> <<id, i>>]
  BY <1>1, Zenon DEF Whole
<1>3. SubSeq(Whole(id), a, n) = [i \in 1..(n - a + 1) |-> Whole(id)[a + i - 1]]
  BY <1>1
<1>4. \A i \in 1..(n - a + 1) : Whole(id)[a + i - 1] = <<id, a + i - 1>>
  BY <1>1, <1>2
<1>5. Part(id, a, n) = [i \in 1..(n - a + 1) |-> <<id, a + i - 1>>]
  BY Zenon DEF Part
<1>6. a = 1 => Part(id, a, n) = Whole(id)
  BY <1>1, <1>2, <1>5
<1> QED BY <1>1, <1>3, <1>4, <1>5, <1>6, Zenon

\* The pop of m tells nothing new of another message.
LEMMA OtherMessage ==
    ASSUME IInv, NEW m \in ItemType, popped' = Append(popped, m), cut \subseteq cut',
           UNCHANGED size, NEW id, id # m.id
    PROVE  /\ \A p : LastPopped(id, p) => LastPopped(id, p)'
           /\ Gone(id) => Gone(id)'
<1> TypeInv
  BY Zenon DEF IInv
<1>1. /\ Len(popped) \in Nat /\ Len(popped') = Len(popped) + 1 /\ popped'[Len(popped) + 1] = m
      /\ \A i \in 1..Len(popped) : popped'[i] = popped[i]
  BY DEF TypeInv
<1>2. \A i \in 1..Len(popped') : popped'[i].id = id => i \in 1..Len(popped)
  BY <1>1
<1>3. ASSUME NEW p, LastPopped(id, p) PROVE LastPopped(id, p)'
  BY <1>1, <1>2, <1>3 DEF LastPopped
<1>4. Gone(id) => Gone(id)'
  BY <1>1, <1>2 DEF Gone
<1> QED BY <1>3, <1>4, Zenon

\* One round of recv: what is kept.
LEMMA RecvPartial ==
    ASSUME IInv, Recv
    PROVE  PartialInv' /\ DOMAIN cache' \subseteq 0..(acc - 1) /\ cut' \subseteq 0..(acc - 1)
<1> TypeInv /\ HeadInv /\ SendInv /\ LogInv /\ PartialInv /\ RefInv /\ PoolInv /\ LostInv
  BY Zenon DEF IInv
<1>0. PICK m : m = Head(queue)
  BY Zenon
<1>1. /\ queue # << >> /\ popped' = Append(popped, m) /\ cache' = Kept(m)
      /\ cut' = cut \cup (DOMAIN cache \ (DOMAIN cache' \cup {m.id}))
      /\ size' = size /\ acc' = acc
  BY <1>0, Zenon DEF Recv, Ring!Get
<1>2. m \in ItemType /\ Fits(m)
  BY <1>0, <1>1, HeadItem, Zenon
<1>3. /\ \A i \in 1..Len(popped) : popped[i].id = m.id =>
           popped[i].chunk = None /\ m.chunk = None /\ popped[i].piece < m.piece
  BY <1>0, <1>1, HeadItem, Zenon
<1>4. /\ m.id \in DOMAIN cache =>
           /\ m.chunk = None
           /\ \E a \in 1..(m.piece - 1) : /\ cache[m.id] = Part(m.id, a, m.piece - 1)
                                          /\ a > 1 => m.id \in cut
      /\ m.id \notin DOMAIN cache /\ m.piece > 1 => m.id \in cut
  BY <1>0, <1>1, KeptBefore, Zenon
<1>5. m.chunk # None => m.id \notin DOMAIN cache /\ m.left > 1 /\ Found(m)
  BY <1>0, <1>1, ChunkFound, Zenon
<1>6. /\ Len(popped) \in Nat /\ Len(popped') = Len(popped) + 1 /\ popped'[Len(popped) + 1] = m
      /\ \A i \in 1..Len(popped) : popped'[i] = popped[i]
  BY <1>1, <1>2 DEF TypeInv
<1>7. m.id \in 0..(acc - 1) /\ m.piece \in Nat /\ m.left \in Nat /\ size[m.id] \in Nat
  BY <1>2, ChannelAssumption, Zenon DEF Fits, ItemType, TypeInv
<1>8. cut \subseteq cut'
  BY <1>1, Zenon
<1>9. ASSUME NEW id, id # m.id
      PROVE  /\ \A p : LastPopped(id, p) => LastPopped(id, p)'
             /\ Gone(id) => Gone(id)'
  BY <1>1, <1>2, <1>8, <1>9, OtherMessage, Zenon
<1>10. m.chunk = None => LastPopped(m.id, m.piece)'
  <2>1. \A i \in 1..Len(popped') : popped'[i].id = m.id => popped'[i].piece <= m.piece
    <3>1. ASSUME NEW i \in 1..Len(popped), popped[i].id = m.id PROVE popped[i].piece <= m.piece
      <4>1. popped[i] \in ItemType /\ popped[i].piece < m.piece
        BY <3>1, <1>3 DEF TypeInv
      <4> QED BY <4>1, <1>7 DEF ItemType
    <3> QED BY <3>1, <1>6, <1>7
  <2> QED BY <2>1, <1>6 DEF LastPopped
<1>11. /\ \A id \in DOMAIN cache \cap DOMAIN cache' : id # m.id => cache'[id] = cache[id]
       /\ DOMAIN cache' \subseteq DOMAIN cache \cup {m.id}
  BY <1>1, Zenon DEF Kept, Restrict
<1>12. ASSUME NEW id \in DOMAIN cache', id # m.id PROVE KeptPart(id)'
  <2>1. id \in DOMAIN cache /\ cache'[id] = cache[id]
    BY <1>11, <1>12, Zenon
  <2>2. KeptPart(id)
    BY <2>1, Zenon DEF PartialInv
  <2> QED BY <2>1, <2>2, <1>1, <1>8, <1>9, <1>12, Zenon DEF KeptPart
<1>13. ASSUME NEW id \in 0..(acc - 1), id \notin DOMAIN cache', id # m.id PROVE Gone(id)'
  <2>1. CASE id \in DOMAIN cache
    BY <2>1, <1>1, <1>13, Zenon DEF Gone
  <2>2. CASE id \notin DOMAIN cache
    BY <2>2, <1>9, <1>13, Zenon DEF PartialInv
  <2> QED BY <2>1, <2>2, Zenon
<1>14. CASE m.chunk # None
  <2>1. cache' = cache
    BY <1>1, <1>5, <1>14, Zenon DEF Kept
  <2>2. ASSUME NEW id, id = m.id PROVE Gone(id)'
    BY <2>2, <1>3, <1>6, <1>14 DEF Gone
  <2>3. m.id \notin DOMAIN cache'
    BY <2>1, <1>5, <1>14, Zenon
  <2> QED BY <2>2, <2>3, <1>1, <1>7, <1>11, <1>12, <1>13, Zenon DEF PartialInv, TypeInv
<1>15. CASE m.chunk = None /\ m.left <= 1
  <2>1. m.piece = size[m.id]
    BY <1>2, <1>7, <1>15 DEF Fits
  <2>2. m.id \notin DOMAIN cache'
    BY <1>1, <1>15, Zenon DEF Kept, Restrict
  <2>3. ASSUME NEW id, id = m.id PROVE Gone(id)'
    BY <2>1, <2>3, <1>1, <1>6 DEF Gone
  <2> QED BY <2>2, <2>3, <1>1, <1>7, <1>11, <1>12, <1>13, Zenon DEF PartialInv, TypeInv
<1>16. CASE m.chunk = None /\ m.left > 1
  <2>1. m.piece \in 1..size[m.id] /\ m.piece < size[m.id]
    BY <1>2, <1>7, <1>16 DEF Fits
  <2>2. m.id \in DOMAIN cache'
    BY <1>1, <1>7, <1>16 DEF Kept, Found
  <2>3. \E a \in 1..size[m.id] : /\ a <= m.piece /\ cache'[m.id] = Part(m.id, a, m.piece)
                                 /\ a > 1 => m.id \in cut
    <3>1. CASE m.id \in DOMAIN cache
      <4>1. PICK a \in 1..(m.piece - 1) : /\ cache[m.id] = Part(m.id, a, m.piece - 1)
                                          /\ a > 1 => m.id \in cut
        BY <3>1, <1>4, Zenon
      <4>2. cache'[m.id] = Append(cache[m.id], <<m.id, m.piece>>)
        BY <3>1, <1>1, <1>7, <1>16 DEF Kept, Bytes
      <4>3. a \in 1..size[m.id] /\ a \in Nat \ {0} /\ a <= m.piece
        BY <2>1, <1>7
      <4>4. Append(Part(m.id, a, m.piece - 1), <<m.id, m.piece>>) = Part(m.id, a, m.piece)
        BY <4>3, <1>7, PartGrows, Zenon
      <4>5. cache'[m.id] = Part(m.id, a, m.piece)
        BY <4>1, <4>2, <4>4
      <4> QED BY <4>1, <4>3, <4>5, Zenon
    <3>2. CASE m.id \notin DOMAIN cache
      <4>1. cache'[m.id] = << <<m.id, m.piece>> >>
        BY <3>2, <1>1, <1>7, <1>16 DEF Kept, Bytes, Found
      <4>2. Part(m.id, m.piece, m.piece) = << <<m.id, m.piece>> >>
        BY <1>7 DEF Part
      <4> QED BY <3>2, <4>1, <4>2, <2>1, <1>4, <1>7
    <3> QED BY <3>1, <3>2, Zenon
  <2>4. ASSUME NEW id, id = m.id PROVE KeptPart(id)'
    BY <2>1, <2>3, <2>4, <1>1, <1>8, <1>10, <1>16, Zenon DEF KeptPart
  <2>5. ASSUME NEW id \in DOMAIN cache' PROVE KeptPart(id)'
    BY <2>4, <2>5, <1>12, Zenon
  <2>6. ASSUME NEW id \in 0..(acc' - 1), id \notin DOMAIN cache' PROVE Gone(id)'
    BY <2>2, <2>6, <1>1, <1>13
  <2>7. DOMAIN cache' \subseteq 0..(acc - 1) /\ cut' \subseteq 0..(acc - 1)
    BY <1>1, <1>7, <1>11, Zenon DEF TypeInv
  <2> QED BY <2>5, <2>6, <2>7, Zenon DEF PartialInv
<1> QED BY <1>7, <1>14, <1>15, <1>16

\* One round of recv.
LEMMA RecvInv ==
    ASSUME IInv, Recv
    PROVE  IInv'
<1> TypeInv /\ HeadInv /\ SendInv /\ LogInv /\ PartialInv /\ RefInv /\ PoolInv /\ LostInv
  BY Zenon DEF IInv
<1>0. PICK m : m = Head(queue)
  BY Zenon
<1>1. /\ UNCHANGED <<cc, lc, constructed, inits, acc, next_, cursor_, count, content, pc, msg,
                     size, timeouts, leaves, ghosts>>
      /\ queue # << >> /\ popped' = Append(popped, m) /\ queue' = Tail(queue)
  BY <1>0, Zenon DEF Recv, Ring!Get, head, pools, ends
<1>2. held' = IF m.id \notin DOMAIN cache /\ m.left > 1 /\ Found(m)
              THEN held \cup {[id |-> m.id, chunk |-> m.chunk]} ELSE held
  BY <1>0, Zenon DEF Recv
<1>3. /\ m \in ItemType /\ Fits(m) /\ m = queue[1] /\ Len(queue) \in Nat \ {0}
  BY <1>0, <1>1, HeadItem, Zenon
<1>4. m.chunk # None => m.id \notin DOMAIN cache /\ m.left > 1 /\ Found(m)
  BY <1>0, <1>1, ChunkFound, Zenon
<1>5. popped' \o queue' = popped \o queue
  BY <1>0, <1>1, PopLog, Zenon DEF TypeInv
<1>6. /\ popped' \in Seq(ItemType) /\ Len(popped) \in Nat /\ Len(popped') = Len(popped) + 1
      /\ popped'[Len(popped) + 1] = m /\ \A i \in 1..Len(popped) : popped'[i] = popped[i]
  BY <1>1, <1>3 DEF TypeInv
<1>7. /\ queue' \in Seq(ItemType) /\ Len(queue') = Len(queue) - 1
      /\ \A i \in 1..Len(queue') : queue'[i] = queue[i + 1]
  BY <1>1, <1>3 DEF TypeInv
<1>8. /\ held \subseteq held'
      /\ m.chunk # None => [id |-> m.id, chunk |-> m.chunk] \in held'
      /\ \A h \in held' : h \in held \/ (h = [id |-> m.id, chunk |-> m.chunk] /\ m.chunk # None)
  BY <1>2, <1>4, Zenon DEF Found
<1>9. TypeInv'
  <2>1. held' \subseteq [id : 0..(acc - 1), chunk : Chunks]
    <3>1. m.chunk # None => [id |-> m.id, chunk |-> m.chunk] \in [id : 0..(acc - 1), chunk : Chunks]
      BY <1>3, Zenon DEF Fits, ItemType
    <3> QED BY <3>1, <1>8, Zenon DEF TypeInv
  <2>2. Len(queue') <= RingSize
    BY <1>3, <1>7, ChannelAssumption DEF TypeInv
  <2>3. DOMAIN cache' \subseteq 0..(acc - 1) /\ cut' \subseteq 0..(acc - 1)
    BY RecvPartial, Zenon
  <2> QED BY <1>1, <1>6, <1>7, <2>1, <2>2, <2>3, Zenon DEF TypeInv
<1>10. HeadInv'
  BY <1>1, Zenon DEF HeadInv, CountsReceivers
<1>11. SendInv'
  BY <1>1, Zenon DEF SendInv, Busy
<1>12. LogInv'
  <2>1. Log' = Log
    BY <1>5, Zenon DEF Log
  <2>2. \A i \in 1..Len(Log) : Fits(Log[i])'
    BY <2>1, <1>1, Zenon DEF LogInv, Fits
  <2>3. InOrder(Log)' /\ NoGaps(Log)'
    BY <2>1, Zenon DEF LogInv, InOrder, NoGaps
  <2>4. ASSUME NEW s \in Senders PROVE Ahead(Log, s)'
    BY <2>1, <1>1, Zenon DEF LogInv, Ahead, Busy
  <2> QED BY <2>1, <2>2, <2>3, <2>4, Zenon DEF LogInv
<1>13. PartialInv'
  BY RecvPartial, Zenon
<1>14. RefInv'
  <2>1. \A k, id : Carries(k, id)' = Carries(k, id)
    BY <1>1, Zenon DEF Carries
  <2>2. ASSUME NEW i \in 1..Len(queue'), queue'[i].chunk # None
        PROVE  Carries(queue'[i].chunk, queue'[i].id)
    <3>1. i + 1 \in 1..Len(queue) /\ queue'[i] = queue[i + 1]
      BY <1>3, <1>7
    <3> QED BY <2>2, <3>1, Zenon DEF RefInv
  <2>3. ASSUME NEW h \in held'
        PROVE  /\ Carries(h.chunk, h.id)
               /\ \E i \in 1..Len(popped') : popped'[i].id = h.id /\ popped'[i].chunk = h.chunk
    <3>1. CASE h \in held
      BY <3>1, <1>6 DEF RefInv
    <3>2. CASE h = [id |-> m.id, chunk |-> m.chunk] /\ m.chunk # None
      <4>1. Carries(m.chunk, m.id)
        BY <3>2, <1>3 DEF RefInv
      <4> QED BY <3>2, <4>1, <1>6
    <3> QED BY <3>1, <3>2, <1>8, Zenon
  <2>4. \A s \in Senders : msg[s].chunk # None => Carries(msg[s].chunk, msg[s].id)
    BY Zenon DEF RefInv
  <2> QED BY <1>1, <2>1, <2>2, <2>3, <2>4, Zenon DEF RefInv
<1>15. PoolInv'
  BY <1>1, SamePools, Zenon
<1>16. LostInv'
  <2>1. ASSUME NEW k \in Chunks, Referred(k) PROVE Referred(k)'
    <3>1. CASE \E s \in Senders : msg[s].chunk = k
      BY <3>1, <1>1, Zenon DEF Referred
    <3>2. CASE \E i \in 1..Len(queue) : queue[i].chunk = k
      <4>1. PICK i \in 1..Len(queue) : queue[i].chunk = k
        BY <3>2, Zenon
      <4>2. CASE i = 1
        BY <4>1, <4>2, <1>3, <1>8, ChunkFacts, Zenon DEF Referred
      <4>3. CASE i # 1
        <5>1. i - 1 \in 1..Len(queue') /\ queue'[i - 1] = queue[i]
          BY <4>3, <1>3, <1>7
        <5> QED BY <4>1, <5>1, Zenon DEF Referred
      <4> QED BY <4>2, <4>3, Zenon
    <3>3. CASE \E h \in held : h.chunk = k
      BY <3>3, <1>8, Zenon DEF Referred
    <3> QED BY <2>1, <3>1, <3>2, <3>3, Zenon DEF Referred
  <2> QED BY <1>1, <2>1, Zenon DEF LostInv
<1> QED BY <1>9, <1>10, <1>11, <1>12, <1>13, <1>14, <1>15, <1>16, Zenon DEF IInv

-----------------------------------------------------------------------------
(* The references to a chunk *)

\* At most one: two senders, entries of the ring or buffers with the same chunk
\* would have the same message, which is in the log once.
LEMMA OneReference ==
    ASSUME IInv, NEW k \in Chunks
    PROVE  /\ \A s, t \in Senders : msg[s].chunk = k /\ msg[t].chunk = k => s = t
           /\ \A i, j \in 1..Len(queue) : queue[i].chunk = k /\ queue[j].chunk = k => i = j
           /\ \A g, h \in held : g.chunk = k /\ h.chunk = k => g = h
           /\ \A s \in Senders, i \in 1..Len(queue) : ~(msg[s].chunk = k /\ queue[i].chunk = k)
           /\ \A s \in Senders, h \in held : ~(msg[s].chunk = k /\ h.chunk = k)
           /\ \A i \in 1..Len(queue), h \in held : ~(queue[i].chunk = k /\ h.chunk = k)
<1> TypeInv /\ SendInv /\ LogInv /\ RefInv
  BY Zenon DEF IInv
<1>1. k # None
  BY ChunkFacts, Zenon
<1>2. /\ \A s \in Senders : msg[s].chunk = k => msg[s].id = content[k] /\ Busy(s)
      /\ \A i \in 1..Len(queue) : queue[i].chunk = k => queue[i].id = content[k]
      /\ \A h \in held : h.chunk = k =>
           /\ h.id = content[k]
           /\ \E i \in 1..Len(popped) : popped[i].id = content[k] /\ popped[i].chunk = k
  BY <1>1 DEF RefInv, SendInv, Carries, Busy
<1>3. /\ Len(queue) \in Nat /\ Len(popped) \in Nat /\ Len(Log) = Len(popped) + Len(queue)
      /\ \A i \in 1..Len(popped) : Log[i] = popped[i]
      /\ \A i \in 1..Len(queue) : Log[Len(popped) + i] = queue[i]
  BY DEF TypeInv, Log
<1>4. \A i \in 1..Len(queue) : queue[i].chunk = k =>
         \E n \in 1..Len(Log) : n = Len(popped) + i /\ Log[n].id = content[k] /\ Log[n].chunk = k
  BY <1>2, <1>3
<1>5. \A h \in held : h.chunk = k =>
         \E n \in 1..Len(Log) : n <= Len(popped) /\ Log[n].id = content[k] /\ Log[n].chunk = k
  <2>1. \A i \in 1..Len(popped) : i \in 1..Len(Log) /\ i <= Len(popped) /\ Log[i] = popped[i]
    BY <1>3
  <2> QED BY <2>1, <1>2, Zenon
<1>6. ASSUME NEW i \in 1..Len(Log), NEW j \in 1..Len(Log), Log[i].chunk = k,
             Log[i].id = content[k], Log[j].id = content[k]
      PROVE  i = j
  BY <1>1, <1>3, <1>6 DEF LogInv, InOrder
<1>7. ASSUME NEW s \in Senders, msg[s].chunk = k, NEW i \in 1..Len(Log)
      PROVE  Log[i].id # content[k]
  BY <1>1, <1>2, <1>7, Zenon DEF LogInv, Ahead
<1>8. ASSUME NEW g \in held, NEW h \in held, g.chunk = k, h.chunk = k PROVE g = h
  <2>1. g.id = h.id /\ g.chunk = h.chunk
    BY <1>2, <1>8, Zenon
  <2>2. g \in [id : 0..(acc - 1), chunk : Chunks] /\ h \in [id : 0..(acc - 1), chunk : Chunks]
    BY Zenon DEF TypeInv
  <2> QED BY <2>1, <2>2
<1>9. ASSUME NEW i \in 1..Len(queue), NEW j \in 1..Len(queue), queue[i].chunk = k, queue[j].chunk = k
      PROVE  i = j
  <2>1. PICK n \in 1..Len(Log) : n = Len(popped) + i /\ Log[n].id = content[k] /\ Log[n].chunk = k
    BY <1>4, <1>9, Zenon
  <2>2. PICK o \in 1..Len(Log) : o = Len(popped) + j /\ Log[o].id = content[k] /\ Log[o].chunk = k
    BY <1>4, <1>9, Zenon
  <2>3. n = o
    BY <2>1, <2>2, <1>6, Zenon
  <2> QED BY <2>1, <2>2, <2>3, <1>3
<1>10. ASSUME NEW i \in 1..Len(queue), NEW h \in held, queue[i].chunk = k, h.chunk = k
       PROVE  FALSE
  <2>1. PICK n \in 1..Len(Log) : n = Len(popped) + i /\ Log[n].id = content[k] /\ Log[n].chunk = k
    BY <1>4, <1>10, Zenon
  <2>2. PICK o \in 1..Len(Log) : o <= Len(popped) /\ Log[o].id = content[k] /\ Log[o].chunk = k
    BY <1>5, <1>10, Zenon
  <2>3. n = o
    BY <2>1, <2>2, <1>6, Zenon
  <2> QED BY <2>1, <2>2, <2>3, <1>3
<1>11. \A s, t \in Senders : msg[s].chunk = k /\ msg[t].chunk = k => s = t
  BY <1>2 DEF SendInv
<1>12. \A s \in Senders, i \in 1..Len(queue) : ~(msg[s].chunk = k /\ queue[i].chunk = k)
  BY <1>4, <1>7, Zenon
<1>13. \A s \in Senders, h \in held : ~(msg[s].chunk = k /\ h.chunk = k)
  BY <1>5, <1>7, Zenon
<1> QED BY <1>8, <1>9, <1>10, <1>11, <1>12, <1>13, Zenon

\* The count of a chunk goes down and stays above zero: the lists are the same.
LEMMA SameZeros ==
    ASSUME PoolInv, UNCHANGED <<next_, cursor_>>,
           \A c \in Chunks : count'[c] = 0 <=> count[c] = 0
    PROVE  PoolInv'
<1>1. SUFFICES ASSUME NEW n \in Classes PROVE (\E l \in Seq(0..(ChunksPerSize - 1)) : FreeList(n, l))'
  BY Zenon DEF PoolInv
<1>2. PICK l \in Seq(0..(ChunksPerSize - 1)) : FreeList(n, l)
  BY Zenon DEF PoolInv
<1>3. \A i \in 0..(ChunksPerSize - 1) : count'[<<n, i>>] = 0 <=> count[<<n, i>>] = 0
  BY ChunkFacts, Zenon
<1>4. FreeList(n, l)'
  BY <1>2, <1>3, Zenon DEF FreeList
<1> QED BY <1>4, Zenon

\* The receiver gives a buffer back (recycle_storage).
LEMMA RecycleInv ==
    ASSUME IInv, NEW h \in held, Recycle(h)
    PROVE  IInv'
<1> TypeInv /\ HeadInv /\ SendInv /\ LogInv /\ PartialInv /\ RefInv /\ PoolInv /\ LostInv
  BY Zenon DEF IInv
<1>1. PICK k \in Chunks : k = h.chunk
  BY Zenon DEF TypeInv
<1>2. /\ UNCHANGED <<cc, lc, constructed, inits, acc, queue, popped, content, pc, msg, cache, cut,
                     size, timeouts, leaves, ghosts>>
      /\ held' = held \ {h}
  BY Zenon DEF Recycle, recycle_storage, head, ends
<1>3. /\ count' = [count EXCEPT ![k] = (count[k] - 1) % 2^Width]
      /\ IF count[k] > 1 THEN UNCHANGED <<next_, cursor_>> ELSE release(k)
  BY <1>1, Zenon DEF Recycle, recycle_storage
<1>4. PICK M \in Nat \ {0} : M = 2^Width /\ count[k] \in 1..(M - 1)
  <2>1. 2^Width \in Nat /\ count[k] \in 0..(2^Width - 1)
    BY ChannelAssumption, Zenon DEF TypeInv
  <2>2. count[k] # 0
    BY <1>1, Zenon DEF RefInv, Carries
  <2>3. PICK M \in Nat : M = 2^Width
    BY <2>1, Zenon
  <2> QED BY <2>1, <2>2, <2>3
<1>5. (count[k] - 1) % 2^Width = count[k] - 1
  <2>1. count[k] - 1 \in 0..(M - 1)
    BY <1>4
  <2> QED BY <2>1, <1>4, ModSmall, Zenon
<1>6. /\ \A c \in Chunks \ {k} : count'[c] = count[c]
      /\ count'[k] = count[k] - 1
      /\ count' \in [Chunks -> 0..(2^Width - 1)]
  <2>1. count' = [count EXCEPT ![k] = count[k] - 1] /\ count \in [Chunks -> 0..(M - 1)]
    BY <1>3, <1>4, <1>5, Zenon DEF TypeInv
  <2>2. count[k] - 1 \in 0..(M - 1)
    BY <1>4
  <2>3. count' \in [Chunks -> 0..(M - 1)]
    BY <2>1, <2>2, Zenon
  <2> QED BY <2>1, <2>3, <1>4, Zenon
<1>7. /\ \A s \in Senders : msg[s].chunk # k
      /\ \A i \in 1..Len(queue) : queue[i].chunk # k
      /\ \A g \in held' : g.chunk # k
  BY <1>1, <1>2, OneReference, Zenon
<1>8. PICK n \in Classes, j \in 0..(ChunksPerSize - 1) : k = <<n, j>> /\ k[1] = n /\ k[2] = j
  BY ChunkFacts, Zenon
<1>9. TypeInv'
  <2>1. next_' \in [Chunks -> 0..ChunksPerSize] /\ cursor_' \in [Classes -> 0..ChunksPerSize]
    <3>1. cursor_[n] \in 0..ChunksPerSize /\ j \in 0..ChunksPerSize
      BY <1>8, ChannelAssumption DEF TypeInv
    <3>2. CASE count[k] > 1
      BY <3>2, <1>3, Zenon DEF TypeInv
    <3>3. CASE ~(count[k] > 1)
      BY <3>1, <3>3, <1>3, <1>8, Zenon DEF TypeInv, release
    <3> QED BY <3>2, <3>3, Zenon
  <2> QED BY <2>1, <1>2, <1>6, Zenon DEF TypeInv
<1>10. HeadInv'
  BY <1>2, Zenon DEF HeadInv, CountsReceivers
<1>11. SendInv'
  BY <1>2, Zenon DEF SendInv, Busy
<1>12. LogInv'
  <2>1. Log' = Log
    BY <1>2, Zenon DEF Log
  <2>2. \A i \in 1..Len(Log) : Fits(Log[i])'
    BY <2>1, <1>2, Zenon DEF LogInv, Fits
  <2>3. InOrder(Log)' /\ NoGaps(Log)'
    BY <2>1 DEF LogInv, InOrder, NoGaps
  <2>4. ASSUME NEW s \in Senders PROVE Ahead(Log, s)'
    BY <2>1, <1>2, Zenon DEF LogInv, Ahead, Busy
  <2> QED BY <2>1, <2>2, <2>3, <2>4, Zenon DEF LogInv
<1>13. PartialInv'
  BY <1>2, SamePartial, Zenon
<1>14. RefInv'
  <2>1. ASSUME NEW c, c # k, NEW id, Carries(c, id), c \in Chunks PROVE Carries(c, id)'
    BY <2>1, <1>2, <1>6, Zenon DEF Carries
  <2>2. ASSUME NEW s \in Senders, msg[s].chunk # None PROVE Carries(msg[s].chunk, msg[s].id)'
    <3>1. msg[s].chunk \in Chunks /\ msg[s].chunk # k /\ Carries(msg[s].chunk, msg[s].id)
      BY <2>2, <1>7 DEF TypeInv, MsgType, RefInv
    <3> QED BY <3>1, <2>1, <1>2, Zenon DEF Carries
  <2>3. ASSUME NEW i \in 1..Len(queue), queue[i].chunk # None
        PROVE  Carries(queue[i].chunk, queue[i].id)'
    <3>1. queue[i] \in ItemType
      BY DEF TypeInv
    <3>2. queue[i].chunk \in Chunks /\ queue[i].chunk # k /\ Carries(queue[i].chunk, queue[i].id)
      BY <2>3, <3>1, <1>7, Zenon DEF ItemType, RefInv
    <3> QED BY <3>2, <2>1, <1>2, Zenon DEF Carries
  <2>4. ASSUME NEW g \in held'
        PROVE  /\ Carries(g.chunk, g.id)'
               /\ \E i \in 1..Len(popped') : popped'[i].id = g.id /\ popped'[i].chunk = g.chunk
    <3>1. g.chunk \in Chunks /\ g.chunk # k /\ g \in held
      BY <1>2, <1>7, Zenon DEF TypeInv
    <3>2. /\ Carries(g.chunk, g.id)
          /\ \E i \in 1..Len(popped) : popped[i].id = g.id /\ popped[i].chunk = g.chunk
      BY <3>1, Zenon DEF RefInv
    <3> QED BY <3>1, <3>2, <2>1, <1>2, Zenon
  <2> QED BY <1>2, <2>2, <2>3, <2>4, Zenon DEF RefInv
<1>15. PoolInv'
  <2>1. CASE count[k] > 1
    <3>1. \A c \in Chunks : count'[c] = 0 <=> count[c] = 0
      BY <2>1, <1>4, <1>6
    <3> QED BY <2>1, <3>1, <1>3, SameZeros, Zenon
  <2>2. CASE ~(count[k] > 1)
    <3>1. count[k] = 1
      BY <2>2, <1>4
    <3>2. /\ next_' = [next_ EXCEPT ![<<n, j>>] = cursor_[n]]
          /\ cursor_' = [cursor_ EXCEPT ![n] = j]
      BY <2>2, <1>3, <1>8, Zenon DEF release
    <3>3. count' = [count EXCEPT ![k] = 0]
      <4>1. (count[k] - 1) % 2^Width = 0
        BY <3>1, <1>5
      <4> QED BY <4>1, <1>3, Zenon
    <3>4. count' = [count EXCEPT ![<<n, j>>] = 0] /\ count[<<n, j>>] # 0
      BY <3>1, <3>3, <1>8
    <3> QED BY <3>2, <3>4, ReleaseList, Zenon
  <2> QED BY <2>1, <2>2, Zenon
<1>16. LostInv'
  <2>1. SUFFICES ASSUME timeouts = 0 /\ leaves = 0
                 PROVE  /\ cc = 0 \/ (cc = 1 /\ pc[Receiver] = "receiving")
                        /\ \A c \in Chunks : count'[c] # 0 => count'[c] = 1 /\ Referred(c)'
    BY <1>2, Zenon DEF LostInv
  <2>2. count'[k] = 0
    BY <2>1, <1>4, <1>6 DEF LostInv
  <2>3. ASSUME NEW c \in Chunks, count'[c] # 0 PROVE count'[c] = 1 /\ Referred(c)'
    <3>1. c # k /\ count'[c] = count[c] /\ count[c] = 1 /\ Referred(c)
      BY <2>1, <2>2, <2>3, <1>6, Zenon DEF LostInv
    <3>2. \A g \in held : g.chunk = c => g \in held'
      BY <3>1, <1>1, <1>2, Zenon
    <3> QED BY <3>1, <3>2, <1>2, Zenon DEF Referred
  <2> QED BY <2>1, <2>3, Zenon DEF LostInv
<1> QED BY <1>9, <1>10, <1>11, <1>12, <1>13, <1>14, <1>15, <1>16, Zenon DEF IInv

-----------------------------------------------------------------------------
(* The specification *)

LEMMA SendInvStep ==
    ASSUME IInv, NEW s \in Senders, NEW n \in Sizes, Send(s, n)
    PROVE  IInv'
<1>1. CASE cc = 0
  BY <1>1, SendFails, Zenon
<1>2. CASE cc # 0
  BY <1>2, SendDraws, Zenon
<1> QED BY <1>1, <1>2, Zenon

\* A step that changes nothing.
LEMMA StutterInv ==
    ASSUME IInv, UNCHANGED vars
    PROVE  IInv'
<1> TypeInv /\ HeadInv /\ SendInv /\ LogInv /\ PartialInv /\ RefInv /\ PoolInv /\ LostInv
  BY Zenon DEF IInv
<1>1. UNCHANGED <<cc, lc, constructed, inits, acc, queue, popped, next_, cursor_, count, content, pc,
                  msg, cache, held, cut, size, timeouts, leaves, ghosts>>
  BY Zenon DEF vars, head, pools, receiving, ends
<1>2. TypeInv'
  BY <1>1, Zenon DEF TypeInv
<1>3. HeadInv'
  BY <1>1, Zenon DEF HeadInv, CountsReceivers
<1>4. Calm
  BY <1>1, Zenon DEF Calm
<1>5. SendInv' /\ LogInv'
  BY <1>1, <1>4, CalmSends, Zenon
<1>6. PartialInv'
  BY <1>1, SamePartial, Zenon
<1>7. RefInv'
  BY <1>1, <1>4, CalmRefs, Zenon
<1>8. PoolInv'
  BY <1>1, SamePools, Zenon
<1>9. LostInv'
  BY <1>1, Zenon DEF LostInv, Referred
<1> QED BY <1>2, <1>3, <1>5, <1>6, <1>7, <1>8, <1>9, Zenon DEF IInv

\* Every step keeps the invariant.
LEMMA NextInv == IInv /\ [Next]_vars => IInv'
<1> SUFFICES ASSUME IInv, [Next]_vars PROVE IInv'
  BY Zenon
<1>1. CASE \E x \in Procs : Opening(x)
  BY <1>1, OpeningInv, Zenon
<1>2. CASE Connect
  BY <1>2, ConnectInv, Zenon
<1>3. CASE \E clean \in BOOLEAN : Leave(clean)
  BY <1>3, LeaveInv, Zenon
<1>4. CASE \E s \in Senders, n \in Sizes : Send(s, n)
  BY <1>4, SendInvStep, Zenon
<1>5. CASE \E s \in Senders : Sending(s)
  BY <1>5, StorageInv, PushInv, PushTimeoutInv, WaitForRecvInv, Zenon DEF Sending
<1>6. CASE Recv
  BY <1>6, RecvInv, Zenon
<1>7. CASE \E h \in held : Recycle(h)
  BY <1>7, RecycleInv, Zenon
<1>8. CASE UNCHANGED vars
  BY <1>8, StutterInv, Zenon
<1> QED BY <1>1, <1>2, <1>3, <1>4, <1>5, <1>6, <1>7, <1>8, Zenon DEF Next

LEMMA ChannelInvariant == Spec => []IInv
<1>1. Init => IInv
  BY InitInv, Zenon
<1> QED BY <1>1, NextInv, PTL DEF Spec

-----------------------------------------------------------------------------
(* What the invariant says of the properties *)

\* The set that the cursor leads to is the free list, that is the chunks of
\* count zero (id_pool).
LEMMA FreeIsZero ==
    ASSUME IInv, NEW n \in Classes, NEW i \in 0..(ChunksPerSize - 1)
    PROVE  <<n, i>> \in Free(n) <=> count[<<n, i>>] = 0
<1> TypeInv /\ PoolInv
  BY Zenon DEF IInv
<1> DEFINE Follows(S) ==
        /\ cursor_[n] \in S
        /\ \A a \in S \ {ChunksPerSize} : next_[<<n, a>>] \in S
<1>1. PICK l \in Seq(0..(ChunksPerSize - 1)) : FreeList(n, l)
  BY Zenon DEF PoolInv
<1>2. <<n, i>> \in Free(n) <=> \A S \in SUBSET (0..ChunksPerSize) : Follows(S) => i \in S
  <2>1. <<n, i>> \in Free(n) <=> i \in {j \in 0..(ChunksPerSize - 1) :
            \A S \in SUBSET (0..ChunksPerSize) : Follows(S) => j \in S}
    BY Zenon DEF Free
  <2> HIDE DEF Follows
  <2> QED BY <2>1, Zenon
<1>3. Len(l) \in Nat /\ \A j \in 1..Len(l) : l[j] \in 0..(ChunksPerSize - 1)
  BY ChannelAssumption
<1>4. ChunksPerSize \in Nat
  BY ChannelAssumption, Zenon
<1>5. ASSUME \A S \in SUBSET (0..ChunksPerSize) : Follows(S) => i \in S
      PROVE  count[<<n, i>>] = 0
  <2> DEFINE S == {l[j] : j \in 1..Len(l)} \cup {ChunksPerSize}
  <2>1. S \in SUBSET (0..ChunksPerSize)
    BY <1>3, <1>4
  <2>2. cursor_[n] \in S
    <3>1. l # << >> => 1 \in 1..Len(l)
      OBVIOUS
    <3> QED BY <3>1, <1>1 DEF FreeList
  <2>3. ASSUME NEW a \in S \ {ChunksPerSize} PROVE next_[<<n, a>>] \in S
    <3>1. PICK j \in 1..Len(l) : a = l[j]
      BY Zenon
    <3>2. j # Len(l) => j + 1 \in 1..Len(l)
      BY <1>3
    <3>3. next_[<<n, a>>] = IF j = Len(l) THEN ChunksPerSize ELSE l[j + 1]
      BY <3>1, <1>1, Zenon DEF FreeList
    <3> QED BY <3>2, <3>3, Zenon
  <2>4. i \in S
    BY <2>1, <2>2, <2>3, <1>5, Zenon
  <2>5. i # ChunksPerSize
    BY <1>4
  <2> QED BY <2>4, <2>5, <1>1, Zenon DEF FreeList
<1>6. ASSUME count[<<n, i>>] = 0, NEW S \in SUBSET (0..ChunksPerSize), Follows(S)
      PROVE  i \in S
  <2> DEFINE T == {j \in 1..Len(l) : l[j] \notin S}
  <2>1. PICK j \in 1..Len(l) : l[j] = i
    BY <1>1, <1>6, Zenon DEF FreeList
  <2>2. SUFFICES ASSUME T # {} PROVE FALSE
    BY <2>1, Zenon
  <2>3. PICK x \in T : \A y \in T : x <= y
    <3>1. T \in SUBSET Nat
      BY <1>3
    <3>2. PICK x \in T : \A y \in T : ~ (<<y, x>> \in OpToRel(<, Nat))
      BY <2>2, <3>1, WFMin, NatLessThanWellFounded, Zenon
    <3>3. \A y \in T : ~(y < x)
      BY <3>1, <3>2, Zenon DEF OpToRel
    <3> QED BY <3>1, <3>3
  <2>4. x \in 1..Len(l) /\ l[x] \notin S
    BY <2>3, Zenon
  <2>5. CASE x = 1
    BY <2>4, <2>5, <1>1, <1>3, <1>6 DEF FreeList
  <2>6. CASE x # 1
    <3>1. PICK y \in 1..Len(l) : y = x - 1
      BY <2>4, <2>6, <1>3
    <3>2. y \notin T
      BY <2>3, <2>4, <3>1, <1>3
    <3>3. l[y] \in S \ {ChunksPerSize}
      BY <3>1, <3>2, <1>3, <1>4
    <3>4. next_[<<n, l[y]>>] = l[x]
      <4>1. y # Len(l) /\ y + 1 = x
        BY <3>1, <2>4, <1>3
      <4> QED BY <4>1, <1>1, Zenon DEF FreeList
    <3> QED BY <2>4, <3>3, <3>4, <1>6, Zenon
  <2> QED BY <2>5, <2>6, Zenon
<1> QED BY <1>2, <1>5, <1>6, Zenon

LEMMA FreeChunk ==
    ASSUME IInv, NEW k \in Chunks
    PROVE  k \in Free(k[1]) <=> count[k] = 0
<1> TypeInv /\ PoolInv
  BY Zenon DEF IInv
<1>1. PICK n \in Classes, j \in 0..(ChunksPerSize - 1) : k = <<n, j>> /\ k[1] = n
  BY ChunkFacts, Zenon
<1> QED BY <1>1, FreeIsZero, Zenon

\* The two ways of naming the references to a chunk.
LEMMA UsesReferred ==
    ASSUME IInv, NEW k
    PROVE  Uses(k) = {} <=> ~Referred(k)
<1> TypeInv
  BY Zenon DEF IInv
<1>1. DOMAIN queue = 1..Len(queue)
  BY DEF TypeInv
<1> QED BY <1>1, Zenon DEF Uses, Referred

LEMMA OneUse ==
    ASSUME IInv, NEW k \in Chunks
    PROVE  /\ \A u, v \in Uses(k) : u = v
           /\ \A u \in Uses(k) : content[k] = u[2] /\ count[k] # 0
<1> TypeInv /\ HeadInv /\ SendInv /\ LogInv /\ PartialInv /\ RefInv /\ PoolInv /\ LostInv
  BY Zenon DEF IInv
<1>1. DOMAIN queue = 1..Len(queue) /\ k # None
  BY ChunkFacts DEF TypeInv
<1>2. /\ \A s \in Senders : msg[s].chunk = k => msg[s].id = content[k] /\ count[k] # 0
      /\ \A i \in 1..Len(queue) : queue[i].chunk = k => queue[i].id = content[k] /\ count[k] # 0
      /\ \A h \in held : h.chunk = k => h.id = content[k] /\ count[k] # 0
  BY <1>1 DEF RefInv, Carries
<1>3. ASSUME NEW u \in Uses(k)
      PROVE  /\ u[2] = content[k] /\ count[k] # 0
             /\ \/ u = <<"sender", content[k]>> /\ \E s \in Senders : msg[s].chunk = k
                \/ u = <<"ring", content[k]>> /\ \E i \in 1..Len(queue) : queue[i].chunk = k
                \/ u = <<"receiver", content[k]>> /\ \E h \in held : h.chunk = k
  BY <1>1, <1>2 DEF Uses
<1>4. ASSUME NEW u \in Uses(k), NEW v \in Uses(k) PROVE u = v
  BY <1>3, OneReference
<1> QED BY <1>3, <1>4, Zenon

LEMMA InvOneMessage == IInv => OneMessagePerChunk
<1> SUFFICES ASSUME IInv PROVE OneMessagePerChunk
  BY Zenon
<1>1. TypeOK
  BY TypeOKInv, Zenon DEF IInv
<1>2. ASSUME NEW k \in Chunks
      PROVE  /\ \A u, v \in Uses(k) : u = v
             /\ \A u \in Uses(k) : content[k] = u[2] /\ k \notin Free(k[1]) /\ count[k] # 0
  BY OneUse, FreeChunk, Zenon DEF IInv
<1> QED BY <1>1, <1>2, Zenon DEF OneMessagePerChunk

LEMMA InvComeBack == IInv => ChunksComeBack
<1> SUFFICES ASSUME IInv, NEW k \in Chunks
             PROVE  /\ k \in Free(k[1]) <=> count[k] = 0
                    /\ k \notin Free(k[1]) /\ Uses(k) = {} => timeouts > 0 \/ leaves > 0
  BY Zenon DEF ChunksComeBack
<1>1. k \in Free(k[1]) <=> count[k] = 0
  BY FreeChunk, Zenon DEF IInv
<1>2. ASSUME count[k] # 0, ~Referred(k) PROVE timeouts > 0 \/ leaves > 0
  <2>1. timeouts \in Nat /\ leaves \in Nat
    BY DEF IInv, TypeInv
  <2>2. ~(timeouts = 0 /\ leaves = 0)
    BY <1>2, Zenon DEF IInv, LostInv
  <2> QED BY <2>1, <2>2
<1> QED BY <1>1, <1>2, UsesReferred, Zenon DEF IInv

LEMMA InvWhole == IInv => WholeMessages
<1> SUFFICES ASSUME IInv, queue # << >>, NEW m, m = Head(queue)
             PROVE  \/ Buffer(m) \in {<< >>, Whole(m.id)}
                    \/ /\ m.id \in cut
                       /\ \E i \in 2..size[m.id] : Buffer(m) = SubSeq(Whole(m.id), i, size[m.id])
  BY Zenon DEF WholeMessages
<1> TypeInv /\ HeadInv /\ SendInv /\ LogInv /\ PartialInv /\ RefInv /\ PoolInv /\ LostInv
  BY Zenon DEF IInv
<1>1. m \in ItemType /\ Fits(m) /\ m = queue[1] /\ Len(queue) \in Nat \ {0}
  BY HeadItem, Zenon
<1>2. m.id \in 0..(acc - 1) /\ m.piece \in Nat /\ m.left \in Nat /\ size[m.id] \in Nat
  BY <1>1, ChannelAssumption, Zenon DEF Fits, ItemType, TypeInv
<1>3. CASE m.chunk # None
  <2>1. m.id \notin DOMAIN cache /\ m.left > 1 /\ Found(m)
    BY <1>3, ChunkFound, Zenon
  <2>2. content[m.chunk] = m.id
    BY <1>1, <1>3 DEF RefInv, Carries
  <2>3. Buffer(m) = Whole(m.id)
    BY <2>1, <2>2, <1>2 DEF Buffer
  <2> QED BY <2>3, Zenon
<1>4. CASE m.chunk = None /\ m.left > 1
  <2>1. Buffer(m) = << >>
    BY <1>2, <1>4 DEF Buffer, Found
  <2> QED BY <2>1, Zenon
<1>5. CASE m.chunk = None /\ m.left <= 1
  <2>1. m.piece = size[m.id] /\ m.piece \in 1..size[m.id]
    BY <1>1, <1>2, <1>5 DEF Fits
  <2>2. PICK a \in 1..size[m.id] : Buffer(m) = Part(m.id, a, size[m.id]) /\ (a > 1 => m.id \in cut)
    <3>1. CASE m.id \in DOMAIN cache
      <4>1. PICK a \in 1..(m.piece - 1) : cache[m.id] = Part(m.id, a, m.piece - 1) /\ (a > 1 => m.id \in cut)
        BY <3>1, KeptBefore, Zenon
      <4>2. Buffer(m) = Append(cache[m.id], <<m.id, m.piece>>)
        BY <3>1, <1>2, <1>5 DEF Buffer, Bytes
      <4>3. a \in 1..size[m.id] /\ a \in Nat \ {0} /\ a <= m.piece
        BY <2>1, <1>2
      <4>4. Append(Part(m.id, a, m.piece - 1), <<m.id, m.piece>>) = Part(m.id, a, m.piece)
        BY <4>3, <1>2, PartGrows, Zenon
      <4>5. Buffer(m) = Part(m.id, a, size[m.id])
        BY <4>1, <4>2, <4>4, <2>1, Zenon
      <4> QED BY <4>1, <4>3, <4>5, Zenon
    <3>2. CASE m.id \notin DOMAIN cache
      <4>1. Buffer(m) = << <<m.id, m.piece>> >>
        BY <3>2, <1>2, <1>5 DEF Buffer, Bytes
      <4>2. Part(m.id, m.piece, m.piece) = << <<m.id, m.piece>> >>
        BY <1>2 DEF Part
      <4>3. m.piece > 1 => m.id \in cut
        BY <3>2, KeptBefore, Zenon
      <4> QED BY <4>1, <4>2, <4>3, <2>1, Zenon
    <3> QED BY <3>1, <3>2, Zenon
  <2>3. /\ Part(m.id, a, size[m.id]) = SubSeq(Whole(m.id), a, size[m.id])
        /\ a = 1 => Part(m.id, a, size[m.id]) = Whole(m.id)
    BY <1>2, PartIsTail, Zenon
  <2>4. a # 1 => a > 1 /\ a \in 2..size[m.id]
    BY <1>2
  <2> QED BY <2>2, <2>3, <2>4, Zenon
<1> QED BY <1>2, <1>3, <1>4, <1>5

-----------------------------------------------------------------------------
(* The theorems *)

\* The count of receivers is exact, and a sender never sleeps beside a receiver
\* that is there, while no push has timed out and the head was constructed once
\* (connect_receiver, disconnect_receiver, wait_for_recv).
THEOREM ReceiversCounted == Spec => []CountsReceivers
<1>1. IInv => CountsReceivers
  BY Zenon DEF IInv, HeadInv
<1> QED BY <1>1, ChannelInvariant, PTL

\* A chunk of shared memory carries one message at a time: as long as a sender,
\* the ring or the receiver refers to it, it is off the free list, its count is
\* not zero and its bytes are that message's (apply_storage, recycle_storage).
THEOREM ChunkSafe == Spec => []OneMessagePerChunk
BY InvOneMessage, ChannelInvariant, PTL

\* A chunk is on the free list exactly when its count is zero, and only a push
\* that timed out or a receiver that ended loses one (id_pool, recycle_storage).
THEOREM ChunksReturn == Spec => []ChunksComeBack
BY InvComeBack, ChannelInvariant, PTL

\* Every buffer that recv returns is one message as it was sent, or the tail of
\* one whose beginning recv's cache has dropped.
THEOREM MessagesWhole == Spec => []WholeMessages
BY InvWhole, ChannelInvariant, PTL

\* The processes use the ring only through push and pop as the bounded queue
\* ShmFifo has them, with items of its type: what ShmRing proves of the ring is
\* all that the channel asks of it (prod_cons.h under ipc.cpp).
THEOREM ChannelUsesFifo == Spec => Ring!Spec
<1>1. Init => Ring!Init
  BY Zenon DEF Init, Ring!Init
<1>2. IInv /\ [Next]_vars => [Ring!Next]_(Ring!fifoVars)
  <2> SUFFICES ASSUME IInv, [Next]_vars PROVE Ring!Next \/ UNCHANGED <<queue, popped>>
    BY Zenon DEF Ring!fifoVars
  <2>1. CASE \E x \in Procs : Opening(x)
    BY <2>1, Zenon DEF Opening, InitDone, InitLock, InitNew, InitMark, receiving
  <2>2. CASE Connect
    BY <2>2, Zenon DEF Connect, receiving
  <2>3. CASE \E clean \in BOOLEAN : Leave(clean)
    BY <2>3, Zenon DEF Leave
  <2>4. CASE \E s \in Senders, n \in Sizes : Send(s, n)
    BY <2>4, Zenon DEF Send, receiving
  <2>5. ASSUME NEW s \in Senders, Sending(s) PROVE Ring!Next \/ UNCHANGED <<queue, popped>>
    <3>1. CASE Push(s)
      <4>1. pc[s] = "push" /\ Ring!Put(Item(s))
        BY <3>1, Zenon DEF Push
      <4>2. Item(s) \in [id : Nat, left : Nat, chunk : Chunks \cup {None}, piece : Nat]
        BY <4>1, ItemFits, Zenon DEF IInv, ItemType
      <4> QED BY <4>1, <4>2, Zenon DEF Ring!Next
    <3>2. CASE Storage(s) \/ PushTimeout(s) \/ WaitForRecv(s)
      BY <3>2, Zenon DEF Storage, PushTimeout, WaitForRecv, receiving
    <3> QED BY <3>1, <3>2, <2>5, Zenon DEF Sending
  <2>6. CASE Recv
    BY <2>6, Zenon DEF Recv, Ring!Next
  <2>7. CASE \E h \in held : Recycle(h)
    BY <2>7, Zenon DEF Recycle
  <2>8. CASE UNCHANGED vars
    BY <2>8, Zenon DEF vars, receiving
  <2> QED BY <2>1, <2>2, <2>3, <2>4, <2>5, <2>6, <2>7, <2>8, Zenon DEF Next
<1> QED BY <1>1, <1>2, ChannelInvariant, PTL DEF Spec, Ring!Spec
=============================================================================
