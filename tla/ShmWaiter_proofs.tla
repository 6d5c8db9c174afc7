-------------------------- MODULE ShmWaiter_proofs --------------------------
(***************************************************************************)
(* No wake-up of module ShmWaiter is lost, for every number of processes,  *)
(* items, timeouts, signals, kills and closes.                             *)
(***************************************************************************)
EXTENDS ShmWaiter, Integers, FiniteSetTheorems, TLAPS

Inside == {w \in Waiters : pc[w] \in {"flag", "lock", "pred", "loop", "dest",
                                      "sleep", "nap", "exit"}}
Running == {p \in Procs : pc[p] # "closed"}

(* Somebody has posted and waits for the handshakes. *)
Shaking == \/ \E s \in Senders : pc[s] = "shake"
           \/ \E w \in Waiters : handler[w] = "shake"

(* A broadcast will still post for what came to light. *)
Announcing == \E s \in Senders : pc[s] \in {"look", "lock", "post"}

(* Where each kind of process can be, and what goes with it. *)
Places ==
  /\ \A s \in Senders : pc[s] \in {"closed", "idle", "look", "lock", "post", "shake"}
  /\ \A w \in Waiters : pc[w] \notin {"look", "post", "shake"}
  /\ \A w \in Waiters : pc[w] = "sleep" /\ need_dest[w] => ~is_waiting[w]
  /\ \A w \in Waiters : handler[w] \in {"lock", "shake"} => pc[w] # "closed"
  /\ \A w \in Waiters : handler[w] = "shake" => pc[w] # "pred"
  /\ \A s \in buf : pc[s] \in {"look", "lock", "idle", "closed"}

(* The owner of the mutex is the process in its critical section. *)
Owned ==
  \A p \in Procs :
    lock = p <=> \/ p \in Senders /\ pc[p] \in {"post", "shake"}
                 \/ p \in Waiters /\ pc[p] = "pred"
                 \/ p \in Waiters /\ handler[p] = "shake"

(* What the shared counters bound: the items made, the processes inside     *)
(* wait_if, those that have the channel open, and the sleepers.             *)
Counts ==
  /\ items + Cardinality(buf) <= made
  /\ Cardinality(Inside) <= waiting
  /\ Cardinality(Running) <= opened
  /\ Cardinality(Asleep) <= counter + sema
  /\ Shaking => Cardinality(Asleep) <= sema
  /\ items > 0 /\ ~unannounced /\ ~Announcing => Cardinality(Asleep) <= sema

IInv == TypeOK /\ Places /\ Owned /\ Counts
-----------------------------------------------------------------------------
(* Cardinalities of what a step leaves of a set, adds to it and takes away. *)

LEMMA Shrinks ==
  ASSUME NEW S, NEW T, IsFiniteSet(S), T \subseteq S
  PROVE  /\ IsFiniteSet(T) /\ Cardinality(T) \in Nat /\ Cardinality(S) \in Nat
         /\ Cardinality(T) <= Cardinality(S)
BY FS_Subset, FS_CardinalityType, Zenon

LEMMA Grows ==
  ASSUME NEW S, NEW T, NEW x, IsFiniteSet(S), T \subseteq S \cup {x}
  PROVE  /\ IsFiniteSet(T) /\ Cardinality(T) \in Nat /\ Cardinality(S) \in Nat
         /\ Cardinality(T) <= Cardinality(S) + 1
<1>1. IsFiniteSet(S \cup {x}) /\ Cardinality(S \cup {x}) <= Cardinality(S) + 1
      /\ Cardinality(S) \in Nat
  BY FS_AddElement, FS_CardinalityType
<1> QED BY <1>1, FS_Subset, FS_CardinalityType

LEMMA Loses ==
  ASSUME NEW S, NEW T, NEW x \in S, IsFiniteSet(S), T \subseteq S \ {x}
  PROVE  /\ IsFiniteSet(T) /\ Cardinality(T) \in Nat /\ Cardinality(S) \in Nat
         /\ Cardinality(T) + 1 <= Cardinality(S)
<1>1. IsFiniteSet(S \ {x}) /\ Cardinality(S \ {x}) = Cardinality(S) - 1
      /\ Cardinality(S) \in Nat
  BY FS_RemoveElement, FS_CardinalityType, Zenon
<1> QED BY <1>1, FS_Subset, FS_CardinalityType

(* The sets that are counted are finite, and the sleepers are inside. *)
LEMMA Sizes ==
  ASSUME TypeOK
  PROVE  /\ IsFiniteSet(buf) /\ IsFiniteSet(Inside) /\ IsFiniteSet(Running)
         /\ IsFiniteSet(Asleep)
         /\ Cardinality(buf) \in Nat /\ Cardinality(Inside) \in Nat
         /\ Cardinality(Running) \in Nat /\ Cardinality(Asleep) \in Nat
         /\ Cardinality(Asleep) <= Cardinality(Inside)
<1>1. IsFiniteSet(Procs)
  BY Kinds, FS_Union, Zenon DEF Procs
<1>2. buf \subseteq Senders /\ Inside \subseteq Waiters /\ Running \subseteq Procs
      /\ Asleep \subseteq Waiters
  BY Kinds, Zenon DEF TypeOK, Inside, Running, Asleep
<1>3. Asleep \subseteq Inside
  BY Zenon DEF Asleep, Inside
<1>4. IsFiniteSet(buf) /\ IsFiniteSet(Inside) /\ IsFiniteSet(Running) /\ IsFiniteSet(Asleep)
  BY <1>1, <1>2, Kinds, FS_Subset, Zenon
<1> QED BY <1>3, <1>4, Shrinks, FS_CardinalityType, Zenon

(* What the initial state and the steps must show of the types, in parts    *)
(* small enough for the provers.                                            *)
Numbers ==
  /\ items \in Nat /\ made \in 0..MaxItems /\ events \in 0..MaxEvents
  /\ waiting \in Nat /\ counter \in Nat /\ sema \in Nat /\ handshake \in Nat
  /\ opened \in Nat
Kept ==
  /\ buf \subseteq Plain /\ lock \in Procs \cup {None}
  /\ pc \in [Procs -> {"closed", "idle", "look", "lock", "post",
                       "shake", "flag", "pred", "loop", "dest", "sleep", "nap",
                       "exit", "confirm"}]
  /\ handler \in [Waiters -> {"none", "lock", "shake", "ran"}]
Flags ==
  /\ is_waiting \in [Waiters -> BOOLEAN] /\ need_dest \in [Waiters -> BOOLEAN]
  /\ unannounced \in BOOLEAN

(* The first state, in which every process is still to open the channel. *)
LEMMA InitInv == Init => IInv
<1> SUFFICES ASSUME Init PROVE IInv
  BY Zenon
<1>1. TypeOK
  <2>1. Numbers /\ Kept /\ items <= made
    BY Kinds DEF Init, Numbers, Kept, Procs
  <2>2. Flags
    BY Zenon DEF Init, Flags
  <2> QED BY <2>1, <2>2, Kinds DEF Numbers, Kept, Flags, TypeOK
<1>2. Places /\ Owned
  BY Kinds, Zenon DEF Init, Places, Owned, Procs
<1>3. buf = {} /\ Inside = {} /\ Running = {} /\ Asleep = {}
  BY Zenon DEF Init, Inside, Running, Asleep, Procs
<1>4. Counts
  BY <1>3, FS_EmptySet DEF Init, Counts
<1> QED BY <1>1, <1>2, <1>4, Zenon DEF IInv
(* broadcast reads waiting_: when it is 0, nobody sleeps. *)
LEMMA LookInv ==
  ASSUME IInv, NEW s \in Senders, Look(s)
  PROVE  IInv'
<1> USE DEF Runs, Goto, shared, bounds, Procs
<1>0. TypeOK /\ Places /\ Owned /\ Counts
  BY Zenon DEF IInv
<1>1. Places'
  BY <1>0, Kinds, Zenon DEF TypeOK, Places, Look
<1>2. Owned'
  BY <1>0, Kinds, Zenon DEF TypeOK, Owned, Places, Look
<1>3. buf' = buf /\ Inside' = Inside /\ Running' = Running /\ Asleep' = Asleep
  BY <1>0, Kinds DEF TypeOK, Places, Inside, Running, Asleep, Look
<1>4. Counts'
  BY <1>0, <1>3, Sizes DEF TypeOK, Counts, Shaking, Announcing, Owned, Places, Look
<1>5. TypeOK'
  BY <1>0, Kinds, Zenon DEF TypeOK, Look
<1> QED BY <1>1, <1>2, <1>4, <1>5, Zenon DEF IInv
(* broadcast takes the lock. *)
LEMMA LockInv ==
  ASSUME IInv, NEW s \in Senders, Lock(s)
  PROVE  IInv'
<1> USE DEF Runs, Goto, shared, bounds, Procs
<1>0. TypeOK /\ Places /\ Owned /\ Counts
  BY Zenon DEF IInv
<1>1. Places'
  BY <1>0, Kinds DEF TypeOK, Places, Lock, Acquire
<1>2. Owned'
  BY <1>0, Kinds, Zenon DEF TypeOK, Owned, Places, Lock, Acquire
<1>3. buf' = buf /\ Inside' = Inside /\ Running' = Running /\ Asleep' = Asleep
  BY <1>0, Kinds DEF TypeOK, Places, Inside, Running, Asleep, Lock, Acquire
<1>4. Counts'
  BY <1>0, <1>3, Sizes, Zenon DEF TypeOK, Counts, Shaking, Announcing, Owned, Places, Lock, Acquire
<1>5. TypeOK'
  BY <1>0, Kinds, Zenon DEF TypeOK, Lock, Acquire
<1> QED BY <1>1, <1>2, <1>4, <1>5, Zenon DEF IInv
(* broadcast posts for everyone counted. *)
LEMMA PostInv ==
  ASSUME IInv, NEW s \in Senders, Post(s)
  PROVE  IInv'
<1> USE DEF Runs, Goto, shared, bounds, Procs
<1>0. TypeOK /\ Places /\ Owned /\ Counts
  BY Zenon DEF IInv
<1>1. Places'
  BY <1>0, Kinds DEF TypeOK, Places, Post, Release
<1>2. Owned'
  BY <1>0, Kinds DEF TypeOK, Owned, Places, Post, Release
<1>3. buf' = buf /\ Inside' = Inside /\ Running' = Running /\ Asleep' = Asleep
  BY <1>0, Kinds DEF TypeOK, Places, Inside, Running, Asleep, Post, Release
<1>4. Counts'
  BY <1>0, <1>3, Sizes DEF TypeOK, Counts, Shaking, Announcing, Owned, Places, Post, Release
<1>5. TypeOK'
  <2>1. Numbers' /\ Kept'
    BY <1>0, <1>3, Sizes, Kinds DEF TypeOK, Counts, Numbers, Kept, Post, Release
  <2>2. Flags'
    BY <1>0, Zenon DEF TypeOK, Flags, Post, Release
  <2>3. items' <= made'
    BY <1>4, <1>0, <1>3, Sizes DEF TypeOK, Counts, Post, Release
  <2> QED BY <2>1, <2>2, <2>3, Kinds DEF Numbers, Kept, Flags, TypeOK
<1> QED BY <1>1, <1>2, <1>4, <1>5, Zenon DEF IInv
(* broadcast counts those posted for down. *)
LEMMA ShakeInv ==
  ASSUME IInv, NEW s \in Senders, Shake(s)
  PROVE  IInv'
<1> USE DEF Runs, Goto, shared, bounds, Procs
<1>0. TypeOK /\ Places /\ Owned /\ Counts
  BY Zenon DEF IInv
<1>1. Places'
  BY <1>0, Kinds DEF TypeOK, Places, Shake, Release
<1>2. Owned'
  BY <1>0, Kinds DEF TypeOK, Owned, Places, Shake, Release
<1>3. buf' = buf /\ Inside' = Inside /\ Running' = Running /\ Asleep' = Asleep
  BY <1>0, Kinds DEF TypeOK, Places, Inside, Running, Asleep, Shake, Release
<1>4. Counts'
  BY <1>0, <1>3, Sizes DEF TypeOK, Counts, Shaking, Announcing, Owned, Places, Shake, Release
<1>5. TypeOK'
  BY <1>0, Kinds DEF TypeOK, Shake, Release
<1> QED BY <1>1, <1>2, <1>4, <1>5, Zenon DEF IInv
(* A sender makes something available. *)
LEMMA MakeAvailableInv ==
  ASSUME IInv, NEW s \in Senders, MakeAvailable(s)
  PROVE  IInv'
<1> USE DEF Runs, Goto, shared, bounds, Procs
<1>0. TypeOK /\ Places /\ Owned /\ Counts
  BY Zenon DEF IInv
<1>1. Places'
  BY <1>0, Kinds DEF TypeOK, Places, MakeAvailable
<1>2. Owned'
  BY <1>0, Kinds, Zenon DEF TypeOK, Owned, Places, MakeAvailable
<1>3. Inside' = Inside /\ Running' = Running /\ Asleep' = Asleep
  BY <1>0, Kinds DEF TypeOK, Places, Inside, Running, Asleep, MakeAvailable
<1>4. Cardinality(buf') \in Nat /\ Cardinality(buf') <= Cardinality(buf) + 1
  <2>1. buf' \subseteq buf \cup {s}
    BY <1>0, Kinds, Zenon DEF TypeOK, Places, MakeAvailable
  <2> QED BY <1>0, <2>1, Sizes, Grows, Zenon
<1>5. Counts'
  BY <1>0, <1>3, <1>4, Sizes DEF TypeOK, Counts, Shaking, Announcing, Owned, Places, MakeAvailable
<1>6. TypeOK'
  <2>1. Numbers' /\ Kept'
    BY <1>0, <1>3, <1>4, Sizes, Kinds DEF TypeOK, Counts, Numbers, Kept, MakeAvailable
  <2>2. Flags'
    BY <1>0, Zenon DEF TypeOK, Flags, MakeAvailable
  <2>3. items' <= made'
    BY <1>5, <1>0, <1>3, <1>4, Sizes DEF TypeOK, Counts, MakeAvailable
  <2> QED BY <2>1, <2>2, <2>3, Kinds DEF Numbers, Kept, Flags, TypeOK
<1> QED BY <1>1, <1>2, <1>5, <1>6, Zenon DEF IInv
(* A store becomes visible. *)
LEMMA DrainInv ==
  ASSUME IInv, NEW s \in Senders, Drain(s)
  PROVE  IInv'
<1> USE DEF Runs, Goto, shared, bounds, Procs
<1>0. TypeOK /\ Places /\ Owned /\ Counts
  BY Zenon DEF IInv
<1>1. Places'
  BY <1>0, Kinds, Zenon DEF TypeOK, Places, Drain
<1>2. Owned'
  BY <1>0, Kinds, Zenon DEF TypeOK, Owned, Places, Drain
<1>3. Inside' = Inside /\ Running' = Running /\ Asleep' = Asleep
  BY <1>0, Kinds DEF TypeOK, Places, Inside, Running, Asleep, Drain
<1>4. Cardinality(buf') \in Nat /\ Cardinality(buf') + 1 <= Cardinality(buf)
  <2>1. s \in buf /\ buf' \subseteq buf \ {s}
    BY <1>0, Kinds, Zenon DEF TypeOK, Places, Drain
  <2> QED BY <1>0, <2>1, Sizes, Loses, Zenon
<1>5. Counts'
  <2>1. items' + Cardinality(buf') <= made'
    BY <1>0, <1>3, <1>4, Sizes DEF TypeOK, Counts, Drain
  <2>2. Cardinality(Inside') <= waiting'
    BY <1>0, <1>3, <1>4, Sizes, Zenon DEF TypeOK, Counts, Drain
  <2>3. Cardinality(Running') <= opened'
    BY <1>0, <1>3, <1>4, Sizes, Zenon DEF TypeOK, Counts, Drain
  <2>4. Cardinality(Asleep') <= counter' + sema'
    BY <1>0, <1>3, <1>4, Sizes, Zenon DEF TypeOK, Counts, Shaking, Drain
  <2>5. Shaking' => Cardinality(Asleep') <= sema'
    BY <1>0, <1>3, <1>4, Sizes, Zenon DEF TypeOK, Counts, Shaking, Owned, Places, Drain
  <2>6. items' > 0 /\ ~unannounced' /\ ~Announcing' => Cardinality(Asleep') <= sema'
    BY <1>0, <1>3, <1>4, Sizes, Zenon DEF TypeOK, Counts, Announcing, Places, Drain
  <2> QED BY <2>1, <2>2, <2>3, <2>4, <2>5, <2>6, Zenon DEF Counts
<1>6. TypeOK'
  <2>1. Numbers' /\ Kept'
    BY <1>0, <1>3, <1>4, Sizes, Kinds DEF TypeOK, Counts, Numbers, Kept, Drain
  <2>2. Flags'
    BY <1>0, Zenon DEF TypeOK, Flags, Drain
  <2>3. items' <= made'
    BY <1>5, <1>0, <1>3, <1>4, Sizes DEF TypeOK, Counts, Drain
  <2> QED BY <2>1, <2>2, <2>3, Kinds DEF Numbers, Kept, Flags, TypeOK
<1> QED BY <1>1, <1>2, <1>5, <1>6, Zenon DEF IInv
(* pred() takes an item. *)
LEMMA TryInv ==
  ASSUME IInv, NEW w \in Waiters, Try(w)
  PROVE  IInv'
<1> USE DEF Runs, Goto, shared, bounds, Procs
<1>0. TypeOK /\ Places /\ Owned /\ Counts
  BY Zenon DEF IInv
<1>1. Places'
  BY <1>0, Kinds, Zenon DEF TypeOK, Places, Try
<1>2. Owned'
  BY <1>0, Kinds, Zenon DEF TypeOK, Owned, Places, Try
<1>3. buf' = buf /\ Inside' = Inside /\ Running' = Running /\ Asleep' = Asleep
  BY <1>0, Kinds, Zenon DEF TypeOK, Places, Inside, Running, Asleep, Try
<1>4. Counts'
  BY <1>0, <1>3, Sizes DEF TypeOK, Counts, Shaking, Announcing, Owned, Places, Try
<1>5. TypeOK'
  BY <1>0, Kinds DEF TypeOK, Try
<1> QED BY <1>1, <1>2, <1>4, <1>5, Zenon DEF IInv
(* wait_if begins. *)
LEMMA EnterInv ==
  ASSUME IInv, NEW w \in Waiters, Enter(w)
  PROVE  IInv'
<1> USE DEF Runs, Goto, shared, bounds, Procs
<1>0. TypeOK /\ Places /\ Owned /\ Counts
  BY Zenon DEF IInv
<1>1. Places'
  BY <1>0, Kinds DEF TypeOK, Places, Enter
<1>2. Owned'
  BY <1>0, Kinds, Zenon DEF TypeOK, Owned, Places, Enter
<1>3. buf' = buf /\ Running' = Running /\ Asleep' = Asleep
  BY <1>0, Kinds, Zenon DEF TypeOK, Places, Running, Asleep, Enter
<1>4. Cardinality(Inside') \in Nat /\ Cardinality(Inside') <= Cardinality(Inside) + 1
  <2>1. Inside' \subseteq Inside \cup {w}
    BY <1>0, Kinds, Zenon DEF TypeOK, Places, Inside, Enter
  <2> QED BY <1>0, <2>1, Sizes, Grows, Zenon
<1>5. Counts'
  BY <1>0, <1>3, <1>4, Sizes DEF TypeOK, Counts, Shaking, Announcing, Owned, Places, Enter
<1>6. TypeOK'
  BY <1>0, Kinds DEF TypeOK, Enter
<1> QED BY <1>1, <1>2, <1>5, <1>6, Zenon DEF IInv
(* The waiter sets is_waiting_. *)
LEMMA SetFlagInv ==
  ASSUME IInv, NEW w \in Waiters, SetFlag(w)
  PROVE  IInv'
<1> USE DEF Runs, Goto, shared, bounds, Procs
<1>0. TypeOK /\ Places /\ Owned /\ Counts
  BY Zenon DEF IInv
<1>1. Places'
  BY <1>0, Kinds, Zenon DEF TypeOK, Places, SetFlag
<1>2. Owned'
  BY <1>0, Kinds, Zenon DEF TypeOK, Owned, Places, SetFlag
<1>3. buf' = buf /\ Inside' = Inside /\ Running' = Running /\ Asleep' = Asleep
  BY <1>0, Kinds DEF TypeOK, Places, Inside, Running, Asleep, SetFlag
<1>4. Counts'
  BY <1>0, <1>3, Sizes, Zenon DEF TypeOK, Counts, Shaking, Announcing, Owned, Places, SetFlag
<1>5. TypeOK'
  BY <1>0, Kinds, Zenon DEF TypeOK, SetFlag
<1> QED BY <1>1, <1>2, <1>4, <1>5, Zenon DEF IInv
(* The waiter takes the lock. *)
LEMMA GetLockInv ==
  ASSUME IInv, NEW w \in Waiters, GetLock(w)
  PROVE  IInv'
<1> USE DEF Runs, Goto, shared, bounds, Procs
<1>0. TypeOK /\ Places /\ Owned /\ Counts
  BY Zenon DEF IInv
<1>1. Places'
  BY <1>0, Kinds DEF TypeOK, Places, GetLock, Acquire
<1>2. Owned'
  BY <1>0, Kinds, Zenon DEF TypeOK, Owned, Places, GetLock, Acquire
<1>3. buf' = buf /\ Inside' = Inside /\ Running' = Running /\ Asleep' = Asleep
  BY <1>0, Kinds DEF TypeOK, Places, Inside, Running, Asleep, GetLock, Acquire
<1>4. Counts'
  <2>1. items' + Cardinality(buf') <= made'
    BY <1>0, <1>3, Sizes, Zenon DEF TypeOK, Counts, GetLock, Acquire
  <2>2. Cardinality(Inside') <= waiting'
    BY <1>0, <1>3, Sizes, Zenon DEF TypeOK, Counts, GetLock, Acquire
  <2>3. Cardinality(Running') <= opened'
    BY <1>0, <1>3, Sizes, Zenon DEF TypeOK, Counts, GetLock, Acquire
  <2>4. Cardinality(Asleep') <= counter' + sema'
    BY <1>0, <1>3, Sizes, Zenon DEF TypeOK, Counts, Shaking, GetLock, Acquire
  <2>5. Shaking' => Cardinality(Asleep') <= sema'
    BY <1>0, <1>3, Sizes, Zenon DEF TypeOK, Counts, Shaking, Owned, Places, GetLock, Acquire
  <2>6. items' > 0 /\ ~unannounced' /\ ~Announcing' => Cardinality(Asleep') <= sema'
    <3>1. Announcing' <=> Announcing
      BY <1>0, Kinds DEF TypeOK, Announcing, Places, GetLock
    <3> QED BY <1>0, <1>3, <3>1, Zenon DEF Counts, GetLock
  <2> QED BY <2>1, <2>2, <2>3, <2>4, <2>5, <2>6, Zenon DEF Counts
<1>5. TypeOK'
  BY <1>0, Kinds, Zenon DEF TypeOK, GetLock, Acquire
<1> QED BY <1>1, <1>2, <1>4, <1>5, Zenon DEF IInv
(* pred() under the lock. *)
LEMMA PredInv ==
  ASSUME IInv, NEW w \in Waiters, Pred(w)
  PROVE  IInv'
<1> USE DEF Runs, Goto, shared, bounds, Procs
<1>0. TypeOK /\ Places /\ Owned /\ Counts
  BY Zenon DEF IInv
<1>1. Places'
  BY <1>0, Kinds DEF TypeOK, Places, Pred, Release
<1>2. Owned'
  BY <1>0, Kinds DEF TypeOK, Owned, Places, Pred, Release
<1>3. buf' = buf /\ Running' = Running
  BY <1>0, Kinds DEF TypeOK, Places, Running, Pred, Release
<1>4. Cardinality(Inside') \in Nat /\ Cardinality(Inside') <= waiting'
  <2>1. CASE items > 0
    <3>1. w \in Inside /\ Inside' \subseteq Inside \ {w}
      BY <1>0, <2>1, Kinds DEF TypeOK, Places, Inside, Pred
    <3>2. Cardinality(Inside') \in Nat /\ Cardinality(Inside') + 1 <= Cardinality(Inside)
      BY <1>0, <3>1, Sizes, Loses, Zenon
    <3> QED BY <1>0, <2>1, <3>2, Sizes DEF TypeOK, Counts, Pred
  <2>2. CASE items = 0
    <3>1. Inside' = Inside
      BY <1>0, <2>2, Kinds DEF TypeOK, Inside, Pred
    <3> QED BY <1>0, <2>2, <3>1, Sizes DEF TypeOK, Counts, Pred
  <2> QED BY <1>0, <2>1, <2>2 DEF TypeOK
<1>5. Cardinality(Asleep') \in Nat /\ Cardinality(Asleep') <= Cardinality(Asleep) + (IF items = 0 THEN 1 ELSE 0)
  <2>1. Asleep' \subseteq Asleep \cup {w} /\ (items > 0 => Asleep' \subseteq Asleep)
    BY <1>0, Kinds DEF TypeOK, Places, Asleep, Pred
  <2>2. Cardinality(Asleep') \in Nat /\ Cardinality(Asleep') <= Cardinality(Asleep) + 1
    BY <1>0, <2>1, Sizes, Grows, Zenon
  <2>3. items > 0 => Cardinality(Asleep') <= Cardinality(Asleep)
    BY <1>0, <2>1, Sizes, Shrinks, Zenon
  <2> QED BY <1>0, <2>2, <2>3, Sizes DEF TypeOK
<1>6. Counts'
  BY <1>0, <1>3, <1>4, <1>5, Sizes DEF TypeOK, Counts, Shaking, Announcing, Owned, Places, Pred, Release
<1>7. TypeOK'
  <2>1. Numbers' /\ Kept'
    BY <1>0, <1>3, <1>4, <1>5, Sizes, Kinds DEF TypeOK, Counts, Numbers, Kept, Pred, Release
  <2>2. Flags'
    BY <1>0, Zenon DEF TypeOK, Flags, Pred, Release
  <2>3. items' <= made'
    BY <1>6, <1>0, <1>3, <1>4, <1>5, Sizes DEF TypeOK, Counts, Pred, Release
  <2> QED BY <2>1, <2>2, <2>3, Kinds DEF Numbers, Kept, Flags, TypeOK
<1> QED BY <1>1, <1>2, <1>6, <1>7, Zenon DEF IInv
(* One round of the loop. *)
LEMMA LoopInv ==
  ASSUME IInv, NEW w \in Waiters, Loop(w)
  PROVE  IInv'
<1> USE DEF Runs, Goto, shared, bounds, Procs
<1>0. TypeOK /\ Places /\ Owned /\ Counts
  BY Zenon DEF IInv
<1>1. Places'
  BY <1>0, Kinds DEF TypeOK, Places, Loop
<1>2. Owned'
  BY <1>0, Kinds DEF TypeOK, Owned, Places, Loop
<1>3. buf' = buf /\ Inside' = Inside /\ Running' = Running /\ Asleep' = Asleep
  BY <1>0, Kinds DEF TypeOK, Places, Inside, Running, Asleep, Loop
<1>4. Counts'
  BY <1>0, <1>3, Sizes DEF TypeOK, Counts, Shaking, Announcing, Owned, Places, Loop
<1>5. TypeOK'
  BY <1>0, Kinds, Zenon DEF TypeOK, Loop
<1> QED BY <1>1, <1>2, <1>4, <1>5, Zenon DEF IInv
(* The waiter reads need_dest_. *)
LEMMA DestInv ==
  ASSUME IInv, NEW w \in Waiters, Dest(w)
  PROVE  IInv'
<1> USE DEF Runs, Goto, shared, bounds, Procs
<1>0. TypeOK /\ Places /\ Owned /\ Counts
  BY Zenon DEF IInv
<1>1. Places'
  BY <1>0, Kinds DEF TypeOK, Places, Dest
<1>2. Owned'
  BY <1>0, Kinds, Zenon DEF TypeOK, Owned, Places, Dest
<1>3. buf' = buf /\ Inside' = Inside /\ Running' = Running /\ Asleep' = Asleep
  BY <1>0, Kinds DEF TypeOK, Places, Inside, Running, Asleep, Dest
<1>4. Counts'
  BY <1>0, <1>3, Sizes, Zenon DEF TypeOK, Counts, Shaking, Announcing, Owned, Places, Dest
<1>5. TypeOK'
  BY <1>0, Kinds, Zenon DEF TypeOK, Dest
<1> QED BY <1>1, <1>2, <1>4, <1>5, Zenon DEF IInv
(* The waiter takes a token. *)
LEMMA SemaWaitInv ==
  ASSUME IInv, NEW w \in Waiters, SemaWait(w)
  PROVE  IInv'
<1> USE DEF Runs, Goto, shared, bounds, Procs
<1>0. TypeOK /\ Places /\ Owned /\ Counts
  BY Zenon DEF IInv
<1>1. Places'
  BY <1>0, Kinds, Zenon DEF TypeOK, Places, SemaWait, Woke
<1>2. Owned'
  BY <1>0, Kinds, Zenon DEF TypeOK, Owned, Places, SemaWait, Woke
<1>3. buf' = buf /\ Inside' = Inside /\ Running' = Running
  BY <1>0, Kinds DEF TypeOK, Places, Inside, Running, SemaWait, Woke
<1>4. Cardinality(Asleep') \in Nat /\ Cardinality(Asleep') + 1 <= Cardinality(Asleep)
  <2>1. w \in Asleep /\ Asleep' \subseteq Asleep \ {w}
    BY <1>0, Kinds DEF TypeOK, Places, Asleep, SemaWait, Woke
  <2> QED BY <1>0, <2>1, Sizes, Loses, Zenon
<1>5. Counts'
  BY <1>0, <1>3, <1>4, Sizes DEF TypeOK, Counts, Shaking, Announcing, Owned, Places, SemaWait, Woke
<1>6. TypeOK'
  BY <1>0, Kinds DEF TypeOK, SemaWait, Woke
<1> QED BY <1>1, <1>2, <1>5, <1>6, Zenon DEF IInv
(* The wait for a token times out. *)
LEMMA SemaTimeoutInv ==
  ASSUME IInv, NEW w \in Waiters, SemaTimeout(w)
  PROVE  IInv'
<1> USE DEF Runs, Goto, shared, bounds, Procs
<1>0. TypeOK /\ Places /\ Owned /\ Counts
  BY Zenon DEF IInv
<1>1. Places'
  BY <1>0, Kinds, Zenon DEF TypeOK, Places, SemaTimeout, Woke
<1>2. Owned'
  BY <1>0, Kinds, Zenon DEF TypeOK, Owned, Places, SemaTimeout, Woke
<1>3. buf' = buf /\ Inside' = Inside /\ Running' = Running
  BY <1>0, Kinds DEF TypeOK, Places, Inside, Running, SemaTimeout, Woke
<1>4. Cardinality(Asleep') \in Nat /\ Cardinality(Asleep') <= Cardinality(Asleep)
  <2>1. Asleep' \subseteq Asleep
    BY <1>0, Kinds, Zenon DEF TypeOK, Places, Asleep, SemaTimeout, Woke
  <2> QED BY <1>0, <2>1, Sizes, Shrinks, Zenon
<1>5. Counts'
  BY <1>0, <1>3, <1>4, Sizes DEF TypeOK, Counts, Shaking, Announcing, Owned, Places, SemaTimeout, Woke
<1>6. TypeOK'
  BY <1>0, Kinds DEF TypeOK, SemaTimeout, Woke
<1> QED BY <1>1, <1>2, <1>5, <1>6, Zenon DEF IInv
(* The waiter leaves. *)
LEMMA ExitInv ==
  ASSUME IInv, NEW w \in Waiters, Exit(w)
  PROVE  IInv'
<1> USE DEF Runs, Goto, shared, bounds, Procs
<1>0. TypeOK /\ Places /\ Owned /\ Counts
  BY Zenon DEF IInv
<1>1. Places'
  BY <1>0, Kinds, Zenon DEF TypeOK, Places, Exit
<1>2. Owned'
  BY <1>0, Kinds, Zenon DEF TypeOK, Owned, Places, Exit
<1>3. buf' = buf /\ Running' = Running /\ Asleep' = Asleep
  BY <1>0, Kinds, Zenon DEF TypeOK, Places, Running, Asleep, Exit
<1>4. Cardinality(Inside') \in Nat /\ Cardinality(Inside') + 1 <= Cardinality(Inside)
  <2>1. w \in Inside /\ Inside' \subseteq Inside \ {w}
    BY <1>0, Kinds, Zenon DEF TypeOK, Places, Inside, Exit
  <2> QED BY <1>0, <2>1, Sizes, Loses, Zenon
<1>5. Counts'
  BY <1>0, <1>3, <1>4, Sizes DEF TypeOK, Counts, Shaking, Announcing, Owned, Places, Exit
<1>6. TypeOK'
  <2>1. Numbers' /\ Kept'
    BY <1>0, <1>3, <1>4, Sizes, Kinds DEF TypeOK, Counts, Numbers, Kept, Exit
  <2>2. Flags'
    BY <1>0, Zenon DEF TypeOK, Flags, Exit
  <2>3. items' <= made'
    BY <1>5, <1>0, <1>3, <1>4, Sizes DEF TypeOK, Counts, Exit
  <2> QED BY <2>1, <2>2, <2>3, Kinds DEF Numbers, Kept, Flags, TypeOK
<1> QED BY <1>1, <1>2, <1>5, <1>6, Zenon DEF IInv
(* The waiter confirms that it woke. *)
LEMMA ConfirmInv ==
  ASSUME IInv, NEW w \in Waiters, Confirm(w)
  PROVE  IInv'
<1> USE DEF Runs, Goto, shared, bounds, Procs
<1>0. TypeOK /\ Places /\ Owned /\ Counts
  BY Zenon DEF IInv
<1>1. Places'
  BY <1>0, Kinds, Zenon DEF TypeOK, Places, Confirm
<1>2. Owned'
  BY <1>0, Kinds, Zenon DEF TypeOK, Owned, Places, Confirm
<1>3. buf' = buf /\ Inside' = Inside /\ Running' = Running /\ Asleep' = Asleep
  BY <1>0, Kinds, Zenon DEF TypeOK, Places, Inside, Running, Asleep, Confirm
<1>4. Counts'
  BY <1>0, <1>3, Sizes, Zenon DEF TypeOK, Counts, Shaking, Announcing, Owned, Places, Confirm
<1>5. TypeOK'
  BY <1>0, Kinds DEF TypeOK, Confirm
<1> QED BY <1>1, <1>2, <1>4, <1>5, Zenon DEF IInv
(* A signal: quit_waiting begins. *)
LEMMA SetDestInv ==
  ASSUME IInv, NEW w \in Waiters, SetDest(w)
  PROVE  IInv'
<1> USE DEF Runs, Goto, shared, bounds, Procs
<1>0. TypeOK /\ Places /\ Owned /\ Counts
  BY Zenon DEF IInv
<1>1. Places'
  BY <1>0, Kinds DEF TypeOK, Places, SetDest
<1>2. Owned'
  BY <1>0, Kinds, Zenon DEF TypeOK, Owned, Places, SetDest
<1>3. buf' = buf /\ Inside' = Inside /\ Running' = Running
  BY <1>0, Kinds, Zenon DEF TypeOK, Places, Inside, Running, SetDest
<1>4. Cardinality(Asleep') \in Nat /\ Cardinality(Asleep') <= Cardinality(Asleep)
  <2>1. Asleep' \subseteq Asleep
    BY <1>0, Kinds, Zenon DEF TypeOK, Places, Asleep, SetDest
  <2> QED BY <1>0, <2>1, Sizes, Shrinks, Zenon
<1>5. Counts'
  BY <1>0, <1>3, <1>4, Sizes DEF TypeOK, Counts, Shaking, Announcing, Owned, Places, SetDest
<1>6. TypeOK'
  BY <1>0, Kinds DEF TypeOK, SetDest
<1> QED BY <1>1, <1>2, <1>5, <1>6, Zenon DEF IInv
(* quit_waiting posts. *)
LEMMA QuitPostInv ==
  ASSUME IInv, NEW w \in Waiters, QuitPost(w)
  PROVE  IInv'
<1> USE DEF Runs, Goto, shared, bounds, Procs
<1>0. TypeOK /\ Places /\ Owned /\ Counts
  BY Zenon DEF IInv
<1>1. Places'
  BY <1>0, Kinds DEF TypeOK, Places, Owned, QuitPost
<1>2. Owned'
  BY <1>0, Kinds DEF TypeOK, Owned, Places, QuitPost
<1>3. buf' = buf /\ Inside' = Inside /\ Running' = Running /\ Asleep' = Asleep
  BY <1>0, Kinds DEF TypeOK, Places, Inside, Running, Asleep, QuitPost
<1>4. Counts'
  BY <1>0, <1>3, Sizes DEF TypeOK, Counts, Shaking, Announcing, Owned, Places, QuitPost
<1>5. TypeOK'
  BY <1>0, Kinds DEF TypeOK, QuitPost
<1> QED BY <1>1, <1>2, <1>4, <1>5, Zenon DEF IInv
(* quit_waiting ends. *)
LEMMA QuitShakeInv ==
  ASSUME IInv, NEW w \in Waiters, QuitShake(w)
  PROVE  IInv'
<1> USE DEF Runs, Goto, shared, bounds, Procs
<1>0. TypeOK /\ Places /\ Owned /\ Counts
  BY Zenon DEF IInv
<1>1. Places'
  BY <1>0, Kinds DEF TypeOK, Places, QuitShake, Release
<1>2. Owned'
  BY <1>0, Kinds DEF TypeOK, Owned, Places, QuitShake, Release
<1>3. buf' = buf /\ Inside' = Inside /\ Running' = Running /\ Asleep' = Asleep
  BY <1>0, Kinds, Zenon DEF TypeOK, Places, Inside, Running, Asleep, QuitShake, Release
<1>4. Counts'
  BY <1>0, <1>3, Sizes, Zenon DEF TypeOK, Counts, Shaking, Announcing, Owned, Places, QuitShake, Release
<1>5. TypeOK'
  BY <1>0, Kinds DEF TypeOK, QuitShake, Release
<1> QED BY <1>1, <1>2, <1>4, <1>5, Zenon DEF IInv
(* A process opens the channel; the first one makes the mutex anew. *)
LEMMA OpenInv ==
  ASSUME IInv, NEW p \in Procs, Open(p)
  PROVE  IInv'
<1> USE DEF Runs, Goto, shared, bounds, Procs
<1>0. TypeOK /\ Places /\ Owned /\ Counts
  BY Zenon DEF IInv
<1>1. Places'
  BY <1>0, Kinds, Zenon DEF TypeOK, Places, Open, FreshMutex
<1>2. Owned'
  <2>1. opened = 0 => Running = {}
    BY <1>0, Sizes, FS_EmptySet DEF TypeOK, Counts
  <2>2. opened = 0 => lock = None
    BY <1>0, <2>1, Zenon DEF TypeOK, Owned, Running, Places
  <2>3. lock' = lock
    BY <1>0, <2>2, Zenon DEF Open, FreshMutex
  <2> QED BY <1>0, <2>3, Kinds DEF TypeOK, Owned, Places, Open
<1>3. buf' = buf /\ Inside' = Inside /\ Asleep' = Asleep
  BY <1>0, Kinds DEF TypeOK, Places, Inside, Asleep, Open, FreshMutex
<1>4. Cardinality(Running') \in Nat /\ Cardinality(Running') <= Cardinality(Running) + 1
  <2>1. Running' \subseteq Running \cup {p}
    BY <1>0, Kinds, Zenon DEF TypeOK, Places, Running, Open, FreshMutex
  <2> QED BY <1>0, <2>1, Sizes, Grows, Zenon
<1>5. Counts'
  BY <1>0, <1>3, <1>4, Sizes DEF TypeOK, Counts, Shaking, Announcing, Owned, Places, Open, FreshMutex
<1>6. TypeOK'
  BY <1>0, Kinds DEF TypeOK, Open, FreshMutex
<1> QED BY <1>1, <1>2, <1>5, <1>6, Zenon DEF IInv
(* A process closes the channel; the last one removes the semaphores. *)
LEMMA CloseInv ==
  ASSUME IInv, NEW p \in Procs, Close(p)
  PROVE  IInv'
<1> USE DEF Runs, Goto, shared, bounds, Procs
<1>0. TypeOK /\ Places /\ Owned /\ Counts
  BY Zenon DEF IInv
<1>1. Places'
  BY <1>0, Kinds DEF TypeOK, Places, Close, Linked
<1>2. Owned'
  BY <1>0, Kinds, Zenon DEF TypeOK, Owned, Places, Close, Linked
<1>3. buf' = buf /\ Inside' = Inside /\ Asleep' = Asleep
  BY <1>0, Kinds DEF TypeOK, Places, Inside, Asleep, Close, Linked
<1>4. Cardinality(Running') \in Nat /\ Cardinality(Running') + 1 <= Cardinality(Running)
  <2>1. p \in Running /\ Running' \subseteq Running \ {p}
    BY <1>0, Kinds, Zenon DEF TypeOK, Places, Running, Close, Linked
  <2> QED BY <1>0, <2>1, Sizes, Loses, Zenon
<1>5. opened > 0 /\ (opened = 1 => Asleep = {} /\ Cardinality(Asleep) = 0)
  <2>1. p \in Running
    BY Zenon DEF Close, Running
  <2>2. Cardinality(Running \ {p}) = Cardinality(Running) - 1 /\ IsFiniteSet(Running \ {p})
    BY <1>0, <2>1, Sizes, FS_RemoveElement, Zenon
  <2>3. opened > 0 /\ (opened = 1 => Cardinality(Running \ {p}) = 0)
    <3>1. Cardinality(Running \ {p}) \in Nat
      BY <2>2, FS_CardinalityType, Zenon
    <3> QED BY <1>0, <2>2, <3>1, Sizes DEF TypeOK, Counts
  <2>5. opened = 1 => Running \ {p} = {}
    BY <2>2, <2>3, FS_EmptySet, Zenon
  <2>4. Asleep \subseteq Running \ {p}
    BY <1>0, Kinds, Zenon DEF TypeOK, Asleep, Running, Close
  <2> QED BY <2>3, <2>4, <2>5, FS_EmptySet, Zenon
<1>6. Counts'
  <2>1. items' + Cardinality(buf') <= made'
    BY <1>0, <1>3, <1>4, <1>5, Sizes DEF TypeOK, Counts, Close, Linked
  <2>2. Cardinality(Inside') <= waiting'
    BY <1>0, <1>3, <1>4, <1>5, Sizes, Zenon DEF TypeOK, Counts, Close, Linked
  <2>3. Cardinality(Running') <= opened'
    BY <1>0, <1>3, <1>4, <1>5, Sizes DEF TypeOK, Counts, Close, Linked
  <2>4. Cardinality(Asleep') <= counter' + sema'
    BY <1>0, <1>3, <1>4, <1>5, Sizes DEF TypeOK, Counts, Shaking, Close, Linked
  <2>5. Shaking' => Cardinality(Asleep') <= sema'
    BY <1>0, <1>3, <1>4, <1>5, Sizes DEF TypeOK, Counts, Shaking, Owned, Places, Close, Linked
  <2>6. items' > 0 /\ ~unannounced' /\ ~Announcing' => Cardinality(Asleep') <= sema'
    BY <1>0, <1>3, <1>4, <1>5, Sizes DEF TypeOK, Counts, Announcing, Places, Close, Linked
  <2> QED BY <2>1, <2>2, <2>3, <2>4, <2>5, <2>6, Zenon DEF Counts
<1>7. TypeOK'
  <2>1. Numbers' /\ Kept'
    BY <1>0, <1>3, <1>4, <1>5, Sizes, Kinds DEF TypeOK, Counts, Numbers, Kept, Close, Linked
  <2>2. Flags'
    BY <1>0, Zenon DEF TypeOK, Flags, Close, Linked
  <2>3. items' <= made'
    BY <1>6, <1>0, <1>3, <1>4, <1>5, Sizes DEF TypeOK, Counts, Close, Linked
  <2> QED BY <2>1, <2>2, <2>3, Kinds DEF Numbers, Kept, Flags, TypeOK
<1> QED BY <1>1, <1>2, <1>6, <1>7, Zenon DEF IInv
(* A process is killed. *)
LEMMA KillInv ==
  ASSUME IInv, NEW p \in Procs, Kill(p)
  PROVE  IInv'
<1> USE DEF Runs, Goto, shared, bounds, Procs
<1>0. TypeOK /\ Places /\ Owned /\ Counts
  BY Zenon DEF IInv
<1>1. Places'
  BY <1>0, Kinds, Zenon DEF TypeOK, Places, Kill, AfterDeath
<1>2. Owned'
  BY <1>0, Kinds DEF TypeOK, Owned, Places, Kill, AfterDeath
<1>3. Cardinality(buf') \in Nat /\ items' + Cardinality(buf') <= made'
  <2>1. CASE p \in buf
    <3>1. Cardinality(buf') \in Nat /\ Cardinality(buf') + 1 <= Cardinality(buf)
      BY <1>0, <2>1, Sizes, Loses, Zenon DEF Kill
    <3> QED BY <1>0, <2>1, <3>1, Sizes DEF TypeOK, Counts, Kill
  <2>2. CASE p \notin buf
    <3>1. buf' = buf
      BY <2>2, Zenon DEF Kill
    <3> QED BY <1>0, <2>2, <3>1, Sizes, Zenon DEF TypeOK, Counts, Kill
  <2> QED BY <2>1, <2>2, Zenon
<1>4. Cardinality(Inside') \in Nat /\ Cardinality(Inside') <= Cardinality(Inside)
  <2>1. Inside' \subseteq Inside
    BY <1>0, Kinds, Zenon DEF TypeOK, Places, Inside, Kill, AfterDeath
  <2> QED BY <1>0, <2>1, Sizes, Shrinks, Zenon
<1>5. Cardinality(Running') \in Nat /\ Cardinality(Running') <= Cardinality(Running)
  <2>1. Running' \subseteq Running
    BY <1>0, Kinds, Zenon DEF TypeOK, Places, Running, Kill, AfterDeath
  <2> QED BY <1>0, <2>1, Sizes, Shrinks, Zenon
<1>6. Cardinality(Asleep') \in Nat /\ Cardinality(Asleep') <= Cardinality(Asleep)
  <2>1. Asleep' \subseteq Asleep
    BY <1>0, Kinds, Zenon DEF TypeOK, Places, Asleep, Kill, AfterDeath
  <2> QED BY <1>0, <2>1, Sizes, Shrinks, Zenon
<1>7. Counts'
  <2>1. items' + Cardinality(buf') <= made'
    BY <1>0, <1>3, <1>4, <1>5, <1>6, Sizes DEF TypeOK, Counts, Kill, AfterDeath
  <2>2. Cardinality(Inside') <= waiting'
    BY <1>0, <1>3, <1>4, <1>5, <1>6, Sizes DEF TypeOK, Counts, Kill, AfterDeath
  <2>3. Cardinality(Running') <= opened'
    BY <1>0, <1>3, <1>4, <1>5, <1>6, Sizes DEF TypeOK, Counts, Kill, AfterDeath
  <2>4. Cardinality(Asleep') <= counter' + sema'
    BY <1>0, <1>3, <1>4, <1>5, <1>6, Sizes DEF TypeOK, Counts, Shaking, Kill, AfterDeath
  <2>5. Shaking' => Cardinality(Asleep') <= sema'
    BY <1>0, <1>3, <1>4, <1>5, <1>6, Sizes DEF TypeOK, Counts, Shaking, Owned, Places, Kill, AfterDeath
  <2>6. items' > 0 /\ ~unannounced' /\ ~Announcing' => Cardinality(Asleep') <= sema'
    BY <1>0, <1>3, <1>4, <1>5, <1>6, Sizes DEF TypeOK, Counts, Announcing, Places, Kill, AfterDeath
  <2> QED BY <2>1, <2>2, <2>3, <2>4, <2>5, <2>6, Zenon DEF Counts
<1>8. TypeOK'
  <2>1. Numbers' /\ Kept'
    BY <1>0, <1>3, <1>4, <1>5, <1>6, Sizes, Kinds DEF TypeOK, Counts, Numbers, Kept, Kill, AfterDeath
  <2>2. Flags'
    BY <1>0, Zenon DEF TypeOK, Flags, Kill, AfterDeath
  <2>3. items' <= made'
    BY <1>7, <1>0, <1>3, <1>4, <1>5, <1>6, Sizes DEF TypeOK, Counts, Kill, AfterDeath
  <2> QED BY <2>1, <2>2, <2>3, Kinds DEF Numbers, Kept, Flags, TypeOK
<1> QED BY <1>1, <1>2, <1>7, <1>8, Zenon DEF IInv
-----------------------------------------------------------------------------
(* Every step of every process keeps the invariant. *)
LEMMA StepInv == IInv /\ [Next]_vars => IInv'
<1> SUFFICES ASSUME IInv, [Next]_vars PROVE IInv'
  BY Zenon
<1>1. ASSUME NEW s \in Senders, MakeAvailable(s) \/ Drain(s) \/ Sending(s) PROVE IInv'
  BY <1>1, MakeAvailableInv, DrainInv, LookInv, LockInv, PostInv, ShakeInv, Zenon DEF Sending
<1>2. ASSUME NEW w \in Waiters, Enter(w) \/ Waiting(w) \/ SetDest(w) PROVE IInv'
  BY <1>2, EnterInv, TryInv, SetFlagInv, GetLockInv, PredInv, LoopInv, DestInv,
     SemaWaitInv, SemaTimeoutInv, ExitInv, ConfirmInv, SetDestInv, QuitPostInv,
     QuitShakeInv, Zenon DEF Waiting
<1>3. ASSUME NEW p \in Procs, Open(p) \/ Close(p) \/ Kill(p) PROVE IInv'
  BY <1>3, OpenInv, CloseInv, KillInv, Zenon
<1>4. ASSUME UNCHANGED vars PROVE IInv'
  BY <1>4, Zenon DEF vars, shared, bounds, IInv, TypeOK, Places, Owned, Counts, Inside,
     Running, Asleep, Shaking, Announcing
<1> QED BY <1>1, <1>2, <1>3, <1>4, Zenon DEF Next

(* The counters cover the processes of LockAndCount: the waiters before and *)
(* behind the loop and the sleepers are different processes inside.         *)
LEMMA InvCovers == IInv => SleepersCovered /\ NoLostWakeup
<1> SUFFICES ASSUME IInv PROVE SleepersCovered /\ NoLostWakeup
  BY Zenon
<1> DEFINE Up == {w \in Waiters : pc[w] \in {"flag", "lock", "pred", "exit"}}
<1>1. TypeOK /\ Places /\ Owned /\ Counts
  BY Zenon DEF IInv
<1>2. Up \cap Asleep = {} /\ Up \cup Asleep \subseteq Inside
  BY Zenon DEF Asleep, Inside
<1>3. IsFiniteSet(Up) /\ IsFiniteSet(Asleep)
  BY <1>1, <1>2, Sizes, FS_Subset, Zenon
<1> HIDE DEF Up
<1>4. Cardinality(Up \cup Asleep) = Cardinality(Up) + Cardinality(Asleep)
  <2>1. /\ Cardinality(Up \cup Asleep) = Cardinality(Up) + Cardinality(Asleep) - Cardinality(Up \cap Asleep)
        /\ Cardinality(Up) \in Nat /\ Cardinality(Asleep) \in Nat
    BY <1>3, FS_Union, FS_CardinalityType, Zenon
  <2>2. Cardinality(Up \cap Asleep) = 0
    BY <1>2, FS_EmptySet, Zenon
  <2> QED BY <2>1, <2>2
<1>5. Cardinality(Up) + Cardinality(Asleep) <= Cardinality(Inside)
  BY <1>1, <1>2, <1>4, Sizes, Shrinks, Zenon
<1>6. Cardinality(Up) + Cardinality(Asleep) <= waiting
  BY <1>1, <1>3, <1>5, Sizes, FS_CardinalityType DEF Counts, TypeOK
<1>7. LockAndCount
  BY <1>1, <1>6, Zenon DEF LockAndCount, Owned, Up
<1>8. NoLostWakeup
  BY <1>1, Zenon DEF NoLostWakeup, Counts, Announcing
<1> QED BY <1>1, <1>7, <1>8, Zenon DEF SleepersCovered, Counts

(* Whatever processes are killed, closed, signalled or time out, and        *)
(* however many there are: the mutex of the waiter has one owner, waiting_  *)
(* counts at least those inside wait_if, and every sleeper is one that the  *)
(* next broadcast posts for or that a token is there for.                   *)
THEOREM Covered == Spec => []SleepersCovered
<1>1. IInv => SleepersCovered
  BY InvCovers, Zenon
<1> QED BY <1>1, InitInv, StepInv, PTL DEF Spec

(* No wake-up is lost: with an item available, announced by its sender, and *)
(* no broadcast under way, there is a token for every sleeper.              *)
THEOREM WakeupsKept == Spec => []NoLostWakeup
<1>1. IInv => NoLostWakeup
  BY InvCovers, Zenon
<1> QED BY <1>1, InitInv, StepInv, PTL DEF Spec
=============================================================================
