------------------------------ MODULE ShmWaiter ------------------------------
(***************************************************************************)
(* How a process of Pheromone sleeps on a shared-memory channel and how it *)
(* is woken: the waiter of shm-ipc (waiter_helper.h, waiter_linux.h,       *)
(* waiter_wrapper.h) and the loop that uses it (wait_for of ipc.cpp).      *)
(*                                                                         *)
(* A sender makes something available (an element of the ring, a free      *)
(* element, a receiver's connection) and calls broadcast; a waiter that    *)
(* finds nothing calls wait_if.  Both run in processes of their own and    *)
(* share a counter of those inside (waiting_), a count of those to be      *)
(* posted for (counter_, under a robust mutex), a semaphore the waiters    *)
(* sleep on and a second one on which they confirm that they woke.         *)
(*                                                                         *)
(* Processes are killed at any step, waits time out, a signal handler of a *)
(* waiter's own thread calls quit_waiting, and the store that makes a ring *)
(* element visible may still be in the writer's store buffer when the      *)
(* writer reads waiting_ (a release store before an acquire load).         *)
(***************************************************************************)
EXTENDS Naturals, FiniteSets

CONSTANTS Waiters, Senders,
          Forever,      \* waiters without a timeout (wait_for_recv)
          Plain,        \* senders whose item is published by a plain store
          MaxItems,     \* how many items are made available
          MaxEvents,    \* how many timeouts, signals, kills and closes
                        \* happen, together
          None

ASSUME Kinds ==
  /\ Forever \subseteq Waiters /\ Plain \subseteq Senders
  /\ Waiters \cap Senders = {} /\ None \notin Waiters \cup Senders
  /\ IsFiniteSet(Waiters) /\ IsFiniteSet(Senders)
  /\ MaxItems \in Nat /\ MaxEvents \in Nat

VARIABLES items,        \* what pred() finds
          made, events, \* the bounds' counters
          buf,          \* senders whose store is not yet visible
          waiting,      \* waiting_
          counter,      \* counter_
          lock,         \* the owner of lock_
          sema, handshake,                 \* the two semaphores
          opened,       \* opened_
          is_waiting, need_dest,           \* wait_flags of each waiter
          pc,           \* where each process is
          handler,      \* where the signal handler of a waiter is
          unannounced   \* an item came to light that no broadcast was for

bounds == <<made, events>>
shared == <<items, waiting, counter, lock, sema, handshake, opened>>
vars == <<shared, bounds, buf, is_waiting, need_dest, pc, handler, unannounced>>

Procs == Waiters \cup Senders

-----------------------------------------------------------------------------
(* A waiter whose handler runs is not running itself. *)
Runs(p, at) == pc[p] = at /\ (p \in Waiters => handler[p] \in {"none", "ran"})

Goto(p, at) == pc' = [pc EXCEPT ![p] = at]

(* mutex::lock and unlock.  The mutex is robust: when its owner died, lock  *)
(* makes it consistent, unlocks it and tries again, so it is free then.     *)
Acquire(p) == lock = None /\ lock' = p
Release == lock' = None
AfterDeath(p) == IF lock = p THEN None ELSE lock

(* mutex::open initialises the mutex of the first process. *)
FreshMutex == IF opened = 0 THEN None ELSE lock

(* open_h: the named semaphores, which start at 0 when they do not exist;  *)
(* close_h: the last process unlinks them.                                 *)
Linked(count) == IF opened = 1 THEN 0 ELSE count

Open(p) ==
  /\ Runs(p, "closed")
  /\ opened' = opened + 1
  /\ lock' = FreshMutex
  /\ Goto(p, "idle")
  /\ UNCHANGED <<items, waiting, counter, sema, handshake, bounds, buf,
                 is_waiting, need_dest, handler, unannounced>>

(* close of an idle process: its flags go with it, so quit_waiting, which   *)
(* finds that nobody waits, leaves nothing behind.                          *)
Close(p) ==
  /\ Runs(p, "idle") /\ events < MaxEvents
  /\ events' = events + 1
  /\ opened' = opened - 1
  /\ sema' = Linked(sema) /\ handshake' = Linked(handshake)
  /\ Goto(p, "closed")
  /\ UNCHANGED <<items, waiting, counter, lock, made, buf, is_waiting,
                 need_dest, handler, unannounced>>

-----------------------------------------------------------------------------
(* The sender: push (or pop, or connect), then broadcast.  The first step   *)
(* of each is a read-modify-write, which waits for the store buffer.        *)

MakeAvailable(s) ==
  /\ Runs(s, "idle") /\ s \notin buf /\ made < MaxItems
  /\ made' = made + 1
  /\ IF s \in Plain
     THEN buf' = buf \cup {s} /\ UNCHANGED items
     ELSE items' = items + 1 /\ UNCHANGED buf
  /\ Goto(s, "look")
  /\ UNCHANGED <<waiting, counter, lock, sema, handshake, opened, events,
                 is_waiting, need_dest, handler, unannounced>>

(* The store buffer drains, perhaps when broadcast is over already. *)
Drain(s) ==
  /\ s \in buf
  /\ buf' = buf \ {s}
  /\ items' = items + 1
  /\ unannounced' = (unannounced \/ pc[s] \in {"idle", "closed"})
  /\ UNCHANGED <<waiting, counter, lock, sema, handshake, opened, bounds,
                 is_waiting, need_dest, pc, handler>>

(* Mutant of Look: one process inside is taken for none. *)
MutLook(s) ==
  /\ Runs(s, "look")
  /\ Goto(s, IF waiting <= 1 THEN "idle" ELSE "lock")
  /\ UNCHANGED <<shared, bounds, buf, is_waiting, need_dest, handler,
                 unannounced>>

(* broadcast reads waiting_ and returns when nobody is inside. *)
Look(s) ==
  /\ Runs(s, "look")
  /\ Goto(s, IF waiting = 0 THEN "idle" ELSE "lock")
  /\ UNCHANGED <<shared, bounds, buf, is_waiting, need_dest, handler,
                 unannounced>>

(* get_lock: an atomic read-modify-write, so the buffer is empty first. *)
Lock(s) ==
  /\ Runs(s, "lock") /\ s \notin buf
  /\ Acquire(s)
  /\ Goto(s, "post")
  /\ UNCHANGED <<items, waiting, counter, sema, handshake, opened, bounds, buf,
                 is_waiting, need_dest, handler, unannounced>>

(* Mutant of Post: one token, as in notify. *)
MutPost(s) ==
  /\ Runs(s, "post")
  /\ unannounced' = FALSE
  /\ IF counter > 0
     THEN /\ sema' = sema + 1 /\ counter' = counter - 1
          /\ Goto(s, "shake") /\ UNCHANGED lock
     ELSE Release /\ Goto(s, "idle") /\ UNCHANGED <<sema, counter>>
  /\ UNCHANGED <<items, waiting, handshake, opened, bounds, buf, is_waiting,
                 need_dest, handler>>

(* sema_post(counter_), and the first counter_ -= 1 of the loop. *)
Post(s) ==
  /\ Runs(s, "post")
  /\ unannounced' = FALSE
  /\ sema' = sema + counter
  /\ IF counter > 0
     THEN counter' = counter - 1 /\ Goto(s, "shake") /\ UNCHANGED lock
     ELSE Release /\ Goto(s, "idle") /\ UNCHANGED counter
  /\ UNCHANGED <<items, waiting, handshake, opened, bounds, buf, is_waiting,
                 need_dest, handler>>

(* Mutants of Shake: a wait without timeout; a round too many. *)
MutShakeForever(s) ==
  /\ Runs(s, "shake") /\ handshake > 0
  /\ handshake' = handshake - 1
  /\ IF counter > 0
     THEN counter' = counter - 1 /\ UNCHANGED <<lock, pc>>
     ELSE Release /\ Goto(s, "idle") /\ UNCHANGED counter
  /\ UNCHANGED <<items, waiting, sema, opened, bounds, buf, is_waiting,
                 need_dest, handler, unannounced>>

(* handshake_wait for each of those posted for; after one that timed out   *)
(* the others are only counted down.                                       *)
Shake(s) ==
  /\ Runs(s, "shake")
  /\ \/ /\ handshake > 0 /\ handshake' = handshake - 1
        /\ IF counter > 0
           THEN counter' = counter - 1 /\ UNCHANGED <<lock, pc>>
           ELSE Release /\ Goto(s, "idle") /\ UNCHANGED counter
     \/ /\ handshake = 0 /\ counter' = 0 /\ Release /\ Goto(s, "idle")
        /\ UNCHANGED handshake
  /\ UNCHANGED <<items, waiting, sema, opened, bounds, buf, is_waiting,
                 need_dest, handler, unannounced>>

-----------------------------------------------------------------------------
(* The waiter: wait_for tries pred() and, after a while, wait_if.          *)

(* pred() finds something and takes it. *)
Try(w) ==
  /\ Runs(w, "idle") /\ items > 0
  /\ items' = items - 1
  /\ UNCHANGED <<waiting, counter, lock, sema, handshake, opened, bounds, buf,
                 is_waiting, need_dest, pc, handler, unannounced>>

Enter(w) ==
  /\ Runs(w, "idle")
  /\ waiting' = waiting + 1
  /\ Goto(w, "flag")
  /\ UNCHANGED <<items, counter, lock, sema, handshake, opened, bounds, buf,
                 is_waiting, need_dest, handler, unannounced>>

SetFlag(w) ==
  /\ Runs(w, "flag")
  /\ is_waiting' = [is_waiting EXCEPT ![w] = TRUE]
  /\ Goto(w, "lock")
  /\ UNCHANGED <<shared, bounds, buf, need_dest, handler, unannounced>>

GetLock(w) ==
  /\ Runs(w, "lock")
  /\ Acquire(w)
  /\ Goto(w, "pred")
  /\ UNCHANGED <<items, waiting, counter, sema, handshake, opened, bounds, buf,
                 is_waiting, need_dest, handler, unannounced>>

(* Mutants of Pred: pred() is not called again; the guard leaves at once. *)
MutPredBlind(w) ==
  /\ Runs(w, "pred")
  /\ Release /\ counter' = counter + 1
  /\ Goto(w, "loop")
  /\ UNCHANGED <<items, waiting, sema, handshake, opened, bounds, buf,
                 is_waiting, need_dest, handler, unannounced>>

(* pred() once more, under the lock: what it finds ends the wait, and the  *)
(* guard takes the waiter out; otherwise the waiter is to be posted for.   *)
Pred(w) ==
  /\ Runs(w, "pred")
  /\ Release
  /\ \/ /\ items > 0
        /\ items' = items - 1 /\ waiting' = waiting - 1
        /\ is_waiting' = [is_waiting EXCEPT ![w] = FALSE]
        /\ Goto(w, "idle") /\ UNCHANGED counter
     \/ /\ items = 0
        /\ counter' = counter + 1
        /\ Goto(w, "loop") /\ UNCHANGED <<items, waiting, is_waiting>>
  /\ UNCHANGED <<sema, handshake, opened, bounds, buf, need_dest, handler,
                 unannounced>>

(* One round of the do loop: is_waiting_ is read, then need_dest_. *)
Loop(w) ==
  /\ Runs(w, "loop")
  /\ IF is_waiting[w]
     THEN Goto(w, "dest") /\ UNCHANGED need_dest
     ELSE /\ need_dest' = [need_dest EXCEPT ![w] = FALSE]
          /\ Goto(w, "exit")
  /\ UNCHANGED <<shared, bounds, buf, is_waiting, handler, unannounced>>

Dest(w) ==
  /\ Runs(w, "dest")
  /\ need_dest' = [need_dest EXCEPT ![w] = FALSE]
  /\ Goto(w, IF need_dest[w] THEN "nap" ELSE "sleep")
  /\ UNCHANGED <<shared, bounds, buf, is_waiting, handler, unannounced>>

(* sema_wait, for ever or until it times out.  After the short wait of a   *)
(* waiter that is to quit the loop is over; otherwise need_dest_ decides.  *)
Woke(w) ==
  /\ Goto(w, IF pc[w] = "sleep" /\ need_dest[w] THEN "loop" ELSE "exit")
  /\ UNCHANGED <<items, waiting, counter, lock, handshake, opened, made, buf, is_waiting, need_dest, handler, unannounced>>

SemaWait(w) ==
  /\ Runs(w, "sleep") \/ Runs(w, "nap")
  /\ sema > 0
  /\ sema' = sema - 1
  /\ Woke(w) /\ UNCHANGED events

SemaTimeout(w) ==
  /\ \/ Runs(w, "sleep") /\ w \notin Forever /\ events < MaxEvents
        /\ events' = events + 1
     \/ Runs(w, "nap") /\ UNCHANGED events
  /\ sema = 0
  /\ Woke(w) /\ UNCHANGED sema

(* finally.do_exit(), then handshake_post(1): wait_if returns.  wait_for    *)
(* tries again or gives up, and its caller calls it again.                  *)
Exit(w) ==
  /\ Runs(w, "exit")
  /\ waiting' = waiting - 1
  /\ is_waiting' = [is_waiting EXCEPT ![w] = FALSE]
  /\ Goto(w, "confirm")
  /\ UNCHANGED <<items, counter, lock, sema, handshake, opened, bounds, buf,
                 need_dest, handler, unannounced>>

Confirm(w) ==
  /\ Runs(w, "confirm")
  /\ handshake' = handshake + 1
  /\ Goto(w, "idle")
  /\ UNCHANGED <<items, waiting, counter, lock, sema, opened, bounds, buf,
                 is_waiting, need_dest, handler, unannounced>>

-----------------------------------------------------------------------------
(* A signal: the handler of executor and scheduler disconnects, which       *)
(* calls quit_waiting in the thread that was interrupted.                   *)
SetDest(w) ==
  /\ pc[w] # "closed" /\ handler[w] = "none"
  /\ events < MaxEvents
  /\ events' = events + 1
  /\ need_dest' = [need_dest EXCEPT ![w] = TRUE]
  /\ is_waiting' = [is_waiting EXCEPT ![w] = FALSE]
  /\ handler' = [handler EXCEPT ![w] =
                   IF is_waiting[w] /\ waiting > 0 THEN "lock" ELSE "ran"]
  /\ UNCHANGED <<shared, made, buf, pc, unannounced>>

QuitPost(w) ==
  /\ handler[w] = "lock" /\ lock = None
  /\ sema' = sema + counter
  /\ IF counter > 0
     THEN /\ counter' = counter - 1 /\ lock' = w
          /\ handler' = [handler EXCEPT ![w] = "shake"]
     ELSE /\ handler' = [handler EXCEPT ![w] = "ran"]
          /\ UNCHANGED <<counter, lock>>
  /\ UNCHANGED <<items, waiting, handshake, opened, bounds, buf, is_waiting,
                 need_dest, pc, unannounced>>

QuitShake(w) ==
  /\ handler[w] = "shake"
  /\ handshake' = IF handshake > 0 THEN handshake - 1 ELSE 0
  /\ Release
  /\ handler' = [handler EXCEPT ![w] = "ran"]
  /\ UNCHANGED <<items, waiting, counter, sema, opened, bounds, buf, is_waiting,
                 need_dest, pc, unannounced>>

(* A process is killed and a new one, with flags of its own, takes its     *)
(* place.  The robust mutex it held goes to the next one that locks it,    *)
(* its pending store becomes visible, and nothing else of what it did to   *)
(* the shared counters is undone.                                          *)
Kill(p) ==
  /\ pc[p] # "closed" /\ events < MaxEvents
  /\ events' = events + 1
  /\ lock' = AfterDeath(p)
  /\ items' = IF p \in buf THEN items + 1 ELSE items
  /\ buf' = buf \ {p}
  /\ unannounced' = (\/ unannounced \/ p \in buf
                     \/ p \in Senders /\ pc[p] \in {"look", "lock", "post"})
  /\ Goto(p, "closed")
  /\ is_waiting' = [w \in Waiters |-> w # p /\ is_waiting[w]]
  /\ need_dest' = [w \in Waiters |-> w # p /\ need_dest[w]]
  /\ handler' = [w \in Waiters |-> IF w = p THEN "none" ELSE handler[w]]
  /\ UNCHANGED <<waiting, counter, sema, handshake, opened, made>>

-----------------------------------------------------------------------------
Init ==
  /\ items = 0 /\ made = 0 /\ events = 0
  /\ buf = {} /\ waiting = 0 /\ counter = 0 /\ lock = None
  /\ sema = 0 /\ handshake = 0 /\ opened = 0
  /\ is_waiting = [w \in Waiters |-> FALSE]
  /\ need_dest = [w \in Waiters |-> FALSE]
  /\ pc = [p \in Procs |-> "closed"]
  /\ handler = [w \in Waiters |-> "none"]
  /\ unannounced = FALSE

Sending(s) == Look(s) \/ Lock(s) \/ Post(s) \/ Shake(s)

Waiting(w) ==
  \/ Try(w) \/ SetFlag(w) \/ GetLock(w) \/ Pred(w) \/ Loop(w) \/ Dest(w)
  \/ SemaWait(w) \/ SemaTimeout(w) \/ Exit(w) \/ Confirm(w)
  \/ QuitPost(w) \/ QuitShake(w)

Next ==
  \/ \E s \in Senders : MakeAvailable(s) \/ Drain(s) \/ Sending(s)
  \/ \E w \in Waiters : Enter(w) \/ Waiting(w) \/ SetDest(w)
  \/ \E p \in Procs : Open(p) \/ Close(p) \/ Kill(p)

Spec == Init /\ [][Next]_vars

(* Processes that run go on, and the store buffer drains; nothing is       *)
(* promised of kills, signals, new items or new waits.                     *)
FairSpec ==
  /\ Spec
  /\ \A s \in Senders : WF_vars(Sending(s)) /\ WF_vars(Drain(s))
  /\ \A w \in Waiters : WF_vars(Waiting(w))

-----------------------------------------------------------------------------
TypeOK ==
  /\ items \in 0..MaxItems /\ made \in 0..MaxItems
  /\ events \in 0..MaxEvents
  /\ buf \subseteq Plain /\ lock \in Procs \cup {None}
  /\ {waiting, counter, sema, handshake, opened} \subseteq Nat
  /\ is_waiting \in [Waiters -> BOOLEAN] /\ need_dest \in [Waiters -> BOOLEAN]
  /\ pc \in [Procs -> {"closed", "idle", "look", "lock", "post",
                       "shake", "flag", "pred", "loop", "dest", "sleep", "nap",
                       "exit", "confirm"}]
  /\ handler \in [Waiters -> {"none", "lock", "shake", "ran"}]
  /\ unannounced \in BOOLEAN

(* Those that counted themselves and have neither been woken nor told to   *)
(* leave.                                                                  *)
Asleep == {w \in Waiters : \/ pc[w] \in {"dest", "sleep", "nap"}
                           \/ pc[w] = "loop" /\ is_waiting[w]}

(* A thread that waits for the mutex it holds itself: a signal came while   *)
(* it was evaluating pred() under the lock.                                 *)
SelfLocked == \E w \in Waiters : lock = w /\ handler[w] = "lock"

(* The mutex of the waiter has one owner: the process in the critical       *)
(* section of wait_if, broadcast or quit_waiting.  waiting_ counts at least *)
(* the processes inside wait_if, so a broadcast that reads 0 missed nobody. *)
LockAndCount ==
  /\ \A p \in Procs :
       lock = p <=> \/ p \in Senders /\ pc[p] \in {"post", "shake"}
                    \/ p \in Waiters /\ pc[p] = "pred"
                    \/ p \in Waiters /\ handler[p] = "shake"
  /\ Cardinality({w \in Waiters : pc[w] \in {"flag", "lock", "pred", "exit"}})
       + Cardinality(Asleep) <= waiting

(* Every sleeping waiter is one that the next broadcast posts for or one    *)
(* that a token of the semaphore is there for: whatever was killed, timed   *)
(* out or lost before, the next broadcast wakes everybody.  The lock and    *)
(* the count of waiters are kept, and the variables have their types.       *)
SleepersCovered == TypeOK /\ LockAndCount /\ Cardinality(Asleep) <= counter + sema

(* When something is available and no broadcast is under way, every waiter  *)
(* that sleeps has a token to wake it, unless the item became visible only  *)
(* after its sender had looked for waiters, or its sender was killed before *)
(* it posted.                                                               *)
NoLostWakeup ==
  (/\ items > 0 /\ ~unannounced
   /\ \A s \in Senders : pc[s] \notin {"look", "lock", "post"})
  => Cardinality(Asleep) <= sema

(* A broadcast ends, whatever becomes of the waiters it posted for: killed  *)
(* ones do not confirm, and their mutex is recovered.  The exception is a   *)
(* waiter whose signal handler waits for the mutex its own thread holds.    *)
BroadcastEnds ==
  \A s \in Senders : []<>(pc[s] \in {"idle", "closed"} \/ SelfLocked)

(* A waiter without a timeout does not sleep for ever beside an item that   *)
(* was announced.                                                           *)
SleepersWake ==
  \A w \in Forever :
    []<>(w \notin Asleep \/ items = 0 \/ unannounced \/ SelfLocked)

=============================================================================
