------------------------------ MODULE ShmRing ------------------------------
(***************************************************************************)
(* The lock-free ring in shared memory behind every channel between the    *)
(* local scheduler and its executors: prod_cons_impl for many producers,   *)
(* many consumers, unicast (libipc/prod_cons.h:102-188), the policy        *)
(* Pheromone instantiates (ipc::chan<multi, multi, unicast>).  One action  *)
(* per access to shared memory, so that TLC interleaves what the           *)
(* processes interleave.                                                   *)
(*                                                                         *)
(* The counters rd_, wt_ and ct_ are 32 bits wide and only their low byte  *)
(* selects a slot; here they are naturals and the slot is c % N.  That     *)
(* leaves out one behaviour, a process that sleeps between two of its      *)
(* steps while 2^32 messages go by.  A compare-exchange fails only when    *)
(* the value differs (the weak ones retry otherwise).  flag[s] = 0 is a    *)
(* cleared f_ct_ and flag[s] = c + 1 stands for the 64-bit ~c, never 0.    *)
(***************************************************************************)
EXTENDS Naturals, Sequences, FiniteSets

CONSTANTS
    Producers,  \* threads and processes that push
    Consumers,  \* threads and processes that pop
    N,          \* slots of the ring (elem_max, 256)
    MaxPush,    \* bound: messages sent
    MaxKills,   \* bound: processes that are killed
    Torn        \* the bytes of a slot that is being written

ASSUME RingAssumption ==
    /\ N \in Nat /\ N > 1
    /\ MaxPush \in Nat
    /\ MaxKills \in Nat
    /\ Producers \cap Consumers = {}
    /\ Torn \notin Producers \X Nat

VARIABLES
    rd, wt, ct,     \* read, write and commit index
    data, flag,     \* data_ and f_ct_ of each slot
    pc,             \* where each process is
    cur,            \* cur_ct of a producer, cur_rd of a consumer
    cwt, buff,      \* cur_wt of a consumer and its copy of a slot
    cac,            \* cac_ct of a producer
    down,           \* processes that were killed
    sent, got       \* history: the messages in the order of their claims, and of the pops

vars == <<rd, wt, ct, data, flag, pc, cur, cwt, buff, cac, down, sent, got>>

Procs == Producers \cup Consumers
Slots == 0..(N - 1)
Messages == Producers \X (1..MaxPush)
index_of(c) == c % N

Init ==
    /\ rd = 0 /\ wt = 0 /\ ct = 0
    /\ data = [s \in Slots |-> Torn]
    /\ flag = [s \in Slots |-> 0]
    /\ pc = [x \in Procs |-> "idle"]
    /\ cur = [x \in Procs |-> 0]
    /\ cwt = [x \in Procs |-> 0]
    /\ buff = [x \in Procs |-> Torn]
    /\ cac = [x \in Procs |-> 0]
    /\ down = {}
    /\ sent = << >> /\ got = << >>

At(x, where) == x \notin down /\ pc[x] = where
Goto(x, where) == pc' = [pc EXCEPT ![x] = where]

\* The call returns, or its loop starts over: its locals are dead.
Return(x) ==
    /\ Goto(x, "idle")
    /\ cur' = [cur EXCEPT ![x] = 0]
    /\ cwt' = [cwt EXCEPT ![x] = 0]
    /\ buff' = [buff EXCEPT ![x] = Torn]
    /\ cac' = [cac EXCEPT ![x] = 0]

locals == <<cur, cwt, buff, cac>>

(***************************************************************************)
(* push                                                                    *)
(***************************************************************************)
PushLoad(p) ==
    /\ At(p, "idle") /\ Len(sent) < MaxPush
    /\ cur' = [cur EXCEPT ![p] = ct]
    /\ Goto(p, "full")
    /\ UNCHANGED <<rd, wt, ct, data, flag, cwt, buff, cac, down, sent, got>>

\* The ring not tested for being full.
MutPushFull(p) ==
    /\ At(p, "full")
    /\ Goto(p, "claim")
    /\ UNCHANGED <<rd, wt, ct, data, flag, locals, down, sent, got>>

\* A push that finds the ring full returns false; its caller tries again.
PushFull(p) ==
    /\ At(p, "full")
    /\ IF index_of(cur[p] + 1) = index_of(rd)
       THEN Return(p)
       ELSE Goto(p, "claim") /\ UNCHANGED locals
    /\ UNCHANGED <<rd, wt, ct, data, flag, down, sent, got>>

\* The message that takes place number c of the channel is named by its sender and c.
PushClaim(p) ==
    /\ At(p, "claim")
    /\ IF ct = cur[p] /\ Len(sent) < MaxPush
       THEN /\ ct' = ct + 1
            /\ sent' = Append(sent, <<p, ct + 1>>)
            /\ Goto(p, "write") /\ UNCHANGED locals
       ELSE Return(p) /\ UNCHANGED <<ct, sent>>
    /\ UNCHANGED <<rd, wt, data, flag, down, got>>

\* The commit flag set before the message is copied.
MutPushWrite(p) ==
    /\ At(p, "write")
    /\ data' = [data EXCEPT ![index_of(cur[p])] = Torn]
    /\ flag' = [flag EXCEPT ![index_of(cur[p])] = cur[p] + 1]
    /\ Goto(p, "written")
    /\ UNCHANGED <<rd, wt, ct, locals, down, sent, got>>

\* The message is copied into the slot; a reader may see half of it.
PushWrite(p) ==
    /\ At(p, "write")
    /\ data' = [data EXCEPT ![index_of(cur[p])] = Torn]
    /\ Goto(p, "written")
    /\ UNCHANGED <<rd, wt, ct, flag, locals, down, sent, got>>

PushWritten(p) ==
    /\ At(p, "written")
    /\ data' = [data EXCEPT ![index_of(cur[p])] = <<p, cur[p] + 1>>]
    /\ Goto(p, "commit")
    /\ UNCHANGED <<rd, wt, ct, flag, locals, down, sent, got>>

PushCommit(p) ==
    /\ At(p, "commit")
    /\ flag' = [flag EXCEPT ![index_of(cur[p])] = cur[p] + 1]
    /\ Goto(p, "flag")
    /\ UNCHANGED <<rd, wt, ct, data, locals, down, sent, got>>

PushFlag(p) ==
    /\ At(p, "flag")
    /\ cac' = [cac EXCEPT ![p] = flag[index_of(cur[p])]]
    /\ Goto(p, "turn")
    /\ UNCHANGED <<rd, wt, ct, data, flag, cur, cwt, buff, down, sent, got>>

\* The load of wt_ is relaxed: it may miss the latest value, and then the push
\* returns and leaves wt_ to others.
PushTurn(p) ==
    /\ At(p, "turn")
    /\ \/ /\ wt = cur[p] /\ cac[p] = cur[p] + 1
          /\ Goto(p, "clear") /\ UNCHANGED locals
       \/ Return(p)
    /\ UNCHANGED <<rd, wt, ct, data, flag, down, sent, got>>

PushClear(p) ==
    /\ At(p, "clear")
    /\ IF flag[index_of(cur[p])] = cac[p]
       THEN /\ flag' = [flag EXCEPT ![index_of(cur[p])] = 0]
            /\ Goto(p, "advance") /\ UNCHANGED locals
       ELSE Return(p) /\ UNCHANGED flag
    /\ UNCHANGED <<rd, wt, ct, data, down, sent, got>>

PushAdvance(p) ==
    /\ At(p, "advance")
    /\ wt' = cur[p] + 1
    /\ cur' = [cur EXCEPT ![p] = @ + 1]
    /\ Goto(p, "flag")
    /\ UNCHANGED <<rd, ct, data, flag, cwt, buff, cac, down, sent, got>>

push(p) ==
    \/ PushLoad(p) \/ PushFull(p) \/ PushClaim(p)
    \/ PushWrite(p) \/ PushWritten(p) \/ PushCommit(p)
    \/ PushFlag(p) \/ PushTurn(p) \/ PushClear(p) \/ PushAdvance(p)

(***************************************************************************)
(* pop                                                                     *)
(***************************************************************************)
PopLoad(c) ==
    /\ At(c, "idle")
    /\ cur' = [cur EXCEPT ![c] = rd]
    /\ Goto(c, "look")
    /\ UNCHANGED <<rd, wt, ct, data, flag, cwt, buff, cac, down, sent, got>>

PopLook(c) ==
    /\ At(c, "look")
    /\ cwt' = [cwt EXCEPT ![c] = wt]
    /\ Goto(c, IF index_of(cur[c]) = index_of(wt) THEN "flag" ELSE "copy")
    /\ UNCHANGED <<rd, wt, ct, data, flag, cur, buff, cac, down, sent, got>>

\* An index that the producers left behind is not moved along.
MutPopFlag(c) ==
    /\ At(c, "flag")
    /\ Return(c)
    /\ UNCHANGED <<rd, wt, ct, data, flag, down, sent, got>>

\* Nothing committed at wt_: the pop returns false.
PopFlag(c) ==
    /\ At(c, "flag")
    /\ IF flag[index_of(cwt[c])] = cwt[c] + 1
       THEN Goto(c, "clear") /\ UNCHANGED locals
       ELSE Return(c)
    /\ UNCHANGED <<rd, wt, ct, data, flag, down, sent, got>>

PopClear(c) ==
    /\ At(c, "clear")
    /\ IF flag[index_of(cwt[c])] = cwt[c] + 1
       THEN /\ flag' = [flag EXCEPT ![index_of(cwt[c])] = 0]
            /\ Goto(c, "advance") /\ UNCHANGED locals
       ELSE Return(c) /\ UNCHANGED flag
    /\ UNCHANGED <<rd, wt, ct, data, down, sent, got>>

PopAdvance(c) ==
    /\ At(c, "advance")
    /\ wt' = cwt[c] + 1
    /\ Return(c)
    /\ UNCHANGED <<rd, ct, data, flag, down, sent, got>>

PopCopy(c) ==
    /\ At(c, "copy")
    /\ buff' = [buff EXCEPT ![c] = data[index_of(cur[c])]]
    /\ Goto(c, "take")
    /\ UNCHANGED <<rd, wt, ct, data, flag, cur, cwt, cac, down, sent, got>>

PopTake(c) ==
    /\ At(c, "take")
    /\ IF rd = cur[c]
       THEN rd' = rd + 1 /\ got' = Append(got, buff[c])
       ELSE UNCHANGED <<rd, got>>
    /\ Return(c)
    /\ UNCHANGED <<wt, ct, data, flag, down, sent>>

pop(c) ==
    \/ PopLoad(c) \/ PopLook(c) \/ PopFlag(c) \/ PopClear(c)
    \/ PopAdvance(c) \/ PopCopy(c) \/ PopTake(c)

\* A process is killed wherever it is; the ring stays as it left it.
Kill(x) ==
    /\ x \notin down /\ Cardinality(down) < MaxKills
    /\ down' = down \cup {x}
    /\ UNCHANGED <<rd, wt, ct, data, flag, pc, locals, sent, got>>

Next ==
    \/ \E p \in Producers : push(p)
    \/ \E c \in Consumers : pop(c)
    \/ \E x \in Procs : Kill(x)

Spec == Init /\ [][Next]_vars

\* Every process that runs is scheduled; a consumer pops for ever (the receive
\* loops of the scheduler and of the executors).
FairSpec ==
    /\ Spec
    /\ \A p \in Producers : WF_vars(push(p))
    /\ \A c \in Consumers : WF_vars(pop(c))

(***************************************************************************)
(* Properties                                                              *)
(***************************************************************************)
Writing == {"write", "written", "commit"}
Places == Writing \cup {"idle", "full", "claim", "flag", "turn", "clear", "advance",
                        "look", "copy", "take"}

TypeOK ==
    /\ rd \in Nat /\ wt \in Nat /\ ct \in Nat
    /\ data \in [Slots -> Messages \cup {Torn}]
    /\ flag \in [Slots -> Nat]
    /\ pc \in [Procs -> Places]
    /\ cur \in [Procs -> Nat] /\ cac \in [Procs -> Nat]
    /\ cwt \in [Procs -> Nat]
    /\ buff \in [Procs -> Messages \cup {Torn}]
    /\ down \subseteq Procs
    /\ sent \in Seq(Messages) /\ got \in Seq(Messages)

\* The place that a process about to clear a flag or to store wt_ moves it past.
Passing(x) == IF x \in Producers THEN cur[x] ELSE cwt[x]

IndexOrder ==
    /\ rd <= wt /\ wt <= ct /\ ct < rd + N
    /\ Len(sent) = ct /\ Len(got) = rd

ClaimsInBounds ==
    \A p \in Producers :
        /\ pc[p] \in {"full", "claim"} => cur[p] <= ct
        /\ pc[p] = "claim" /\ cur[p] = ct => ct + 1 < rd + N

\* p copies its message into the slot it claimed, alone.
Writes(p) ==
    /\ wt <= cur[p] /\ cur[p] < ct
    /\ flag[index_of(cur[p])] # cur[p] + 1
    /\ sent[cur[p] + 1] = <<p, cur[p] + 1>>
    /\ pc[p] = "commit" => data[index_of(cur[p])] = <<p, cur[p] + 1>>
    /\ \A q \in Producers : q # p /\ pc[q] \in Writing => cur[q] # cur[p]

OneWriter == \A p \in Producers : pc[p] \in Writing => Writes(p)

\* x has cleared the flag at wt_ and is about to store wt_, alone.
Moves(x) ==
    /\ Passing(x) = wt /\ wt < ct
    /\ flag[index_of(wt)] # wt + 1
    /\ data[index_of(wt)] = sent[wt + 1]
    /\ \A y \in Procs : pc[y] = "advance" => y = x
    /\ \A p \in Producers : pc[p] \in Writing => cur[p] # wt

OneMover ==
    \A x \in Procs :
        /\ pc[x] = "clear" => Passing(x) <= wt /\ (x \in Producers => cac[x] = cur[x] + 1)
        /\ pc[x] = "advance" => Moves(x)

\* The flag of slot s, when it is set, announces a place at or above wt_.
Announces(s) ==
    /\ index_of(flag[s] - 1) = s
    /\ wt < flag[s] /\ flag[s] <= ct
    /\ data[s] = sent[flag[s]]

FlagsMatch == \A s \in Slots : flag[s] # 0 => Announces(s)

SlotsKept == \A k \in rd..(wt - 1) : data[index_of(k)] = sent[k + 1]

ReadersBehind ==
    \A c \in Consumers :
        /\ pc[c] \in {"look", "copy", "take"} => cur[c] <= rd
        /\ pc[c] = "flag" => cwt[c] <= wt
        /\ pc[c] \in {"copy", "take"} /\ cur[c] = rd => rd < wt
        /\ pc[c] = "take" /\ cur[c] = rd => buff[c] = sent[rd + 1]

\* The ring's protocol, the inductive invariant behind the refinement below:
\* the three indices stay in order and less than a lap apart; a claimed slot has
\* one writer until its flag is set; whoever clears a flag is alone in moving
\* wt_; a slot below wt_ and not yet read holds the message claimed for it.
RingInv ==
    /\ IndexOrder
    /\ ClaimsInBounds
    /\ OneWriter
    /\ OneMover
    /\ FlagsMatch
    /\ SlotsKept
    /\ ReadersBehind

\* The claims not yet read, oldest first.
Pending == SubSeq(sent, rd + 1, ct)

Fifo == INSTANCE ShmFifo WITH
    Items <- Messages, Capacity <- N - 1, queue <- Pending, got <- got

\* The ring implements a bounded queue: push and pop of many processes, killed
\* anywhere, take effect one at a time, and a pop hands out the oldest message
\* whole, never a torn or overwritten slot, a message twice or out of order.
ImplementsFifo == Fifo!Spec

\* A process was killed between claiming a slot and setting its flag, or between
\* clearing a flag and storing wt_: nobody can move wt_ past that slot.  Or
\* nobody is left to pop.
Stuck ==
    \/ \E x \in down : pc[x] \in Writing \cup {"advance"}
    \/ Consumers \subseteq down

\* Every message claimed is received, although pushes leave wt_ behind when they
\* miss each other's stores: the pop moves it along.  Only a process killed
\* inside its few critical steps blocks the ring.
AllReceived ==
    \A n \in 1..MaxPush :
        Len(sent) >= n ~> (Len(got) >= n \/ Stuck)
=============================================================================
