--------------------------- MODULE ShmRing_proofs ---------------------------
(***************************************************************************)
(* The ring of module ShmRing keeps its protocol and implements the        *)
(* bounded queue of module ShmFifo, for every number of producers and      *)
(* consumers and every size of the ring.                                   *)
(***************************************************************************)
EXTENDS ShmRing, Integers, TLAPS

\* What the protocol says of the locals of process x.
Own(x) ==
    /\ x \in Producers =>
         /\ pc[x] \in {"full", "claim"} => cur[x] <= ct
         /\ pc[x] = "claim" /\ cur[x] = ct => ct + 1 < rd + N
    /\ x \in Consumers =>
         /\ pc[x] \in {"look", "copy", "take"} => cur[x] <= rd
         /\ pc[x] = "flag" => cwt[x] <= wt
         /\ pc[x] \in {"copy", "take"} /\ cur[x] = rd => rd < wt
         /\ pc[x] = "take" /\ cur[x] = rd => buff[x] = sent[rd + 1]
    /\ pc[x] = "clear" => Passing(x) <= wt /\ (x \in Producers => cac[x] = cur[x] + 1)

Owned == \A x \in Procs : Own(x)
Moved == \A x \in Procs : pc[x] = "advance" => Moves(x)

\* The inductive invariant, with the protocol's part about locals process by process.
IInv == TypeOK /\ IndexOrder /\ Owned /\ OneWriter /\ Moved /\ FlagsMatch /\ SlotsKept

\* The part of the type invariant that most steps of the proof need.
Nums ==
    /\ N \in Nat /\ N > 1
    /\ rd \in Nat /\ wt \in Nat /\ ct \in Nat
    /\ flag \in [Slots -> Nat]
    /\ \A x \in Procs : cur[x] \in Nat /\ cwt[x] \in Nat /\ cac[x] \in Nat

\* The ring's indices and the processes' locals are naturals.
LEMMA TypeNums == TypeOK => Nums
  BY RingAssumption, Zenon DEF TypeOK, Nums

\* The inductive invariant is the protocol.
LEMMA Protocol == IInv => TypeOK /\ RingInv
<1> SUFFICES ASSUME IInv PROVE TypeOK /\ RingInv
  BY Zenon
<1>1. TypeOK /\ IndexOrder /\ Owned /\ OneWriter /\ Moved /\ FlagsMatch /\ SlotsKept
  BY Zenon DEF IInv
<1>2. ClaimsInBounds
  BY <1>1, Zenon DEF Owned, Own, ClaimsInBounds, Procs
<1>3. OneMover
  BY <1>1, Zenon DEF Owned, Own, Moved, OneMover
<1>4. ReadersBehind
  BY <1>1, Zenon DEF Owned, Own, ReadersBehind, Procs
<1> QED BY <1>1, <1>2, <1>3, <1>4, Zenon DEF RingInv

(***************************************************************************)
(* Slots                                                                   *)
(***************************************************************************)

\* A slot index is a slot.
LEMMA IndexType == \A i \in Nat : index_of(i) \in Slots
  BY RingAssumption DEF index_of, Slots

\* Quotient and remainder by the number of slots.
LEMMA DivMod == \A i \in Nat : \E q \in Nat : i = N * q + (i % N)
<1> SUFFICES ASSUME NEW i \in Nat PROVE \E q \in Nat : i = N * q + (i % N)
  BY Zenon
<1>1. i \div N \in Nat /\ i = N * (i \div N) + (i % N)
  BY RingAssumption
<1> QED BY <1>1, Zenon

\* Two places less than a lap apart have different slots.
LEMMA IndexDistinct ==
  ASSUME NEW i \in Nat, NEW j \in Nat, i < j, j < i + N
  PROVE  index_of(i) # index_of(j)
<1> SUFFICES ASSUME i % N = j % N PROVE FALSE
  BY Zenon DEF index_of
<1>1. PICK q \in Nat : i = N * q + (i % N)
  BY DivMod, Zenon
<1>2. PICK r \in Nat : j = N * r + (j % N)
  BY DivMod, Zenon
<1>3. i % N \in Nat
  BY RingAssumption
<1>4. N * r - N * q = j - i
  BY <1>1, <1>2, <1>3, RingAssumption
<1>5. N * (r - q) = j - i
  BY <1>4, RingAssumption
<1>6. CASE r - q <= 0
  BY <1>5, <1>6, RingAssumption
<1>7. CASE r - q >= 1
  <2>1. N * (r - q) >= N
    BY <1>7, RingAssumption
  <2> QED BY <2>1, <1>5, RingAssumption
<1> QED BY <1>6, <1>7

\* A place and the one a lap later share a slot.
LEMMA IndexLap ==
  ASSUME NEW i \in Nat
  PROVE  index_of(i + N) = index_of(i)
<1> DEFINE a == i % N
           b == (i + N) % N
<1>1. PICK q \in Nat : i = N * q + a
  BY DivMod, Zenon
<1> i + N \in Nat
  BY RingAssumption
<1>2. PICK r \in Nat : i + N = N * r + b
  BY DivMod, Zenon
<1>3. a \in 0..(N - 1) /\ b \in 0..(N - 1)
  BY RingAssumption
<1> HIDE DEF a, b
<1>4. N * r - N * q = N + a - b
  BY <1>1, <1>2, <1>3, RingAssumption
<1>5. N * (r - q) = N + a - b
  BY <1>4, RingAssumption
<1>6. CASE r - q <= 0
  BY <1>3, <1>5, <1>6, RingAssumption
<1>7. CASE r - q >= 2
  <2>1. N * (r - q) >= N + N
    BY <1>7, RingAssumption
  <2> QED BY <2>1, <1>3, <1>5, RingAssumption
<1>8. CASE r - q = 1
  BY <1>3, <1>5, <1>8, RingAssumption DEF index_of, a, b
<1> QED BY <1>6, <1>7, <1>8

\* The form in which the steps use the two facts: places that are claimed and
\* not read have slots of their own.
LEMMA OwnSlot ==
  ASSUME Nums, IndexOrder
  PROVE  \A i, j \in Nat :
           rd <= i /\ rd <= j /\ i < ct /\ j < ct /\ index_of(i) = index_of(j) => i = j
<1> SUFFICES ASSUME NEW i \in Nat, NEW j \in Nat, rd <= i, rd <= j, i < ct, j < ct, i # j
             PROVE  index_of(i) # index_of(j)
  BY Zenon DEF Nums
<1>1. CASE i < j
  <2>1. j < i + N
    BY DEF Nums, IndexOrder
  <2> QED BY <1>1, <2>1, IndexDistinct, Zenon
<1>2. CASE j < i
  <2>1. i < j + N
    BY DEF Nums, IndexOrder
  <2> QED BY <1>2, <2>1, IndexDistinct, Zenon
<1> QED BY <1>1, <1>2

(***************************************************************************)
(* Steps                                                                   *)
(***************************************************************************)
\* Process x goes to w and may change its locals; the others stay as they are.
Step(x, w) ==
    /\ pc' \in [Procs -> Places] /\ pc'[x] = w
    /\ cur' \in [Procs -> Nat] /\ cwt' \in [Procs -> Nat] /\ cac' \in [Procs -> Nat]
    /\ buff' \in [Procs -> Messages \cup {Torn}]
    /\ down' = down
    /\ \A y \in Procs \ {x} :
         pc'[y] = pc[y] /\ cur'[y] = cur[y] /\ cwt'[y] = cwt[y] /\ cac'[y] = cac[y] /\ buff'[y] = buff[y]

\* The same step with the locals of x kept.
Keeps(x) == cur' = cur /\ cwt' = cwt /\ cac' = cac /\ buff' = buff

\* Going to w with the locals kept is a step.
LEMMA KeepStep ==
  ASSUME TypeOK, NEW x \in Procs, NEW w \in Places, Goto(x, w), UNCHANGED locals, down' = down
  PROVE  Step(x, w) /\ Keeps(x)
<1>1. /\ pc \in [Procs -> Places] /\ cur \in [Procs -> Nat] /\ cwt \in [Procs -> Nat] /\ cac \in [Procs -> Nat]
      /\ buff \in [Procs -> Messages \cup {Torn}]
  BY Zenon DEF TypeOK
<1>2. Keeps(x)
  BY Zenon DEF locals, Keeps
<1> QED BY <1>1, <1>2, Zenon DEF Goto, Step, Keeps

\* So is a return.
LEMMA ReturnStep ==
  ASSUME TypeOK, NEW x \in Procs, Return(x), down' = down
  PROVE  Step(x, "idle")
<1>1. /\ pc \in [Procs -> Places] /\ cur \in [Procs -> Nat] /\ cwt \in [Procs -> Nat] /\ cac \in [Procs -> Nat]
      /\ buff \in [Procs -> Messages \cup {Torn}] /\ "idle" \in Places
  BY Zenon DEF TypeOK, Places
<1> QED BY <1>1, Zenon DEF Return, Goto, Step

\* What holds of the locals of a process goes on to hold when others move the
\* indices.
LEMMA OwnStays ==
  ASSUME Nums, Nums', NEW y \in Procs, Own(y),
         pc'[y] = pc[y], cur'[y] = cur[y], cwt'[y] = cwt[y], cac'[y] = cac[y], buff'[y] = buff[y],
         rd' = rd \/ rd' = rd + 1, wt <= wt', ct' = ct \/ ct' = ct + 1, rd < wt => sent'[rd + 1] = sent[rd + 1]
  PROVE  Own(y)'
<1>1. cur[y] \in Nat /\ cwt[y] \in Nat /\ rd \in Nat /\ wt \in Nat /\ ct \in Nat /\ N \in Nat /\ wt' \in Nat
  BY Zenon DEF Nums
<1>2. ASSUME y \in Producers
      PROVE  /\ pc'[y] \in {"full", "claim"} => cur'[y] <= ct'
             /\ pc'[y] = "claim" /\ cur'[y] = ct' => ct' + 1 < rd' + N
  BY <1>1, <1>2 DEF Own
<1>3. ASSUME y \in Consumers
      PROVE  /\ pc'[y] \in {"look", "copy", "take"} => cur'[y] <= rd'
             /\ pc'[y] = "flag" => cwt'[y] <= wt'
             /\ pc'[y] \in {"copy", "take"} /\ cur'[y] = rd' => rd' < wt'
             /\ pc'[y] = "take" /\ cur'[y] = rd' => buff'[y] = sent'[rd' + 1]
  BY <1>1, <1>3 DEF Own
<1>4. pc'[y] = "clear" => Passing(y)' <= wt' /\ (y \in Producers => cac'[y] = cur'[y] + 1)
  BY <1>1 DEF Own, Passing
<1> QED BY <1>2, <1>3, <1>4, Zenon DEF Own

LEMMA OwnedStays ==
  ASSUME Nums, Nums', Owned, NEW x \in Procs, NEW w, Step(x, w), Own(x)',
         rd' = rd \/ rd' = rd + 1, wt <= wt', ct' = ct \/ ct' = ct + 1, rd < wt => sent'[rd + 1] = sent[rd + 1]
  PROVE  Owned'
<1> SUFFICES ASSUME NEW y \in Procs, y # x PROVE Own(y)'
  BY Zenon DEF Owned
<1>1. Own(y)
  BY Zenon DEF Owned
<1>2. pc'[y] = pc[y] /\ cur'[y] = cur[y] /\ cwt'[y] = cwt[y] /\ cac'[y] = cac[y] /\ buff'[y] = buff[y]
  BY Zenon DEF Step
<1> QED BY <1>1, <1>2, OwnStays, Zenon

\* The type invariant after a step.
LEMMA StepTypes ==
  ASSUME TypeOK, NEW x \in Procs, NEW w, Step(x, w), rd' \in Nat, wt' \in Nat, ct' \in Nat,
         data' \in [Slots -> Messages \cup {Torn}], flag' \in [Slots -> Nat],
         sent' \in Seq(Messages), got' \in Seq(Messages)
  PROVE  TypeOK' /\ Nums /\ Nums'
<1>1. down' \subseteq Procs
  BY Zenon DEF TypeOK, Step
<1>2. /\ pc' \in [Procs -> Places] /\ cur' \in [Procs -> Nat] /\ cwt' \in [Procs -> Nat]
      /\ cac' \in [Procs -> Nat] /\ buff' \in [Procs -> Messages \cup {Torn}]
  BY Zenon DEF Step
<1>3. TypeOK'
  BY <1>1, <1>2, Zenon DEF TypeOK
<1> QED BY <1>2, <1>3, TypeNums, RingAssumption, Zenon DEF Nums

\* A step that changes no shared variable and does not enter a critical section.
LEMMA LocalInv ==
  ASSUME IInv, NEW x \in Procs, NEW w \in Places \ (Writing \cup {"advance"}), Step(x, w), Own(x)',
         UNCHANGED <<rd, wt, ct, data, flag, sent, got>>
  PROVE  IInv'
<1>1. TypeOK /\ IndexOrder /\ Owned /\ OneWriter /\ Moved /\ FlagsMatch /\ SlotsKept
  BY Zenon DEF IInv
<1>2. /\ rd' = rd /\ wt' = wt /\ ct' = ct /\ data' = data /\ flag' = flag /\ sent' = sent /\ got' = got
  BY Zenon
<1>3. TypeOK' /\ Nums /\ Nums'
  <2>1. /\ rd' \in Nat /\ wt' \in Nat /\ ct' \in Nat
        /\ data' \in [Slots -> Messages \cup {Torn}] /\ flag' \in [Slots -> Nat]
        /\ sent' \in Seq(Messages) /\ got' \in Seq(Messages)
    BY <1>1, <1>2, Zenon DEF TypeOK
  <2> QED BY <1>1, <2>1, StepTypes, Zenon
<1>4. \A y \in Procs \ {x} :
        pc'[y] = pc[y] /\ cur'[y] = cur[y] /\ cwt'[y] = cwt[y] /\ cac'[y] = cac[y] /\ buff'[y] = buff[y]
  BY Zenon DEF Step
<1>5. pc'[x] \notin Writing /\ pc'[x] # "advance"
  BY Zenon DEF Step
<1>6. Owned'
  <2>1. wt <= wt'
    BY <1>2, <1>3 DEF Nums
  <2> QED BY <1>1, <1>2, <1>3, <2>1, OwnedStays, Zenon
<1>7. ASSUME NEW q \in Producers, pc'[q] \in Writing
      PROVE  q # x /\ q \in Procs /\ pc'[q] = pc[q] /\ cur'[q] = cur[q]
  BY <1>4, <1>5, <1>7, Zenon DEF Procs
<1>8. OneWriter'
  <2> SUFFICES ASSUME NEW q \in Producers, pc'[q] \in Writing PROVE Writes(q)'
    BY Zenon DEF OneWriter
  <2>1. pc'[q] = pc[q] /\ cur'[q] = cur[q] /\ Writes(q)
    BY <1>1, <1>7, Zenon DEF OneWriter
  <2> QED BY <1>2, <1>7, <2>1, Zenon DEF Writes
<1>9. Moved'
  <2> SUFFICES ASSUME NEW y \in Procs, pc'[y] = "advance" PROVE Moves(y)'
    BY Zenon DEF Moved
  <2>1. y # x /\ pc[y] = "advance" /\ Moves(y) /\ Passing(y)' = Passing(y)
    BY <1>1, <1>4, <1>5, Zenon DEF Moved, Passing
  <2>2. \A z \in Procs : pc'[z] = "advance" => pc[z] = "advance"
    BY <1>4, <1>5, Zenon
  <2> QED BY <1>2, <1>7, <2>1, <2>2, Zenon DEF Moves
<1>10. IndexOrder' /\ FlagsMatch' /\ SlotsKept'
  BY <1>1, <1>2, Zenon DEF IndexOrder, FlagsMatch, Announces, SlotsKept
<1> QED BY <1>3, <1>6, <1>8, <1>9, <1>10, Zenon DEF IInv

\* A call that returns, or starts its loop over, and writes nothing.
LEMMA ReturnInv ==
  ASSUME IInv, NEW x \in Procs, Return(x), UNCHANGED <<rd, wt, ct, data, flag, down, sent, got>>
  PROVE  IInv'
<1>1. Step(x, "idle")
  BY ReturnStep, Zenon DEF IInv
<1>2. Own(x)'
  BY <1>1, Zenon DEF Step, Own
<1>3. "idle" \in Places \ (Writing \cup {"advance"})
  BY Zenon DEF Places, Writing
<1> QED BY <1>1, <1>2, <1>3, LocalInv, Zenon

\* A process that keeps its locals and goes to another place in private.
LEMMA GoInv ==
  ASSUME IInv, NEW x \in Procs, NEW w \in Places \ (Writing \cup {"advance"}), Goto(x, w), UNCHANGED locals,
         UNCHANGED <<rd, wt, ct, data, flag, down, sent, got>>, pc'[x] = w => Own(x)'
  PROVE  IInv'
<1>1. Step(x, w)
  BY KeepStep, Zenon DEF IInv
<1>2. Own(x)'
  BY <1>1, Zenon DEF Step
<1> QED BY <1>1, <1>2, LocalInv, Zenon

\* push loads ct_.
LEMMA PushLoadInv ==
  ASSUME IInv, NEW p \in Producers, PushLoad(p)
  PROVE  IInv'
<1>1. TypeOK /\ p \in Procs /\ p \notin Consumers
  BY RingAssumption, Zenon DEF IInv, Procs
<1>2. Step(p, "full") /\ cur'[p] = ct /\ ct' = ct
  <2>1. /\ pc \in [Procs -> Places] /\ cur \in [Procs -> Nat] /\ cwt \in [Procs -> Nat] /\ cac \in [Procs -> Nat]
        /\ buff \in [Procs -> Messages \cup {Torn}] /\ ct \in Nat /\ "full" \in Places
    BY <1>1, Zenon DEF TypeOK, Places
  <2> QED BY <1>1, <2>1, Zenon DEF PushLoad, Goto, Step
<1>3. Own(p)'
  BY <1>1, <1>2 DEF Own, Step, TypeOK
<1>4. "full" \in Places \ (Writing \cup {"advance"})
  BY Zenon DEF Places, Writing
<1> QED BY <1>1, <1>2, <1>3, <1>4, LocalInv, Zenon DEF PushLoad

\* push compares with rd_ and goes on.
LEMMA PushFullInv ==
  ASSUME IInv, NEW p \in Producers, PushFull(p), index_of(cur[p] + 1) # index_of(rd)
  PROVE  IInv'
<1>1. TypeOK /\ IndexOrder /\ Own(p) /\ p \in Procs /\ p \notin Consumers /\ Nums
  BY RingAssumption, TypeNums, Zenon DEF IInv, Procs, Owned
<1>2. /\ pc[p] = "full" /\ Goto(p, "claim") /\ UNCHANGED locals
      /\ UNCHANGED <<rd, wt, ct, data, flag, down, sent, got>>
  BY Zenon DEF PushFull, At
<1>3. cur[p] <= ct
  BY <1>1, <1>2, Zenon DEF Own
<1>4. cur[p] = ct => ct + 1 < rd + N
  <2>1. ct \in Nat /\ rd \in Nat /\ N \in Nat /\ ct < rd + N
    BY <1>1, Zenon DEF IndexOrder, Nums
  <2>2. cur[p] = ct => ct + 1 # rd + N
    BY <2>1, IndexLap, Zenon
  <2> QED BY ONLY <2>1, <2>2
<1>5. pc'[p] = "claim" => Own(p)'
  BY <1>1, <1>2, <1>3, <1>4, Zenon DEF Own, locals
<1>6. "claim" \in Places \ (Writing \cup {"advance"})
  BY Zenon DEF Places, Writing
<1> QED BY <1>1, <1>2, <1>5, <1>6, GoInv, Zenon

\* push loads a flag.
LEMMA PushFlagInv ==
  ASSUME IInv, NEW p \in Producers, PushFlag(p)
  PROVE  IInv'
<1>1. TypeOK /\ p \in Procs /\ p \notin Consumers
  BY RingAssumption, Zenon DEF IInv, Procs
<1>2. Step(p, "turn")
  <2>1. /\ pc \in [Procs -> Places] /\ cur \in [Procs -> Nat] /\ cwt \in [Procs -> Nat] /\ cac \in [Procs -> Nat]
        /\ buff \in [Procs -> Messages \cup {Torn}] /\ "turn" \in Places
    BY <1>1, Zenon DEF TypeOK, Places
  <2>2. flag[index_of(cur[p])] \in Nat
    BY <1>1, <2>1, IndexType, Zenon DEF TypeOK
  <2> QED BY <1>1, <2>1, <2>2, Zenon DEF PushFlag, Goto, Step
<1>3. Own(p)'
  BY <1>1, <1>2, Zenon DEF Own, Step
<1>4. "turn" \in Places \ (Writing \cup {"advance"})
  BY Zenon DEF Places, Writing
<1> QED BY <1>1, <1>2, <1>3, <1>4, LocalInv, Zenon DEF PushFlag

\* push finds that wt_ is at the place it looks at.
LEMMA PushTurnInv ==
  ASSUME IInv, NEW p \in Producers, wt = cur[p], cac[p] = cur[p] + 1, Goto(p, "clear"),
         UNCHANGED locals, UNCHANGED <<rd, wt, ct, data, flag, down, sent, got>>
  PROVE  IInv'
<1>1. p \in Procs /\ p \notin Consumers /\ wt \in Nat
  BY RingAssumption, Zenon DEF Procs, IInv, TypeOK
<1>2. pc'[p] = "clear" => Own(p)'
  BY <1>1 DEF Own, Passing, locals
<1>3. "clear" \in Places \ (Writing \cup {"advance"})
  BY Zenon DEF Places, Writing
<1> QED BY <1>1, <1>2, <1>3, GoInv, Zenon

\* pop loads rd_.
LEMMA PopLoadInv ==
  ASSUME IInv, NEW c \in Consumers, PopLoad(c)
  PROVE  IInv'
<1>1. TypeOK /\ c \in Procs /\ c \notin Producers
  BY RingAssumption, Zenon DEF IInv, Procs
<1>2. Step(c, "look") /\ cur'[c] = rd /\ rd' = rd /\ rd \in Nat
  <2>1. /\ pc \in [Procs -> Places] /\ cur \in [Procs -> Nat] /\ cwt \in [Procs -> Nat] /\ cac \in [Procs -> Nat]
        /\ buff \in [Procs -> Messages \cup {Torn}] /\ rd \in Nat /\ "look" \in Places
    BY <1>1, Zenon DEF TypeOK, Places
  <2> QED BY <1>1, <2>1, Zenon DEF PopLoad, Goto, Step
<1>3. Own(c)'
  BY <1>1, <1>2 DEF Own, Step
<1>4. "look" \in Places \ (Writing \cup {"advance"})
  BY Zenon DEF Places, Writing
<1> QED BY <1>1, <1>2, <1>3, <1>4, LocalInv, Zenon DEF PopLoad

\* pop loads wt_.
LEMMA PopLookInv ==
  ASSUME IInv, NEW c \in Consumers, PopLook(c)
  PROVE  IInv'
<1> DEFINE w == IF index_of(cur[c]) = index_of(wt) THEN "flag" ELSE "copy"
<1>1. TypeOK /\ IndexOrder /\ Own(c) /\ c \in Procs /\ c \notin Producers /\ Nums
  BY RingAssumption, TypeNums, Zenon DEF IInv, Procs, Owned
<1>2. Step(c, w) /\ cur'[c] = cur[c] /\ cwt'[c] = wt
  <2>1. /\ pc \in [Procs -> Places] /\ cur \in [Procs -> Nat] /\ cwt \in [Procs -> Nat] /\ cac \in [Procs -> Nat]
        /\ buff \in [Procs -> Messages \cup {Torn}] /\ wt \in Nat /\ w \in Places
    BY <1>1, Zenon DEF TypeOK, Places
  <2>2. Goto(c, w)
    BY Zenon DEF PopLook
  <2> HIDE DEF w
  <2> QED BY <1>1, <2>1, <2>2, Zenon DEF PopLook, Goto, Step
<1>3. pc'[c] = w /\ cur[c] <= rd
  BY <1>1, <1>2, Zenon DEF PopLook, At, Own, Step
<1>4. w = "copy" /\ cur[c] = rd => rd < wt
  BY <1>1 DEF IndexOrder, Nums
<1>5. w \in {"flag", "copy"}
  BY Zenon
<1> HIDE DEF w
<1>6. Own(c)'
  BY <1>1, <1>2, <1>3, <1>4, <1>5 DEF Own, PopLook, Nums
<1>7. w \in Places \ (Writing \cup {"advance"})
  BY <1>5, Zenon DEF Places, Writing
<1> QED BY <1>1, <1>2, <1>6, <1>7, LocalInv, Zenon DEF PopLook

\* pop finds the place at wt_ committed.
LEMMA PopFlagInv ==
  ASSUME IInv, NEW c \in Consumers, PopFlag(c), flag[index_of(cwt[c])] = cwt[c] + 1
  PROVE  IInv'
<1>1. Own(c) /\ c \in Procs /\ c \notin Producers
  BY RingAssumption, Zenon DEF IInv, Procs, Owned
<1>2. /\ pc[c] = "flag" /\ Goto(c, "clear") /\ UNCHANGED locals
      /\ UNCHANGED <<rd, wt, ct, data, flag, down, sent, got>>
  BY Zenon DEF PopFlag, At
<1>3. pc'[c] = "clear" => Own(c)'
  BY <1>1, <1>2, Zenon DEF Own, Passing, locals
<1>4. "clear" \in Places \ (Writing \cup {"advance"})
  BY Zenon DEF Places, Writing
<1> QED BY <1>1, <1>2, <1>3, <1>4, GoInv, Zenon

\* pop copies the slot at rd_.
LEMMA PopCopyInv ==
  ASSUME IInv, NEW c \in Consumers, PopCopy(c)
  PROVE  IInv'
<1>1. TypeOK /\ SlotsKept /\ Own(c) /\ c \in Procs /\ c \notin Producers /\ Nums
  BY RingAssumption, TypeNums, Zenon DEF IInv, Procs, Owned
<1>2. Step(c, "take") /\ cur'[c] = cur[c] /\ buff'[c] = data[index_of(cur[c])]
  <2>1. /\ pc \in [Procs -> Places] /\ cur \in [Procs -> Nat] /\ cwt \in [Procs -> Nat] /\ cac \in [Procs -> Nat]
        /\ buff \in [Procs -> Messages \cup {Torn}] /\ "take" \in Places
    BY <1>1, Zenon DEF TypeOK, Places
  <2>2. data[index_of(cur[c])] \in Messages \cup {Torn}
    BY <1>1, <2>1, IndexType, Zenon DEF TypeOK
  <2> QED BY <1>1, <2>1, <2>2, Zenon DEF PopCopy, Goto, Step
<1>3. cur[c] <= rd /\ (cur[c] = rd => rd < wt)
  BY <1>1, Zenon DEF PopCopy, At, Own
<1>4. rd < wt => data[index_of(rd)] = sent[rd + 1]
  BY <1>1 DEF SlotsKept, Nums
<1>5. Own(c)'
  BY <1>1, <1>2, <1>3, <1>4, Zenon DEF Own, PopCopy, Step
<1>6. "take" \in Places \ (Writing \cup {"advance"})
  BY Zenon DEF Places, Writing
<1> QED BY <1>1, <1>2, <1>5, <1>6, LocalInv, Zenon DEF PopCopy

(***************************************************************************)
(* Copying a message                                                       *)
(***************************************************************************)
\* A producer that is writing has a place at or above wt_.
LEMMA WriterFacts ==
  ASSUME OneWriter, Nums, NEW q \in Producers, pc[q] \in Writing
  PROVE  /\ Writes(q) /\ q \in Procs /\ cur[q] \in Nat /\ index_of(cur[q]) \in Slots
         /\ wt <= cur[q] /\ cur[q] < ct
<1>1. Writes(q)
  BY Zenon DEF OneWriter
<1>2. wt <= cur[q] /\ cur[q] < ct
  BY <1>1, Zenon DEF Writes
<1>3. q \in Procs /\ cur[q] \in Nat
  BY Zenon DEF Nums, Procs
<1> QED BY <1>1, <1>2, <1>3, IndexType, Zenon

\* p has written to its slot: half of its message, or all of it.
Wrote(p) ==
    /\ rd' = rd /\ wt' = wt /\ ct' = ct /\ flag' = flag /\ sent' = sent
    /\ cur' = cur /\ cwt' = cwt
    /\ pc'[p] \in {"written", "commit"} /\ \A y \in Procs \ {p} : pc'[y] = pc[y]
    /\ pc'[p] = "commit" => data'[index_of(cur[p])] = <<p, cur[p] + 1>>
    /\ \A k \in Nat : rd <= k /\ k < ct /\ k # cur[p] => data'[index_of(k)] = data[index_of(k)]

\* The same producers are writing, each its own slot.
LEMMA WroteWriters ==
  ASSUME Nums, IndexOrder, OneWriter, NEW p \in Producers, pc[p] \in Writing, Wrote(p)
  PROVE  OneWriter' /\ \A q \in Producers : pc'[q] \in Writing <=> pc[q] \in Writing
<1>1. \A q \in Producers : pc'[q] \in Writing <=> pc[q] \in Writing
  BY Zenon DEF Wrote, Writing, Procs
<1>2. ASSUME NEW q \in Producers, pc[q] \in Writing PROVE Writes(q)'
  <2>1. Writes(q) /\ q \in Procs /\ cur[q] \in Nat /\ wt <= cur[q] /\ cur[q] < ct
    BY <1>2, WriterFacts, Zenon
  <2>2. pc'[q] = "commit" => data'[index_of(cur[q])] = <<q, cur[q] + 1>>
    <3>1. CASE q # p
      <4>1. cur[q] # cur[p] /\ rd <= cur[q]
        BY <2>1, <3>1 DEF Writes, IndexOrder, Nums
      <4>2. data'[index_of(cur[q])] = data[index_of(cur[q])] /\ pc'[q] = pc[q]
        BY <2>1, <3>1, <4>1, Zenon DEF Wrote
      <4> QED BY <2>1, <4>2, Zenon DEF Writes
    <3> QED BY <3>1, Zenon DEF Wrote
  <2> QED BY <1>1, <2>1, <2>2, Zenon DEF Writes, Wrote
<1> QED BY <1>1, <1>2, Zenon DEF OneWriter

LEMMA WroteMoved ==
  ASSUME Nums, IndexOrder, Moved, NEW p \in Producers, pc[p] \in Writing, Wrote(p),
         \A q \in Producers : pc'[q] \in Writing <=> pc[q] \in Writing
  PROVE  Moved'
<1> SUFFICES ASSUME NEW y \in Procs, pc'[y] = "advance" PROVE Moves(y)'
  BY Zenon DEF Moved
<1>1. pc[y] = "advance" /\ Moves(y) /\ Passing(y)' = Passing(y)
  BY Zenon DEF Moved, Passing, Wrote
<1>2. \A z \in Procs : pc'[z] = "advance" => pc[z] = "advance"
  BY Zenon DEF Wrote
<1>3. wt \in Nat /\ rd <= wt /\ wt < ct /\ cur[p] # wt
  BY <1>1, Zenon DEF Moves, IndexOrder, Nums
<1>4. data'[index_of(wt)] = data[index_of(wt)]
  BY <1>3, Zenon DEF Wrote
<1> QED BY <1>1, <1>2, <1>4, Zenon DEF Moves, Wrote

\* The slots that others rely on are untouched.
LEMMA WroteSlots ==
  ASSUME Nums, IndexOrder, FlagsMatch, SlotsKept, NEW p \in Producers, Wrote(p), Writes(p), cur[p] \in Nat
  PROVE  FlagsMatch' /\ SlotsKept'
<1>1. ASSUME NEW s \in Slots, flag[s] # 0 PROVE Announces(s)'
  <2>1. Announces(s) /\ flag[s] \in Nat
    BY <1>1, Zenon DEF FlagsMatch, Nums
  <2>2. flag[s] - 1 \in Nat /\ rd <= flag[s] - 1 /\ flag[s] - 1 < ct
    BY <2>1 DEF Announces, IndexOrder, Nums
  <2>3. flag[s] - 1 # cur[p]
    BY <2>1, <2>2 DEF Announces, Writes
  <2>4. data'[s] = data[s]
    BY <2>1, <2>2, <2>3, Zenon DEF Announces, Wrote
  <2> QED BY <2>1, <2>4, Zenon DEF Announces, Wrote
<1>2. ASSUME NEW k \in rd..(wt - 1) PROVE data'[index_of(k)] = sent[k + 1]
  <2>1. k \in Nat /\ rd <= k /\ k < ct /\ k # cur[p]
    BY DEF IndexOrder, Nums, Writes
  <2>2. data'[index_of(k)] = data[index_of(k)]
    BY <2>1, Zenon DEF Wrote
  <2> QED BY <2>2, Zenon DEF SlotsKept
<1> QED BY <1>1, <1>2, Zenon DEF FlagsMatch, SlotsKept, Wrote

LEMMA WriteInv ==
  ASSUME IInv, NEW p \in Producers, pc[p] \in Writing, NEW w \in {"written", "commit"},
         NEW v \in {Torn, <<p, cur[p] + 1>>}, w = "commit" => v = <<p, cur[p] + 1>>,
         data' = [data EXCEPT ![index_of(cur[p])] = v], Goto(p, w), UNCHANGED locals,
         UNCHANGED <<rd, wt, ct, flag, down, sent, got>>
  PROVE  IInv'
<1>1. TypeOK /\ IndexOrder /\ Owned /\ OneWriter /\ Moved /\ FlagsMatch /\ SlotsKept /\ Nums /\ p \in Procs
  BY TypeNums, Zenon DEF IInv, Procs
<1>2. Step(p, w) /\ Keeps(p)
  <2>1. w \in Places
    BY Zenon DEF Places, Writing
  <2> QED BY <1>1, <2>1, KeepStep, Zenon
<1>3. Writes(p) /\ cur[p] \in Nat /\ index_of(cur[p]) \in Slots /\ wt <= cur[p] /\ cur[p] < ct
  BY <1>1, WriterFacts, Zenon
<1>4. v \in Messages \cup {Torn}
  <2>1. cur[p] + 1 \in 1..Len(sent) /\ sent \in Seq(Messages)
    BY <1>1, <1>3 DEF IndexOrder, TypeOK, Nums
  <2>2. sent[cur[p] + 1] \in Messages
    BY <2>1
  <2> QED BY <1>3, <2>2, Zenon DEF Writes
<1>5. /\ data' \in [Slots -> Messages \cup {Torn}] /\ data'[index_of(cur[p])] = v
      /\ \A s \in Slots : s # index_of(cur[p]) => data'[s] = data[s]
  BY <1>1, <1>3, <1>4, Zenon DEF TypeOK
<1>6. ASSUME NEW k \in Nat, rd <= k, k < ct, k # cur[p] PROVE data'[index_of(k)] = data[index_of(k)]
  <2>1. rd <= cur[p]
    BY <1>1, <1>3 DEF IndexOrder, Nums
  <2>2. index_of(k) # index_of(cur[p])
    BY <1>1, <1>3, <1>6, <2>1, OwnSlot, Zenon
  <2> QED BY <1>5, <2>2, IndexType, Zenon
<1>7. Wrote(p)
  BY <1>2, <1>5, <1>6, Zenon DEF Wrote, Step, Keeps
<1>8. TypeOK' /\ Nums'
  BY <1>1, <1>2, <1>5, StepTypes, Zenon DEF TypeOK
<1>9. Owned'
  <2>1. p \notin Consumers /\ wt <= wt'
    BY <1>1, RingAssumption DEF Nums
  <2>2. Own(p)'
    BY <1>2, <2>1, Zenon DEF Own, Step
  <2> QED BY <1>1, <1>2, <1>8, <2>1, <2>2, OwnedStays, Zenon
<1>10. OneWriter' /\ Moved'
  BY <1>1, <1>7, WroteWriters, WroteMoved, Zenon
<1>11. FlagsMatch' /\ SlotsKept'
  BY <1>1, <1>3, <1>7, WroteSlots, Zenon
<1>12. IndexOrder'
  BY <1>1, Zenon DEF IndexOrder
<1> QED BY <1>8, <1>9, <1>10, <1>11, <1>12, Zenon DEF IInv

(***************************************************************************)
(* Setting a flag                                                          *)
(***************************************************************************)
\* p has set the flag of its slot.
Committed(p) ==
    /\ rd' = rd /\ wt' = wt /\ ct' = ct /\ data' = data /\ sent' = sent
    /\ cur' = cur /\ cwt' = cwt
    /\ pc'[p] = "flag" /\ \A y \in Procs \ {p} : pc'[y] = pc[y]
    /\ flag'[index_of(cur[p])] = cur[p] + 1
    /\ \A s \in Slots : s # index_of(cur[p]) => flag'[s] = flag[s]

\* The flags of the other places stay.
LEMMA CommittedFlags ==
  ASSUME Nums, IndexOrder, NEW p \in Producers, Writes(p), cur[p] \in Nat, Committed(p),
         NEW k \in Nat, rd <= k, k < ct, k # cur[p]
  PROVE  flag'[index_of(k)] = flag[index_of(k)]
<1>1. rd <= cur[p] /\ cur[p] < ct
  BY DEF Writes, IndexOrder, Nums
<1>2. index_of(k) # index_of(cur[p])
  BY <1>1, OwnSlot, Zenon
<1> QED BY <1>2, IndexType, Zenon DEF Committed

LEMMA CommittedWriters ==
  ASSUME Nums, IndexOrder, OneWriter, NEW p \in Producers, pc[p] \in Writing, Committed(p)
  PROVE  /\ OneWriter'
         /\ \A q \in Producers : pc'[q] \in Writing => q # p /\ pc'[q] = pc[q]
<1>1. \A q \in Producers : pc'[q] \in Writing => q # p /\ pc'[q] = pc[q]
  BY Zenon DEF Committed, Writing, Procs
<1>2. Writes(p) /\ cur[p] \in Nat
  BY WriterFacts, Zenon
<1>3. ASSUME NEW q \in Producers, pc'[q] \in Writing PROVE Writes(q)'
  <2>1. Writes(q) /\ q # p /\ pc'[q] = pc[q] /\ cur[q] \in Nat /\ wt <= cur[q] /\ cur[q] < ct
    BY <1>1, <1>3, WriterFacts, Zenon
  <2>2. cur[q] # cur[p] /\ rd <= cur[q]
    BY <1>2, <2>1 DEF Writes, IndexOrder, Nums
  <2>3. flag'[index_of(cur[q])] = flag[index_of(cur[q])]
    BY <1>2, <2>1, <2>2, CommittedFlags, Zenon
  <2> QED BY <1>1, <2>1, <2>3, Zenon DEF Writes, Committed
<1> QED BY <1>1, <1>3, Zenon DEF OneWriter

LEMMA CommittedMoved ==
  ASSUME Nums, IndexOrder, Moved, NEW p \in Producers, pc[p] \in Writing, Writes(p), cur[p] \in Nat, Committed(p),
         \A q \in Producers : pc'[q] \in Writing => q # p /\ pc'[q] = pc[q]
  PROVE  Moved'
<1> SUFFICES ASSUME NEW y \in Procs, pc'[y] = "advance" PROVE Moves(y)'
  BY Zenon DEF Moved
<1>1. pc[y] = "advance" /\ Moves(y) /\ Passing(y)' = Passing(y)
  BY Zenon DEF Moved, Passing, Committed
<1>2. \A z \in Procs : pc'[z] = "advance" => pc[z] = "advance"
  BY Zenon DEF Committed
<1>3. wt \in Nat /\ rd <= wt /\ wt < ct /\ wt # cur[p]
  BY <1>1, Zenon DEF Moves, IndexOrder, Nums
<1>4. flag'[index_of(wt)] = flag[index_of(wt)]
  BY <1>3, CommittedFlags, Zenon
<1> QED BY <1>1, <1>2, <1>4, Zenon DEF Moves, Committed

LEMMA CommittedMatch ==
  ASSUME Nums, FlagsMatch, NEW p \in Producers, Writes(p), pc[p] = "commit", cur[p] \in Nat, Committed(p)
  PROVE  FlagsMatch'
<1> SUFFICES ASSUME NEW s \in Slots, flag'[s] # 0 PROVE Announces(s)'
  BY Zenon DEF FlagsMatch
<1>1. CASE s = index_of(cur[p])
  <2>1. flag'[s] = cur[p] + 1 /\ flag'[s] - 1 = cur[p] /\ wt < flag'[s] /\ flag'[s] <= ct
    BY <1>1 DEF Committed, Writes, Nums
  <2>2. data[s] = sent[cur[p] + 1]
    BY <1>1, Zenon DEF Writes
  <2> QED BY <1>1, <2>1, <2>2, Zenon DEF Announces, Committed
<1>2. CASE s # index_of(cur[p])
  <2>1. Announces(s) /\ flag'[s] = flag[s]
    BY <1>2, Zenon DEF FlagsMatch, Committed
  <2> QED BY <2>1, Zenon DEF Announces, Committed
<1> QED BY <1>1, <1>2, Zenon

LEMMA PushCommitInv ==
  ASSUME IInv, NEW p \in Producers, PushCommit(p)
  PROVE  IInv'
<1>1. TypeOK /\ IndexOrder /\ Owned /\ OneWriter /\ Moved /\ FlagsMatch /\ SlotsKept /\ Nums /\ p \in Procs
  BY TypeNums, Zenon DEF IInv, Procs
<1>2. rd' = rd /\ wt' = wt /\ ct' = ct /\ data' = data /\ sent' = sent /\ got' = got
  BY Zenon DEF PushCommit
<1>3. Step(p, "flag") /\ Keeps(p)
  <2>1. "flag" \in Places
    BY Zenon DEF Places
  <2> QED BY <1>1, <2>1, KeepStep, Zenon DEF PushCommit
<1>4. pc[p] = "commit" /\ pc[p] \in Writing
  BY Zenon DEF PushCommit, At, Writing
<1>5. Writes(p) /\ cur[p] \in Nat /\ index_of(cur[p]) \in Slots
  BY <1>1, <1>4, WriterFacts, Zenon
<1>6. /\ flag' \in [Slots -> Nat] /\ flag'[index_of(cur[p])] = cur[p] + 1
      /\ \A s \in Slots : s # index_of(cur[p]) => flag'[s] = flag[s]
  BY <1>1, <1>5 DEF PushCommit, Nums
<1>7. Committed(p)
  BY <1>2, <1>3, <1>6, Zenon DEF Committed, Step, Keeps
<1>8. TypeOK' /\ Nums'
  BY <1>1, <1>2, <1>3, <1>6, StepTypes, Zenon DEF TypeOK
<1>9. Owned'
  <2>1. p \notin Consumers /\ wt <= wt'
    BY <1>1, <1>2, RingAssumption DEF Nums
  <2>2. Own(p)'
    BY <1>3, <2>1, Zenon DEF Own, Step
  <2> QED BY <1>1, <1>2, <1>3, <1>8, <2>1, <2>2, OwnedStays, Zenon
<1>10. OneWriter' /\ Moved'
  BY <1>1, <1>4, <1>5, <1>7, CommittedWriters, CommittedMoved, Zenon
<1>11. FlagsMatch'
  BY <1>1, <1>4, <1>5, <1>7, CommittedMatch, Zenon
<1>12. SlotsKept' /\ IndexOrder'
  BY <1>1, <1>2, Zenon DEF SlotsKept, IndexOrder
<1> QED BY <1>8, <1>9, <1>10, <1>11, <1>12, Zenon DEF IInv

(***************************************************************************)
(* Moving wt_                                                              *)
(***************************************************************************)
\* x has taken back the flag at wt_, which was set.
Cleared(x) ==
    /\ rd' = rd /\ wt' = wt /\ ct' = ct /\ data' = data /\ sent' = sent
    /\ cur' = cur /\ cwt' = cwt
    /\ pc'[x] = "advance" /\ \A y \in Procs \ {x} : pc'[y] = pc[y]
    /\ Passing(x) = wt /\ wt < ct /\ data[index_of(wt)] = sent[wt + 1]
    /\ flag[index_of(wt)] = wt + 1 /\ flag'[index_of(wt)] = 0
    /\ \A i \in Slots : i # index_of(wt) => flag'[i] = flag[i]

LEMMA ClearedWriters ==
  ASSUME Nums, OneWriter, NEW x \in Procs, Cleared(x)
  PROVE  OneWriter' /\ \A q \in Producers : pc'[q] \in Writing => pc'[q] = pc[q]
<1>1. \A q \in Producers : pc'[q] \in Writing => pc'[q] = pc[q]
  BY Zenon DEF Cleared, Writing, Procs
<1>2. ASSUME NEW q \in Producers, pc'[q] \in Writing PROVE Writes(q)'
  <2>1. Writes(q) /\ pc'[q] = pc[q] /\ cur[q] \in Nat /\ index_of(cur[q]) \in Slots
    BY <1>1, <1>2, WriterFacts, Zenon
  <2>2. flag'[index_of(cur[q])] # cur[q] + 1
    BY <2>1 DEF Writes, Cleared
  <2> QED BY <1>1, <2>1, <2>2, Zenon DEF Writes, Cleared
<1> QED BY <1>1, <1>2, Zenon DEF OneWriter

\* x now moves wt_, and no one else does: the flag was set.
LEMMA ClearedMoved ==
  ASSUME Nums, OneWriter, Moved, NEW x \in Procs, Cleared(x),
         \A q \in Producers : pc'[q] \in Writing => pc'[q] = pc[q]
  PROVE  Moved'
<1>1. ASSUME NEW y \in Procs, pc[y] = "advance" PROVE FALSE
  <2>1. Moves(y)
    BY <1>1, Zenon DEF Moved
  <2> QED BY <2>1, Zenon DEF Moves, Cleared
<1>2. ASSUME NEW q \in Producers, pc[q] \in Writing, cur[q] = wt PROVE FALSE
  <2>1. Writes(q)
    BY <1>2, Zenon DEF OneWriter
  <2> QED BY <1>2, <2>1, Zenon DEF Writes, Cleared
<1>3. \A y \in Procs : pc'[y] = "advance" => y = x
  BY <1>1, Zenon DEF Cleared
<1>4. \A q \in Producers : pc'[q] \in Writing => cur'[q] # wt'
  BY <1>2, Zenon DEF Cleared
<1>5. Passing(x)' = wt' /\ wt' < ct' /\ data'[index_of(wt')] = sent'[wt' + 1]
  BY Zenon DEF Passing, Cleared
<1>6. flag'[index_of(wt')] # wt' + 1
  BY DEF Nums, Cleared
<1>7. Moves(x)'
  BY <1>3, <1>4, <1>5, <1>6, Zenon DEF Moves
<1> QED BY <1>3, <1>7, Zenon DEF Moved

LEMMA ClearedMatch ==
  ASSUME FlagsMatch, NEW x \in Procs, Cleared(x)
  PROVE  FlagsMatch'
<1> SUFFICES ASSUME NEW i \in Slots, flag'[i] # 0 PROVE Announces(i)'
  BY Zenon DEF FlagsMatch
<1>1. Announces(i) /\ flag'[i] = flag[i]
  BY Zenon DEF FlagsMatch, Cleared
<1> QED BY <1>1, Zenon DEF Announces, Cleared

LEMMA ClearInv ==
  ASSUME IInv, NEW x \in Procs, pc[x] = "clear", flag[index_of(Passing(x))] = Passing(x) + 1,
         flag' = [flag EXCEPT ![index_of(Passing(x))] = 0], Goto(x, "advance"), UNCHANGED locals,
         UNCHANGED <<rd, wt, ct, data, down, sent, got>>
  PROVE  IInv'
<1>1. TypeOK /\ IndexOrder /\ Owned /\ OneWriter /\ Moved /\ FlagsMatch /\ SlotsKept /\ Nums
  BY TypeNums, Zenon DEF IInv
<1>2. Step(x, "advance") /\ Keeps(x)
  <2>1. "advance" \in Places
    BY Zenon DEF Places
  <2> QED BY <1>1, <2>1, KeepStep, Zenon
<1>3. Passing(x) \in Nat /\ Passing(x) <= wt /\ index_of(Passing(x)) \in Slots
  <2>1. Passing(x) \in Nat
    BY <1>1, Zenon DEF Passing, Nums
  <2>2. Passing(x) <= wt
    BY <1>1, Zenon DEF Owned, Own
  <2> QED BY <2>1, <2>2, IndexType, Zenon
<1>4. Passing(x) = wt /\ wt < ct /\ data[index_of(wt)] = sent[wt + 1]
  <2>1. Announces(index_of(Passing(x)))
    BY <1>1, <1>3 DEF FlagsMatch, Nums
  <2> QED BY <1>1, <1>3, <2>1 DEF Announces, Nums
<1>5. /\ flag' \in [Slots -> Nat] /\ flag'[index_of(wt)] = 0
      /\ \A i \in Slots : i # index_of(wt) => flag'[i] = flag[i]
  BY <1>1, <1>3, <1>4, Zenon DEF Nums
<1>6. Cleared(x)
  BY <1>2, <1>4, <1>5, Zenon DEF Cleared, Step, Keeps
<1>7. TypeOK' /\ Nums'
  BY <1>1, <1>2, <1>5, StepTypes, Zenon DEF TypeOK
<1>8. Owned'
  <2>1. wt <= wt'
    BY <1>1 DEF Nums
  <2>2. Own(x)'
    BY <1>2, Zenon DEF Own, Step
  <2> QED BY <1>1, <1>2, <1>7, <2>1, <2>2, OwnedStays, Zenon
<1>9. OneWriter' /\ Moved' /\ FlagsMatch'
  BY <1>1, <1>6, ClearedWriters, ClearedMoved, ClearedMatch, Zenon
<1>10. SlotsKept' /\ IndexOrder'
  BY <1>1, Zenon DEF SlotsKept, IndexOrder
<1> QED BY <1>7, <1>8, <1>9, <1>10, Zenon DEF IInv

\* x, the only process that moves wt_, has moved it by one.
Advanced(x) ==
    /\ rd' = rd /\ wt' = wt + 1 /\ ct' = ct /\ data' = data /\ flag' = flag /\ sent' = sent
    /\ pc'[x] \in {"idle", "flag"} /\ \A y \in Procs \ {x} : pc'[y] = pc[y] /\ cur'[y] = cur[y]
    /\ wt < ct /\ flag[index_of(wt)] # wt + 1 /\ data[index_of(wt)] = sent[wt + 1]
    /\ \A y \in Procs : pc[y] = "advance" => y = x
    /\ \A q \in Producers : pc[q] \in Writing => cur[q] # wt

LEMMA AdvancedWriters ==
  ASSUME Nums, OneWriter, NEW x \in Procs, Advanced(x)
  PROVE  OneWriter'
<1>1. \A q \in Producers : pc'[q] \in Writing => pc'[q] = pc[q] /\ cur'[q] = cur[q]
  BY Zenon DEF Writing, Procs, Advanced
<1> SUFFICES ASSUME NEW q \in Producers, pc'[q] \in Writing PROVE Writes(q)'
  BY Zenon DEF OneWriter
<1>2. Writes(q) /\ pc[q] \in Writing /\ cur'[q] = cur[q] /\ cur[q] \in Nat /\ wt <= cur[q]
  BY <1>1, WriterFacts, Zenon
<1>3. cur[q] # wt /\ wt' = wt + 1 /\ wt \in Nat
  BY <1>2, Zenon DEF Advanced, Nums
<1>4. wt' <= cur[q]
  BY ONLY <1>2, <1>3
<1> QED BY <1>1, <1>2, <1>4, Zenon DEF Writes, Advanced

LEMMA AdvancedMatch ==
  ASSUME Nums, FlagsMatch, NEW x \in Procs, Advanced(x)
  PROVE  FlagsMatch'
<1> SUFFICES ASSUME NEW s \in Slots, flag[s] # 0 PROVE Announces(s)'
  BY Zenon DEF FlagsMatch, Advanced
<1>1. Announces(s) /\ flag[s] \in Nat
  BY Zenon DEF FlagsMatch, Nums
<1>2. flag[s] # wt + 1
  BY <1>1 DEF Announces, Advanced, Nums
<1>3. wt' < flag[s]
  BY <1>1, <1>2 DEF Announces, Advanced, Nums
<1> QED BY <1>1, <1>3, Zenon DEF Announces, Advanced

LEMMA AdvanceInv ==
  ASSUME IInv, NEW x \in Procs, NEW w \in {"idle", "flag"}, pc[x] = "advance", Step(x, w), w = "flag" => x \in Producers,
         wt' = Passing(x) + 1, UNCHANGED <<rd, ct, data, flag, sent, got>>
  PROVE  IInv'
<1>1. TypeOK /\ IndexOrder /\ Owned /\ OneWriter /\ Moved /\ FlagsMatch /\ SlotsKept /\ Nums
  BY TypeNums, Zenon DEF IInv
<1>2. Moves(x)
  BY <1>1, Zenon DEF Moved
<1>3. Advanced(x)
  BY <1>2, Zenon DEF Moves, Step, Advanced
<1>4. rd \in Nat /\ wt \in Nat /\ ct \in Nat /\ wt' = wt + 1 /\ wt < ct /\ data[index_of(wt)] = sent[wt + 1]
  BY <1>1, <1>3, Zenon DEF Nums, Advanced
<1>5. wt' \in Nat /\ wt <= wt' /\ wt' <= ct
  BY ONLY <1>4
<1>6. TypeOK' /\ Nums'
  BY <1>1, <1>5, StepTypes, Zenon DEF TypeOK
<1>7. Owned'
  <2>1. Own(x)'
    BY RingAssumption, Zenon DEF Own, Step
  <2> QED BY <1>1, <1>5, <1>6, <2>1, OwnedStays, Zenon
<1>8. OneWriter' /\ FlagsMatch'
  BY <1>1, <1>3, AdvancedWriters, AdvancedMatch, Zenon
<1>9. Moved'
  BY <1>3, Zenon DEF Moved, Advanced
<1>10. SlotsKept'
  <2> SUFFICES ASSUME NEW k \in rd..(wt' - 1) PROVE data[index_of(k)] = sent[k + 1]
    BY Zenon DEF SlotsKept
  <2>1. k = wt \/ k \in rd..(wt - 1)
    BY <1>4
  <2> QED BY <1>1, <1>4, <2>1, Zenon DEF SlotsKept
<1>11. IndexOrder'
  BY <1>1, <1>4, <1>5 DEF IndexOrder
<1> QED BY <1>6, <1>7, <1>8, <1>9, <1>10, <1>11, Zenon DEF IInv

(***************************************************************************)
(* Claiming a place and taking a message                                   *)
(***************************************************************************)
\* p has claimed the place ct_, and put its message at the end of what was sent.
Claimed(p) ==
    /\ rd' = rd /\ wt' = wt /\ ct' = ct + 1 /\ data' = data /\ flag' = flag
    /\ cur' = cur /\ cwt' = cwt /\ cur[p] = ct
    /\ pc'[p] = "write" /\ \A y \in Procs \ {p} : pc'[y] = pc[y]
    /\ sent'[ct + 1] = <<p, ct + 1>>
    /\ \A k \in Nat : 1 <= k /\ k <= ct => sent'[k] = sent[k]

\* What was sent before stays.
LEMMA ClaimedSent ==
  ASSUME Nums, NEW p \in Producers, Claimed(p), NEW k \in Nat, k < ct
  PROVE  k < ct' /\ sent'[k + 1] = sent[k + 1] /\ k # cur[p]
<1>1. ct' = ct + 1 /\ cur[p] = ct /\ ct \in Nat
  BY Zenon DEF Claimed, Nums
<1>2. k + 1 \in Nat /\ 1 <= k + 1 /\ k + 1 <= ct /\ k < ct' /\ k # cur[p]
  BY ONLY <1>1, k \in Nat, k < ct
<1> QED BY <1>2, Zenon DEF Claimed

\* p is one more producer writing.
LEMMA ClaimedWriters ==
  ASSUME Nums, IndexOrder, FlagsMatch, OneWriter, NEW p \in Producers, Claimed(p)
  PROVE  /\ OneWriter'
         /\ \A q \in Producers : pc'[q] \in Writing => q = p \/ (pc'[q] = pc[q] /\ pc[q] \in Writing)
<1>1. \A q \in Producers : pc'[q] \in Writing => q = p \/ (pc'[q] = pc[q] /\ pc[q] \in Writing)
  BY Zenon DEF Claimed, Procs
<1>2. \A q \in Producers : pc[q] \in Writing => cur[q] # cur[p]
  BY WriterFacts, ClaimedSent, Zenon
<1>3. Writes(p)'
  <2>1. flag[index_of(ct)] # ct + 1
    <3> SUFFICES ASSUME flag[index_of(ct)] = ct + 1 PROVE FALSE
      BY Zenon
    <3>1. Announces(index_of(ct))
      BY IndexType DEF FlagsMatch, Nums
    <3> QED BY <3>1 DEF Announces, Nums
  <2>2. wt <= ct /\ ct < ct + 1
    BY DEF Nums, IndexOrder
  <2>3. \A r \in Producers : r # p /\ pc'[r] \in Writing => cur[r] # cur[p]
    BY <1>1, <1>2, Zenon
  <2> QED BY <2>1, <2>2, <2>3, Zenon DEF Writes, Claimed
<1>4. ASSUME NEW q \in Producers, q # p, pc'[q] \in Writing PROVE Writes(q)'
  <2>1. Writes(q) /\ pc'[q] = pc[q] /\ cur[q] \in Nat /\ cur[q] < ct /\ cur[q] # cur[p]
    BY <1>1, <1>2, <1>4, WriterFacts, Zenon
  <2>2. cur[q] < ct' /\ sent'[cur[q] + 1] = sent[cur[q] + 1]
    BY <2>1, ClaimedSent, Zenon
  <2>3. \A r \in Producers : r # q /\ pc'[r] \in Writing => cur[r] # cur[q]
    BY <1>1, <2>1, Zenon DEF Writes
  <2> QED BY <2>1, <2>2, <2>3, Zenon DEF Writes, Claimed
<1> QED BY <1>1, <1>3, <1>4, Zenon DEF OneWriter

LEMMA ClaimedMoved ==
  ASSUME Nums, Moved, NEW p \in Producers, Claimed(p),
         \A q \in Producers : pc'[q] \in Writing => q = p \/ (pc'[q] = pc[q] /\ pc[q] \in Writing)
  PROVE  Moved'
<1> SUFFICES ASSUME NEW y \in Procs, pc'[y] = "advance" PROVE Moves(y)'
  BY Zenon DEF Moved
<1>1. pc[y] = "advance" /\ Moves(y) /\ Passing(y)' = Passing(y)
  BY Zenon DEF Moved, Passing, Claimed
<1>2. \A z \in Procs : pc'[z] = "advance" => pc[z] = "advance"
  BY Zenon DEF Claimed
<1>3. wt \in Nat /\ wt < ct
  BY <1>1, Zenon DEF Moves, Nums
<1>4. wt < ct' /\ cur[p] # wt /\ sent'[wt + 1] = sent[wt + 1]
  BY <1>3, ClaimedSent, Zenon
<1>5. \A q \in Producers : pc'[q] \in Writing => cur[q] # wt
  BY <1>1, <1>4, Zenon DEF Moves
<1> QED BY <1>1, <1>2, <1>4, <1>5, Zenon DEF Moves, Claimed

LEMMA ClaimedSlots ==
  ASSUME Nums, IndexOrder, FlagsMatch, SlotsKept, NEW p \in Producers, Claimed(p)
  PROVE  FlagsMatch' /\ SlotsKept'
<1>1. ASSUME NEW s \in Slots, flag[s] # 0 PROVE Announces(s)'
  <2>1. Announces(s) /\ flag[s] \in Nat /\ ct \in Nat
    BY <1>1, Zenon DEF FlagsMatch, Nums
  <2>2. 1 <= flag[s] /\ flag[s] <= ct /\ flag[s] <= ct + 1
    BY <1>1, <2>1 DEF Announces
  <2>3. sent'[flag[s]] = sent[flag[s]]
    BY <2>1, <2>2, Zenon DEF Claimed
  <2> QED BY <2>1, <2>2, <2>3, Zenon DEF Announces, Claimed
<1>2. ASSUME NEW k \in rd..(wt - 1) PROVE data[index_of(k)] = sent'[k + 1]
  <2>1. k \in Nat /\ k < ct
    BY DEF IndexOrder, Nums
  <2>2. sent'[k + 1] = sent[k + 1]
    BY <2>1, ClaimedSent, Zenon
  <2> QED BY <2>2, Zenon DEF SlotsKept
<1> QED BY <1>1, <1>2, Zenon DEF FlagsMatch, SlotsKept, Claimed

\* What Append does.
LEMMA Appended ==
  ASSUME NEW S \in Seq(Messages), NEW m \in Messages, NEW n \in Nat, Len(S) = n
  PROVE  /\ Append(S, m) \in Seq(Messages) /\ Len(Append(S, m)) = n + 1
         /\ Append(S, m)[n + 1] = m
         /\ \A k \in Nat : 1 <= k /\ k <= n => Append(S, m)[k] = S[k]
  OBVIOUS

LEMMA PushClaimInv ==
  ASSUME IInv, NEW p \in Producers, PushClaim(p), ct = cur[p], Len(sent) < MaxPush
  PROVE  IInv'
<1>1. TypeOK /\ IndexOrder /\ Owned /\ OneWriter /\ Moved /\ FlagsMatch /\ SlotsKept /\ Nums /\ p \in Procs
  BY TypeNums, Zenon DEF IInv, Procs
<1>2. rd' = rd /\ wt' = wt /\ ct' = ct + 1 /\ data' = data /\ flag' = flag /\ got' = got
  BY Zenon DEF PushClaim
<1>3. Step(p, "write") /\ Keeps(p)
  <2>1. "write" \in Places
    BY Zenon DEF Places, Writing
  <2> QED BY <1>1, <2>1, KeepStep, Zenon DEF PushClaim
<1>4. ct + 1 < rd + N /\ p \notin Consumers
  BY <1>1, RingAssumption, Zenon DEF Owned, Own, PushClaim, At
<1>5. rd \in Nat /\ wt \in Nat /\ ct \in Nat /\ N \in Nat /\ rd <= wt /\ wt <= ct /\ Len(sent) = ct /\ Len(got) = rd
  BY <1>1, Zenon DEF Nums, IndexOrder
<1>6. /\ sent' \in Seq(Messages) /\ Len(sent') = ct + 1
      /\ sent'[ct + 1] = <<p, ct + 1>>
      /\ \A k \in Nat : 1 <= k /\ k <= ct => sent'[k] = sent[k]
  <2>1. sent' = Append(sent, <<p, ct + 1>>) /\ sent \in Seq(Messages)
    BY <1>1, Zenon DEF PushClaim, TypeOK
  <2>2. <<p, ct + 1>> \in Messages
    BY <1>5, RingAssumption DEF Messages
  <2> QED BY <1>5, <2>1, <2>2, Appended
<1>7. Claimed(p)
  BY <1>2, <1>3, <1>6, Zenon DEF Claimed, Step, Keeps
<1>8. TypeOK' /\ Nums'
  <2>1. /\ rd' \in Nat /\ wt' \in Nat /\ ct' \in Nat /\ flag' \in [Slots -> Nat]
        /\ data' \in [Slots -> Messages \cup {Torn}] /\ got' \in Seq(Messages)
    BY <1>1, <1>2, <1>5 DEF TypeOK
  <2> QED BY <1>1, <1>3, <1>6, <2>1, StepTypes, Zenon
<1>9. Owned'
  <2>1. Own(p)'
    BY <1>3, <1>4, Zenon DEF Own, Step
  <2>2. rd < wt => rd < ct
    BY <1>5
  <2>3. wt <= wt' /\ (rd < wt => sent'[rd + 1] = sent[rd + 1])
    BY <1>1, <1>2, <1>5, <1>7, <2>2, ClaimedSent
  <2> QED BY <1>1, <1>2, <1>3, <1>8, <2>1, <2>3, OwnedStays, Zenon
<1>10. OneWriter' /\ Moved'
  BY <1>1, <1>7, ClaimedWriters, ClaimedMoved, Zenon
<1>11. FlagsMatch' /\ SlotsKept'
  BY <1>1, <1>7, ClaimedSlots, Zenon
<1>12. IndexOrder'
  BY <1>2, <1>4, <1>5, <1>6 DEF IndexOrder
<1> QED BY <1>8, <1>9, <1>10, <1>11, <1>12, Zenon DEF IInv

\* pop takes the message.
LEMMA PopTakeInv ==
  ASSUME IInv, NEW c \in Consumers, PopTake(c), rd = cur[c]
  PROVE  IInv'
<1>1. /\ TypeOK /\ IndexOrder /\ Owned /\ OneWriter /\ Moved /\ FlagsMatch /\ SlotsKept /\ Nums
      /\ c \in Procs /\ c \notin Producers
  BY TypeNums, RingAssumption, Zenon DEF IInv, Procs
<1>2. rd' = rd + 1 /\ wt' = wt /\ ct' = ct /\ data' = data /\ flag' = flag /\ sent' = sent
  BY Zenon DEF PopTake
<1>3. Step(c, "idle")
  BY <1>1, ReturnStep, Zenon DEF PopTake
<1>4. rd < wt /\ buff[c] = sent[rd + 1]
  BY <1>1, Zenon DEF PopTake, At, Owned, Own
<1>5. /\ rd \in Nat /\ wt \in Nat /\ ct \in Nat /\ N \in Nat /\ wt <= ct /\ ct < rd + N
      /\ Len(sent) = ct /\ Len(got) = rd
  BY <1>1, Zenon DEF Nums, IndexOrder
<1>6. got' \in Seq(Messages) /\ Len(got') = rd + 1
  <2>1. got' = Append(got, buff[c]) /\ got \in Seq(Messages) /\ sent \in Seq(Messages)
    BY <1>1, Zenon DEF PopTake, TypeOK
  <2>2. rd + 1 \in 1..Len(sent)
    BY <1>4, <1>5
  <2>3. sent[rd + 1] \in Messages
    BY <2>1, <2>2
  <2> QED BY <1>4, <1>5, <2>1, <2>3
<1>7. TypeOK' /\ Nums'
  <2>1. /\ rd' \in Nat /\ wt' \in Nat /\ ct' \in Nat /\ flag' \in [Slots -> Nat]
        /\ data' \in [Slots -> Messages \cup {Torn}] /\ sent' \in Seq(Messages)
    BY <1>1, <1>2, <1>5 DEF TypeOK
  <2> QED BY <1>1, <1>3, <1>6, <2>1, StepTypes, Zenon
<1>8. pc'[c] = "idle" /\ \A y \in Procs \ {c} : pc'[y] = pc[y] /\ cur'[y] = cur[y] /\ cwt'[y] = cwt[y]
  BY <1>3, Zenon DEF Step
<1>9. Owned'
  <2>1. Own(c)'
    BY <1>8, Zenon DEF Own
  <2>2. wt <= wt'
    BY <1>2, <1>5
  <2> QED BY <1>1, <1>2, <1>3, <1>7, <2>1, <2>2, OwnedStays, Zenon
<1>10. \A q \in Producers : pc'[q] = pc[q] /\ cur'[q] = cur[q]
  BY <1>1, <1>8, Zenon DEF Procs
<1>11. OneWriter'
  <2> SUFFICES ASSUME NEW q \in Producers, pc'[q] \in Writing PROVE Writes(q)'
    BY Zenon DEF OneWriter
  <2>1. Writes(q)
    BY <1>1, <1>10, Zenon DEF OneWriter
  <2> QED BY <1>2, <1>10, <2>1, Zenon DEF Writes
<1>12. Moved'
  <2> SUFFICES ASSUME NEW y \in Procs, pc'[y] = "advance" PROVE Moves(y)'
    BY Zenon DEF Moved
  <2>1. pc[y] = "advance" /\ Moves(y) /\ Passing(y)' = Passing(y)
    BY <1>1, <1>8, Zenon DEF Moved, Passing
  <2>2. \A z \in Procs : pc'[z] = "advance" => pc[z] = "advance"
    BY <1>8, Zenon
  <2> QED BY <1>2, <1>10, <2>1, <2>2, Zenon DEF Moves
<1>13. FlagsMatch'
  BY <1>1, <1>2, Zenon DEF FlagsMatch, Announces
<1>14. SlotsKept'
  BY <1>1, <1>2, <1>5 DEF SlotsKept
<1>15. IndexOrder'
  BY <1>2, <1>4, <1>5, <1>6 DEF IndexOrder
<1> QED BY <1>7, <1>9, <1>11, <1>12, <1>13, <1>14, <1>15, Zenon DEF IInv

(***************************************************************************)
(* The theorems                                                            *)
(***************************************************************************)
\* The zeroed memory of a new ring satisfies the protocol.
LEMMA InitInv == Init => IInv
<1> SUFFICES ASSUME Init PROVE IInv
  BY Zenon
<1>1. TypeOK
  BY RingAssumption DEF Init, TypeOK, Places
<1>2. IndexOrder /\ SlotsKept
  BY RingAssumption DEF Init, IndexOrder, SlotsKept
<1>3. \A x \in Procs : pc[x] = "idle"
  BY Zenon DEF Init
<1>4. OneWriter /\ Moved /\ Owned
  BY <1>3, Zenon DEF OneWriter, Moved, Owned, Own, Writing, Procs
<1>5. FlagsMatch
  BY Zenon DEF Init, FlagsMatch
<1> QED BY <1>1, <1>2, <1>4, <1>5, Zenon DEF IInv

\* The steps of push, and of pop, keep the invariant.
LEMMA PushInv ==
  ASSUME IInv, NEW p \in Producers, push(p)
  PROVE  IInv'
<1>1. p \in Procs /\ Passing(p) = cur[p] /\ p \notin Consumers
  BY RingAssumption, Zenon DEF Procs, Passing
<1>2. CASE PushLoad(p)
  BY <1>2, PushLoadInv, Zenon
<1>3. CASE PushFull(p)
  <2>1. CASE index_of(cur[p] + 1) = index_of(rd)
    BY <1>1, <1>3, <2>1, ReturnInv, Zenon DEF PushFull
  <2> QED BY <1>3, <2>1, PushFullInv, Zenon
<1>4. CASE PushClaim(p)
  <2>1. CASE ct = cur[p] /\ Len(sent) < MaxPush
    BY <1>4, <2>1, PushClaimInv, Zenon
  <2>2. CASE ~(ct = cur[p] /\ Len(sent) < MaxPush)
    BY <1>1, <1>4, <2>2, ReturnInv, Zenon DEF PushClaim
  <2> QED BY <2>1, <2>2, Zenon
<1>5. CASE PushWrite(p)
  <2>1. /\ pc[p] \in Writing /\ data' = [data EXCEPT ![index_of(cur[p])] = Torn] /\ Goto(p, "written")
        /\ UNCHANGED locals /\ UNCHANGED <<rd, wt, ct, flag, down, sent, got>>
    BY <1>5, Zenon DEF PushWrite, At, Writing
  <2> QED BY <2>1, WriteInv, Zenon
<1>6. CASE PushWritten(p)
  <2>1. /\ pc[p] \in Writing /\ data' = [data EXCEPT ![index_of(cur[p])] = <<p, cur[p] + 1>>] /\ Goto(p, "commit")
        /\ UNCHANGED locals /\ UNCHANGED <<rd, wt, ct, flag, down, sent, got>>
    BY <1>6, Zenon DEF PushWritten, At, Writing
  <2> QED BY <2>1, WriteInv, Zenon
<1>7. CASE PushCommit(p)
  BY <1>7, PushCommitInv, Zenon
<1>8. CASE PushFlag(p)
  BY <1>8, PushFlagInv, Zenon
<1>9. CASE PushTurn(p)
  BY <1>1, <1>9, PushTurnInv, ReturnInv, Zenon DEF PushTurn
<1>10. CASE PushClear(p)
  <2>1. CASE flag[index_of(cur[p])] = cac[p]
    <3>1. pc[p] = "clear" /\ cac[p] = cur[p] + 1
      BY <1>1, <1>10, Zenon DEF PushClear, At, IInv, Owned, Own
    <3>2. /\ flag' = [flag EXCEPT ![index_of(cur[p])] = 0] /\ Goto(p, "advance") /\ UNCHANGED locals
          /\ UNCHANGED <<rd, wt, ct, data, down, sent, got>>
      BY <1>10, <2>1, Zenon DEF PushClear
    <3> QED BY <1>1, <2>1, <3>1, <3>2, ClearInv, Zenon
  <2>2. CASE flag[index_of(cur[p])] # cac[p]
    BY <1>1, <1>10, <2>2, ReturnInv, Zenon DEF PushClear
  <2> QED BY <2>1, <2>2, Zenon
<1>11. CASE PushAdvance(p)
  <2>1. Step(p, "flag")
    <3>1. /\ pc \in [Procs -> Places] /\ cur \in [Procs -> Nat] /\ cwt \in [Procs -> Nat]
          /\ cac \in [Procs -> Nat] /\ buff \in [Procs -> Messages \cup {Torn}] /\ "flag" \in Places
      BY Zenon DEF IInv, TypeOK, Places
    <3>2. cur[p] + 1 \in Nat
      BY <1>1, <3>1
    <3> QED BY <1>1, <1>11, <3>1, <3>2, Zenon DEF PushAdvance, Goto, Step
  <2> QED BY <1>1, <1>11, <2>1, AdvanceInv, Zenon DEF PushAdvance, At
<1> QED BY <1>2, <1>3, <1>4, <1>5, <1>6, <1>7, <1>8, <1>9, <1>10, <1>11, Zenon DEF push

LEMMA PopInv ==
  ASSUME IInv, NEW c \in Consumers, pop(c)
  PROVE  IInv'
<1>1. c \in Procs /\ Passing(c) = cwt[c] /\ c \notin Producers
  BY RingAssumption, Zenon DEF Procs, Passing
<1>2. CASE PopLoad(c)
  BY <1>2, PopLoadInv, Zenon
<1>3. CASE PopLook(c)
  BY <1>3, PopLookInv, Zenon
<1>4. CASE PopFlag(c)
  <2>1. CASE flag[index_of(cwt[c])] = cwt[c] + 1
    BY <1>4, <2>1, PopFlagInv, Zenon
  <2>2. CASE flag[index_of(cwt[c])] # cwt[c] + 1
    BY <1>1, <1>4, <2>2, ReturnInv, Zenon DEF PopFlag
  <2> QED BY <2>1, <2>2, Zenon
<1>5. CASE PopClear(c)
  <2>1. CASE flag[index_of(cwt[c])] = cwt[c] + 1
    <3>1. /\ pc[c] = "clear"
          /\ flag' = [flag EXCEPT ![index_of(cwt[c])] = 0] /\ Goto(c, "advance") /\ UNCHANGED locals
          /\ UNCHANGED <<rd, wt, ct, data, down, sent, got>>
      BY <1>5, <2>1, Zenon DEF PopClear, At
    <3> QED BY <1>1, <2>1, <3>1, ClearInv, Zenon
  <2>2. CASE flag[index_of(cwt[c])] # cwt[c] + 1
    BY <1>1, <1>5, <2>2, ReturnInv, Zenon DEF PopClear
  <2> QED BY <2>1, <2>2, Zenon
<1>6. CASE PopAdvance(c)
  <2>1. Step(c, "idle")
    BY <1>1, <1>6, ReturnStep, Zenon DEF PopAdvance, IInv
  <2> QED BY <1>1, <1>6, <2>1, AdvanceInv, Zenon DEF PopAdvance, At
<1>7. CASE PopCopy(c)
  BY <1>7, PopCopyInv, Zenon
<1>8. CASE PopTake(c)
  <2>1. CASE rd = cur[c]
    BY <1>8, <2>1, PopTakeInv, Zenon
  <2>2. CASE rd # cur[c]
    BY <1>1, <1>8, <2>2, ReturnInv, Zenon DEF PopTake
  <2> QED BY <2>1, <2>2, Zenon
<1> QED BY <1>2, <1>3, <1>4, <1>5, <1>6, <1>7, <1>8, Zenon DEF pop

\* Every step of a process keeps the invariant.
LEMMA NextInv == IInv /\ [Next]_vars => IInv'
<1> SUFFICES ASSUME IInv, [Next]_vars PROVE IInv'
  BY Zenon
<1>1. ASSUME UNCHANGED <<rd, wt, ct, data, flag, pc, locals, sent, got>>, down' \subseteq Procs PROVE IInv'
  <2>1. /\ rd' = rd /\ wt' = wt /\ ct' = ct /\ data' = data /\ flag' = flag /\ pc' = pc
        /\ cur' = cur /\ cwt' = cwt /\ buff' = buff /\ cac' = cac /\ sent' = sent /\ got' = got
    BY <1>1, Zenon DEF locals
  <2>2. TypeOK'
    BY <1>1, <2>1, Zenon DEF IInv, TypeOK
  <2>3. IndexOrder' /\ FlagsMatch' /\ SlotsKept'
    BY <2>1, Zenon DEF IInv, IndexOrder, FlagsMatch, Announces, SlotsKept
  <2>4. Owned'
    BY <2>1, Zenon DEF IInv, Owned, Own, Passing
  <2>5. OneWriter' /\ Moved'
    BY <2>1, Zenon DEF IInv, OneWriter, Writes, Moved, Moves, Passing
  <2> QED BY <2>2, <2>3, <2>4, <2>5, Zenon DEF IInv
<1>2. ASSUME NEW x \in Procs, Kill(x) PROVE IInv'
  BY <1>1, <1>2, Zenon DEF Kill, IInv, TypeOK
<1>3. CASE UNCHANGED vars
  BY <1>1, <1>3, Zenon DEF vars, locals, IInv, TypeOK
<1> QED BY <1>2, <1>3, PushInv, PopInv, Zenon DEF Next

\* The protocol of the ring holds at every step of every interleaving of pushes,
\* pops and kills (libipc/prod_cons.h:102-188).
THEOREM RingSafe == Spec => [](TypeOK /\ RingInv)
<1>1. Init => IInv
  BY InitInv, Zenon
<1>2. IInv /\ [Next]_vars => IInv'
  BY NextInv, Zenon
<1>3. IInv => TypeOK /\ RingInv
  BY Protocol, Zenon
<1> QED BY <1>1, <1>2, <1>3, PTL DEF Spec

(***************************************************************************)
(* The refinement                                                          *)
(***************************************************************************)

\* Sequences with the same elements are the same.
LEMMA SameElements ==
  ASSUME NEW S, NEW u \in Seq(S), NEW w \in Seq(S), Len(u) = Len(w), \A i \in 1..Len(u) : u[i] = w[i]
  PROVE  u = w
<1>1. u = [i \in 1..Len(u) |-> u[i]]
  OBVIOUS
<1>2. w = [i \in 1..Len(w) |-> w[i]]
  OBVIOUS
<1> QED BY <1>1, <1>2, Zenon

\* The elements of a part of a sequence.
LEMMA PartIs ==
  ASSUME NEW S, NEW s \in Seq(S), NEW a \in Nat, NEW b \in Nat, a <= b, b <= Len(s)
  PROVE  /\ SubSeq(s, a + 1, b) \in Seq(S)
         /\ Len(SubSeq(s, a + 1, b)) = b - a
         /\ \A i \in 1..(b - a) : SubSeq(s, a + 1, b)[i] = s[i + a]
  OBVIOUS

\* The elements of a sequence but the first.
LEMMA TailIs ==
  ASSUME NEW S, NEW s \in Seq(S), s # << >>
  PROVE  /\ Tail(s) \in Seq(S) /\ Len(Tail(s)) = Len(s) - 1 /\ Head(s) = s[1]
         /\ \A i \in 1..(Len(s) - 1) : Tail(s)[i] = s[i + 1]
  OBVIOUS

\* The end of a sequence to which an element is appended.
LEMMA EndOfAppend ==
  ASSUME NEW s \in Seq(Messages), NEW e \in Messages, NEW a \in Nat, NEW n \in Nat, a <= n, Len(s) = n
  PROVE  SubSeq(Append(s, e), a + 1, n + 1) = Append(SubSeq(s, a + 1, n), e)
<1> DEFINE t == Append(s, e)
           u == SubSeq(t, a + 1, n + 1)
           v == SubSeq(s, a + 1, n)
           w == Append(v, e)
<1>1. t \in Seq(Messages) /\ Len(t) = n + 1 /\ t[n + 1] = e /\ \A k \in Nat : 1 <= k /\ k <= n => t[k] = s[k]
  BY Appended
<1>2. /\ v \in Seq(Messages) /\ Len(v) = n - a /\ n - a \in Nat
      /\ \A i \in 1..(n - a) : v[i] = s[i + a]
  BY PartIs
<1> HIDE DEF t
<1>3. u \in Seq(Messages) /\ Len(u) = n + 1 - a /\ \A i \in 1..(n + 1 - a) : u[i] = t[i + a]
  BY <1>1, PartIs
<1> HIDE DEF v
<1>4. /\ w \in Seq(Messages) /\ Len(w) = n - a + 1 /\ w[n - a + 1] = e
      /\ \A k \in Nat : 1 <= k /\ k <= n - a => w[k] = v[k]
  BY <1>2, Appended
<1> HIDE DEF u, w
<1>5. ASSUME NEW i \in 1..(n + 1 - a) PROVE u[i] = w[i]
  <2>1. CASE i = n - a + 1
    <3>1. i + a = n + 1
      BY <2>1
    <3> QED BY <1>1, <1>3, <1>4, <2>1, <3>1, Zenon
  <2>2. CASE i # n - a + 1
    <3>1. i \in 1..(n - a) /\ i \in Nat /\ 1 <= i /\ i <= n - a /\ i + a \in Nat /\ 1 <= i + a /\ i + a <= n
      BY <2>2
    <3> QED BY <1>1, <1>2, <1>3, <1>4, <3>1, Zenon
  <2> QED BY <2>1, <2>2, Zenon
<1>6. Len(u) = Len(w)
  BY <1>3, <1>4
<1>7. u = w
  BY <1>3, <1>4, <1>5, <1>6, SameElements, Zenon
<1> QED BY <1>7, Zenon DEF t, u, v, w

\* The end of a sequence without its first element.
LEMMA EndsTail ==
  ASSUME NEW s \in Seq(Messages), NEW a \in Nat, NEW n \in Nat, a < n, Len(s) = n
  PROVE  LET v == SubSeq(s, a + 1, n)
         IN  v # << >> /\ Head(v) = s[a + 1] /\ Tail(v) = SubSeq(s, (a + 1) + 1, n)
<1> DEFINE v == SubSeq(s, a + 1, n)
           u == SubSeq(s, (a + 1) + 1, n)
<1>1. v \in Seq(Messages) /\ Len(v) = n - a /\ n - a > 0 /\ \A i \in 1..(n - a) : v[i] = s[i + a]
  BY PartIs
<1>2. u \in Seq(Messages) /\ Len(u) = n - (a + 1) /\ \A i \in 1..(n - (a + 1)) : u[i] = s[i + (a + 1)]
  BY PartIs
<1> HIDE DEF u, v
<1>3. v # << >>
  BY <1>1
<1>4. /\ Tail(v) \in Seq(Messages) /\ Len(Tail(v)) = (n - a) - 1 /\ Head(v) = v[1]
      /\ \A i \in 1..((n - a) - 1) : Tail(v)[i] = v[i + 1]
  BY <1>1, <1>3, TailIs
<1>5. ASSUME NEW i \in 1..(n - (a + 1)) PROVE Tail(v)[i] = u[i]
  <2>1. i \in 1..((n - a) - 1) /\ i + 1 \in 1..(n - a) /\ (i + 1) + a = i + (a + 1)
    OBVIOUS
  <2>2. v[i + 1] = s[i + (a + 1)]
    BY <1>1, <2>1, Zenon
  <2> QED BY <1>2, <1>4, <2>1, <2>2, Zenon
<1>6. Len(Tail(v)) = Len(u) /\ Len(u) = n - (a + 1)
  BY <1>2, <1>4
<1>7. Tail(v) = u
  BY <1>2, <1>4, <1>5, <1>6, SameElements, Zenon
<1>8. Head(v) = s[a + 1]
  <2>1. 1 \in 1..(n - a) /\ 1 + a = a + 1
    OBVIOUS
  <2> QED BY <1>1, <1>4, <2>1, Zenon
<1> QED BY <1>3, <1>7, <1>8, Zenon DEF u, v

\* A claim appends to the queue, which had room.
LEMMA ClaimPuts ==
  ASSUME IInv, NEW p \in Producers, PushClaim(p), ct = cur[p], Len(sent) < MaxPush
  PROVE  Fifo!Put(<<p, ct + 1>>) /\ <<p, ct + 1>> \in Messages
<1> DEFINE m == <<p, ct + 1>>
<1>1. /\ rd \in Nat /\ ct \in Nat /\ N \in Nat /\ rd <= ct /\ ct + 1 < rd + N
      /\ Len(sent) = ct /\ sent \in Seq(Messages)
  BY Protocol, RingAssumption DEF TypeOK, RingInv, IndexOrder, ClaimsInBounds, PushClaim, At
<1>2. rd' = rd /\ got' = got /\ ct' = ct + 1 /\ sent' = Append(sent, m)
  BY Zenon DEF PushClaim
<1>3. m \in Messages
  BY <1>1, RingAssumption DEF Messages
<1> HIDE DEF m
<1>4. Len(Pending) = ct - rd
  BY <1>1, PartIs DEF Pending
<1>5. Pending' = Append(Pending, m)
  BY <1>1, <1>2, <1>3, EndOfAppend, Zenon DEF Pending
<1>6. Len(Pending) < N - 1
  BY <1>1, <1>4
<1> QED BY <1>2, <1>3, <1>5, <1>6, Zenon DEF Fifo!Put, m

\* The exchange of rd_ takes the head of the queue.
LEMMA TakeGets ==
  ASSUME IInv, NEW c \in Consumers, PopTake(c), rd = cur[c]
  PROVE  Fifo!Get
<1>1. /\ rd \in Nat /\ ct \in Nat /\ rd < ct /\ Len(sent) = ct /\ sent \in Seq(Messages)
      /\ buff[c] = sent[rd + 1]
  BY Protocol DEF TypeOK, RingInv, IndexOrder, ReadersBehind, PopTake, At
<1>2. rd' = rd + 1 /\ ct' = ct /\ sent' = sent /\ got' = Append(got, buff[c])
  BY Zenon DEF PopTake
<1>3. Pending # << >> /\ Head(Pending) = sent[rd + 1] /\ Tail(Pending) = SubSeq(sent, (rd + 1) + 1, ct)
  BY <1>1, EndsTail DEF Pending
<1>4. Pending' = Tail(Pending)
  BY <1>2, <1>3, Zenon DEF Pending
<1> QED BY <1>1, <1>2, <1>3, <1>4, Zenon DEF Fifo!Get

\* Every step of the ring is a step of the queue or leaves it alone.
LEMMA StepRefines == IInv /\ [Next]_vars => [Fifo!Next]_(Fifo!fifoVars)
<1> SUFFICES ASSUME IInv, [Next]_vars PROVE [Fifo!Next]_(Fifo!fifoVars)
  BY Zenon
<1>1. ASSUME UNCHANGED <<rd, ct, sent, got>> PROVE UNCHANGED Fifo!fifoVars
  BY <1>1, Zenon DEF Fifo!fifoVars, Pending
<1>2. ASSUME NEW p \in Producers, push(p) PROVE [Fifo!Next]_(Fifo!fifoVars)
  <2>1. CASE PushClaim(p) /\ ct = cur[p] /\ Len(sent) < MaxPush
    BY <2>1, ClaimPuts, Zenon DEF Fifo!Next
  <2>2. CASE ~(PushClaim(p) /\ ct = cur[p] /\ Len(sent) < MaxPush)
    <3>1. UNCHANGED <<rd, ct, sent, got>>
      BY <1>2, <2>2, Zenon DEF push, PushLoad, PushFull, PushClaim, PushWrite, PushWritten, PushCommit, PushFlag,
         PushTurn, PushClear, PushAdvance
    <3> QED BY <1>1, <3>1, Zenon
  <2> QED BY <2>1, <2>2, Zenon
<1>3. ASSUME NEW c \in Consumers, pop(c) PROVE [Fifo!Next]_(Fifo!fifoVars)
  <2>1. CASE PopTake(c) /\ rd = cur[c]
    BY <2>1, TakeGets, Zenon DEF Fifo!Next
  <2>2. CASE ~(PopTake(c) /\ rd = cur[c])
    <3>1. UNCHANGED <<rd, ct, sent, got>>
      BY <1>3, <2>2, Zenon DEF pop, PopLoad, PopLook, PopFlag, PopClear, PopAdvance, PopCopy, PopTake
    <3> QED BY <1>1, <3>1, Zenon
  <2> QED BY <2>1, <2>2, Zenon
<1>4. ASSUME NEW x \in Procs, Kill(x) PROVE [Fifo!Next]_(Fifo!fifoVars)
  BY <1>1, <1>4, Zenon DEF Kill
<1>5. CASE UNCHANGED vars
  BY <1>1, <1>5, Zenon DEF vars
<1> QED BY <1>2, <1>3, <1>4, <1>5, Zenon DEF Next

\* The ring implements the bounded queue, for any number of producers and
\* consumers, any size of the ring, and processes killed anywhere.
THEOREM RingImplementsFifo == Spec => ImplementsFifo
<1>1. Init => Fifo!Init
  BY RingAssumption DEF Init, Fifo!Init, Pending
<1>2. IInv /\ [Next]_vars => [Fifo!Next]_(Fifo!fifoVars)
  BY StepRefines, Zenon
<1>3. Spec => []IInv
  <2>1. Init => IInv
    BY InitInv, Zenon
  <2>2. IInv /\ [Next]_vars => IInv'
    BY NextInv, Zenon
  <2> QED BY <2>1, <2>2, PTL DEF Spec
<1> QED BY <1>1, <1>2, <1>3, PTL DEF Spec, ImplementsFifo, Fifo!Spec

=============================================================================
