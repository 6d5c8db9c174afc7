------------------------- MODULE ObjectFetch_proofs -------------------------
(* Proofs about ObjectFetch: for any calls, arguments, addresses and holders,
   right or wrong, the calls and gets that wait are kept straight. *)
EXTENDS ObjectFetch, TLAPS

(* The maps, the calls already run and the gets already answered depend on each
   other, so they are shown together. *)
FetchInv == TypeOK /\ MapsAgree /\ RunsWhenComplete /\ GetsAnsweredOnce

(* Counting up keeps a function into Nat. *)
LEMMA PlusType ==
  ASSUME NEW D, NEW f \in [D -> Nat], NEW S
  PROVE  /\ Plus(f, S) \in [D -> Nat]
         /\ \A x \in D : Plus(f, S)[x] = IF x \in S THEN f[x] + 1 ELSE f[x]
  BY DEF Plus

(* So does counting down what is not zero. *)
LEMMA MinusType ==
  ASSUME NEW D, NEW f \in [D -> Nat], NEW x \in D, f[x] > 0
  PROVE  Minus(f, x) \in [D -> Nat]
  BY DEF Minus

(* A node starts with nothing that waits. *)
LEMMA InitFetch == Init => FetchInv
  <1> SUFFICES ASSUME Init PROVE FetchInv
    BY Zenon
  <1>1. TypeOK
    BY Zenon DEF Init, TypeOK
  <1>2. MapsAgree
    BY Zenon DEF Init, MapsAgree
  <1>3. RunsWhenComplete
    BY Zenon DEF Init, RunsWhenComplete
  <1>4. GetsAnsweredOnce
    BY Zenon DEF Init, GetsAnsweredOnce
  <1> QED BY <1>1, <1>2, <1>3, <1>4, Zenon DEF FetchInv

(* Receiving a call changes the address cache only. *)
LEMMA ReceiveCallInv ==
  ASSUME FetchInv, NEW c \in Calls, ReceiveCall(c)
  PROVE  FetchInv'
  <1>1. TypeOK'
    <2>1. cache' \in [Keys -> Others \cup {NoAddr}]
      <3>1. Addr[c] \in [Keys -> Others] /\ cache \in [Keys -> Others \cup {NoAddr}]
        BY AddrNodes, Zenon DEF FetchInv, TypeOK
      <3> QED BY <3>1, Zenon DEF ReceiveCall
    <2>2. stage' \in [Calls -> {"away", "received", "taken"}]
      BY Zenon DEF FetchInv, TypeOK, ReceiveCall
    <2> QED BY <2>1, <2>2, Zenon DEF FetchInv, TypeOK, ReceiveCall
  <1>2. MapsAgree'
    BY Zenon DEF FetchInv, TypeOK, MapsAgree, ReceiveCall
  <1>3. RunsWhenComplete'
    BY Zenon DEF FetchInv, TypeOK, RunsWhenComplete, ReceiveCall
  <1>4. GetsAnsweredOnce'
    BY Zenon DEF FetchInv, GetsAnsweredOnce, ReceiveCall
  <1> QED BY <1>1, <1>2, <1>3, <1>4, Zenon DEF FetchInv

(* A call that is taken is listed under its missing arguments, or run. *)
LEMMA TakeCallInv ==
  ASSUME FetchInv, NEW c \in Calls, TakeCall(c)
  PROVE  FetchInv'
  <1> DEFINE need == Args[c] \ here
  <1> USE DEF FetchInv
  <1>1. need \in SUBSET Keys
    BY ArgsKeys, Zenon
  <1>2. /\ stage[c] = "received" /\ missing[c] = {} /\ runs[c] = 0
        /\ stage' = [stage EXCEPT ![c] = "taken"]
        /\ missing' = [missing EXCEPT ![c] = need]
        /\ waiting' = [k \in Keys |-> IF k \in need THEN waiting[k] \cup {c} ELSE waiting[k]]
        /\ here' = here
    BY Zenon DEF TakeCall, MapsAgree, RunsWhenComplete
  <1>3. /\ runs' = IF need = {} THEN Plus(runs, {c}) ELSE runs
        /\ queued' = Plus(queued, {k \in need : waiting[k] = {}})
        /\ UNCHANGED <<cache, asked, readers, sent, data, arrived, answered>>
    BY Zenon DEF TakeCall
  <1> HIDE DEF need
  <1>4. /\ runs' \in [Calls -> Nat]
        /\ \A d \in Calls : runs'[d] = IF d = c /\ need = {} THEN 1 ELSE runs[d]
    BY <1>2, <1>3, PlusType DEF TypeOK
  <1>5. TypeOK'
    <2>1. queued' \in [Keys -> Nat]
      BY <1>3, PlusType DEF TypeOK
    <2>2. /\ stage' \in [Calls -> {"away", "received", "taken"}]
          /\ missing' \in [Calls -> SUBSET Keys]
          /\ waiting' \in [Keys -> SUBSET Calls]
      BY <1>1, <1>2, Zenon DEF TypeOK
    <2> QED BY <1>2, <1>3, <1>4, <2>1, <2>2, Zenon DEF TypeOK
  <1>6. MapsAgree'
    <2>1. ASSUME NEW d \in Calls
          PROVE  /\ missing'[d] = IF d = c THEN need ELSE missing[d]
                 /\ stage'[d] = IF d = c THEN "taken" ELSE stage[d]
      BY <1>2, Zenon DEF TypeOK
    <2>2. ASSUME NEW k \in Keys PROVE waiting'[k] = {d \in Calls : k \in missing'[d]}
      <3>1. waiting'[k] = IF k \in need THEN waiting[k] \cup {c} ELSE waiting[k]
        BY <1>2, <2>2, Zenon
      <3>2. waiting[k] = {d \in Calls : k \in missing[d]}
        BY <2>2, Zenon DEF MapsAgree
      <3> QED BY <1>2, <2>1, <3>1, <3>2
    <2>3. ASSUME NEW d \in Calls
          PROVE  missing'[d] = IF stage'[d] = "taken" THEN Args[d] \ here' ELSE {}
      <3>1. missing[d] = IF stage[d] = "taken" THEN Args[d] \ here ELSE {}
        BY <2>3, Zenon DEF MapsAgree
      <3> QED BY <1>2, <2>1, <3>1, Zenon DEF need
    <2> QED BY <2>2, <2>3, Zenon DEF MapsAgree
  <1>7. RunsWhenComplete'
    BY <1>2, <1>4, Zenon DEF RunsWhenComplete, TypeOK, need
  <1>8. GetsAnsweredOnce'
    BY <1>2, <1>3, Zenon DEF GetsAnsweredOnce
  <1> QED BY <1>5, <1>6, <1>7, <1>8, Zenon

(* A get is answered or put among the readers of its key. *)
LEMMA TakeGetInv ==
  ASSUME FetchInv, NEW g \in Gets, TakeGet(g)
  PROVE  FetchInv'
  <1> DEFINE k == GetKey[g]
  <1> USE DEF FetchInv
  <1>1. /\ k \in Keys /\ g \notin asked /\ asked' = asked \cup {g} /\ answered[g] = 0
        /\ UNCHANGED <<here, cache, stage, missing, waiting, sent, data, arrived, runs>>
    BY ArgsKeys, Zenon DEF TakeGet, GetsAnsweredOnce
  <1>2. MapsAgree' /\ RunsWhenComplete'
    BY <1>1, Zenon DEF MapsAgree, RunsWhenComplete
  <1>3. CASE k \in here
    <2>1. answered' = Plus(answered, {g}) /\ readers' = readers /\ queued' = queued
      BY <1>3, Zenon DEF TakeGet
    <2>2. /\ answered' \in [Gets -> Nat]
          /\ \A h \in Gets : answered'[h] = IF h = g THEN 1 ELSE answered[h]
      BY <1>1, <2>1, PlusType DEF TypeOK
    <2>3. TypeOK'
      BY <1>1, <2>1, <2>2, Zenon DEF TypeOK
    <2>4. GetsAnsweredOnce'
      <3> SUFFICES ASSUME NEW h \in Gets
                   PROVE  /\ answered'[h] = IF h \in asked' /\ GetKey[h] \in here THEN 1 ELSE 0
                          /\ \A j \in Keys : h \in readers[j] <=>
                                h \in asked' /\ j = GetKey[h] /\ j \notin here
        BY <1>1, <2>1, Zenon DEF GetsAnsweredOnce
      <3>1. /\ answered[h] = IF h \in asked /\ GetKey[h] \in here THEN 1 ELSE 0
            /\ \A j \in Keys : h \in readers[j] <=> h \in asked /\ j = GetKey[h] /\ j \notin here
        BY Zenon DEF GetsAnsweredOnce
      <3>2. CASE h = g
        BY <1>1, <1>3, <2>2, <3>1, <3>2, Zenon
      <3>3. CASE h # g
        BY <1>1, <2>2, <3>1, <3>3, Zenon
      <3> QED BY <3>2, <3>3, Zenon
    <2> QED BY <1>2, <2>3, <2>4, Zenon
  <1>4. CASE k \notin here
    <2>1. /\ readers' = [readers EXCEPT ![k] = @ \cup {g}]
          /\ queued' = Plus(queued, {k}) /\ answered' = answered
      BY <1>4, Zenon DEF TakeGet
    <2>2. TypeOK'
      <3>1. queued' \in [Keys -> Nat]
        BY <2>1, PlusType DEF TypeOK
      <3> QED BY <1>1, <2>1, <3>1, Zenon DEF TypeOK
    <2>3. GetsAnsweredOnce'
      BY <1>1, <1>4, <2>1 DEF GetsAnsweredOnce, TypeOK
    <2> QED BY <1>2, <2>2, <2>3, Zenon
  <1> QED BY <1>3, <1>4, Zenon

(* Requests and answers that travel change counters only. *)
LEMMA TransportInv ==
  ASSUME FetchInv, NEW k \in Keys,
         SendDataReq(k) \/ ReceiveData(k) \/ \E n \in Others : HandleDataReq(n, k)
  PROVE  FetchInv'
  <1> USE DEF FetchInv
  <1>1. UNCHANGED <<here, cache, stage, missing, waiting, asked, readers, runs, answered>>
    BY Zenon DEF SendDataReq, ReceiveData, HandleDataReq
  <1>2. /\ queued' \in [Keys -> Nat] /\ sent' \in [Others -> [Keys -> Nat]]
        /\ data' \in [Keys -> Nat] /\ arrived' \in [Keys -> Nat]
    <2>1. CASE SendDataReq(k)
      <3>1. queued' \in [Keys -> Nat]
        BY <2>1, MinusType, Zenon DEF SendDataReq, TypeOK
      <3>2. \A n \in Others : Plus(sent[n], {k}) \in [Keys -> Nat]
        BY PlusType DEF TypeOK
      <3> QED BY <2>1, <3>1, <3>2, Zenon DEF SendDataReq, TypeOK
    <2>2. CASE ReceiveData(k)
      <3>1. data' \in [Keys -> Nat]
        BY <2>2, MinusType, Zenon DEF ReceiveData, TypeOK
      <3>2. arrived' \in [Keys -> Nat]
        BY <2>2, PlusType DEF ReceiveData, TypeOK
      <3> QED BY <2>2, <3>1, <3>2, Zenon DEF ReceiveData, TypeOK
    <2>3. ASSUME NEW n \in Others, HandleDataReq(n, k)
          PROVE  /\ queued' = queued /\ arrived' = arrived
                 /\ sent' \in [Others -> [Keys -> Nat]] /\ data' \in [Keys -> Nat]
      <3>1. Minus(sent[n], k) \in [Keys -> Nat]
        BY <2>3, MinusType, Zenon DEF HandleDataReq, TypeOK
      <3>2. data' \in [Keys -> Nat]
        BY <2>3, PlusType DEF HandleDataReq, TypeOK
      <3> QED BY <2>3, <3>1, <3>2, Zenon DEF HandleDataReq, TypeOK
    <2> QED BY <2>1, <2>2, <2>3, Zenon DEF TypeOK
  <1>3. TypeOK'
    BY <1>1, <1>2, Zenon DEF TypeOK
  <1> QED BY <1>1, <1>3, Zenon DEF MapsAgree, RunsWhenComplete, GetsAnsweredOnce

(* An answer, the first for its key or a later one, takes its key from the
   arguments missed, and runs the calls for which it was the last. *)
LEMMA TakeDataInv ==
  ASSUME FetchInv, NEW k \in Keys, TakeData(k)
  PROVE  FetchInv'
  <1> USE DEF FetchInv
  <1>1. /\ here' = here \cup {k}
        /\ readers' = [readers EXCEPT ![k] = {}]
        /\ missing' = [c \in Calls |-> IF c \in waiting[k] THEN missing[c] \ {k} ELSE missing[c]]
        /\ waiting' = [waiting EXCEPT ![k] = {}]
        /\ UNCHANGED <<cache, stage, asked, queued, sent, data>>
    BY Zenon DEF TakeData
  <1>2. /\ runs' \in [Calls -> Nat]
        /\ \A c \in Calls : runs'[c] = IF c \in Ready(k) THEN runs[c] + 1 ELSE runs[c]
    <2>1. runs' = Plus(runs, Ready(k)) /\ runs \in [Calls -> Nat]
      BY Zenon DEF TakeData, TypeOK
    <2> QED BY <2>1, PlusType
  <1>3. /\ answered' \in [Gets -> Nat]
        /\ \A g \in Gets : answered'[g] = IF g \in readers[k] THEN answered[g] + 1 ELSE answered[g]
    <2>1. answered' = Plus(answered, readers[k]) /\ answered \in [Gets -> Nat]
      BY Zenon DEF TakeData, TypeOK
    <2> QED BY <2>1, PlusType
  <1>4. TypeOK'
    <2>1. arrived' \in [Keys -> Nat]
      BY MinusType, Zenon DEF TakeData, TypeOK
    <2> QED BY <1>1, <1>2, <1>3, <2>1, Zenon DEF TypeOK
  <1>5. \A c \in Calls : missing'[c] = missing[c] \ {k}
    BY <1>1 DEF MapsAgree, TypeOK
  <1>6. MapsAgree'
    <2>1. ASSUME NEW j \in Keys PROVE waiting'[j] = {c \in Calls : j \in missing'[c]}
      <3>1. waiting'[j] = IF j = k THEN {} ELSE waiting[j]
        BY <1>1, Zenon DEF TypeOK
      <3>2. waiting[j] = {c \in Calls : j \in missing[c]}
        BY Zenon DEF MapsAgree
      <3> QED BY <1>5, <3>1, <3>2
    <2>2. ASSUME NEW c \in Calls
          PROVE  missing'[c] = IF stage'[c] = "taken" THEN Args[c] \ here' ELSE {}
      BY <1>1, <1>5, Zenon DEF MapsAgree
    <2> QED BY <2>1, <2>2, Zenon DEF MapsAgree
  <1>7. RunsWhenComplete'
    <2> SUFFICES ASSUME NEW c \in Calls
                 PROVE  runs'[c] = IF stage[c] = "taken" /\ Args[c] \subseteq here \cup {k} THEN 1 ELSE 0
      BY <1>1, Zenon DEF RunsWhenComplete
    <2>1. c \in Ready(k) <=> /\ stage[c] = "taken" /\ Args[c] \subseteq here \cup {k}
                             /\ ~(Args[c] \subseteq here)
      <3>1. missing[c] = IF stage[c] = "taken" THEN Args[c] \ here ELSE {}
        BY Zenon DEF MapsAgree
      <3>2. c \in waiting[k] <=> k \in missing[c]
        BY Zenon DEF MapsAgree
      <3> QED BY <3>1, <3>2, Zenon DEF Ready
    <2> QED BY <1>2, <2>1 DEF RunsWhenComplete
  <1>8. GetsAnsweredOnce'
    BY <1>1, <1>3 DEF GetsAnsweredOnce, TypeOK
  <1> QED BY <1>4, <1>6, <1>7, <1>8, Zenon

(* Every step keeps the invariant. *)
LEMMA NextFetch == FetchInv /\ [Next]_vars => FetchInv'
  <1> SUFFICES ASSUME FetchInv, [Next]_vars PROVE FetchInv'
    BY Zenon
  <1>1. CASE UNCHANGED vars
    BY <1>1 DEF vars, FetchInv, TypeOK, MapsAgree, RunsWhenComplete, GetsAnsweredOnce
  <1>2. CASE Next
    BY <1>2, ReceiveCallInv, TakeCallInv, TakeGetInv, TransportInv, TakeDataInv, Zenon DEF Next
  <1> QED BY <1>1, <1>2, Zenon

(* FetchInv is an inductive invariant of the node's fetching. *)
LEMMA FetchInvariant == Spec => []FetchInv
  BY InitFetch, NextFetch, PTL DEF Spec

(* The state of the fetching node is always well typed. *)
THEOREM TypeCorrect == Spec => []TypeOK
  BY FetchInvariant, PTL DEF FetchInv

(* call_id_inflight_args_map and key_call_id_map agree whatever addresses the
   calls carry and however often an answer comes. *)
THEOREM MapsInStep == Spec => []MapsAgree
  BY FetchInvariant, PTL DEF FetchInv

(* schedule_func_call gets a call with remote arguments once, never before its
   last argument is on the node. *)
THEOREM CallsRunOnce == Spec => []RunsWhenComplete
  BY FetchInvariant, PTL DEF FetchInv

(* A function's get is answered once, with the object on the node. *)
THEOREM GetsOnce == Spec => []GetsAnsweredOnce
  BY FetchInvariant, PTL DEF FetchInv
=============================================================================
