------------------------- MODULE TriggerSync_proofs -------------------------
(* Proofs about TriggerSync: what the two evaluating steps do to the channels, to
   the objects that triggers hold, and to triggers of one object, of a window or of
   a set; the steps that evaluate nothing; the copies of a trigger when one node
   sends all objects; the types; and the theorems. *)
EXTENDS TriggerSync, Integers, FiniteSetTheorems, WellFoundedInduction, TLAPS

(* Triggers. *)

(* Appending to a buffer adds exactly the new element to its elements. *)
LEMMA AppendElements ==
  ASSUME NEW S, NEW q \in Seq(S), NEW e \in S
  PROVE  /\ Append(q, e) \in Seq(S)
         /\ Elements(Append(q, e)) = Elements(q) \cup {e}
         /\ Elements(q) \subseteq S
  <1>1. Append(q, e) \in Seq(S)
    OBVIOUS
  <1>2. Len(Append(q, e)) = Len(q) + 1
    OBVIOUS
  <1>3. DOMAIN Append(q, e) = 1..(Len(q) + 1) /\ DOMAIN q = 1..Len(q)
    OBVIOUS
  <1>4. \A i \in 1..Len(q) : Append(q, e)[i] = q[i]
    OBVIOUS
  <1>5. Append(q, e)[Len(q) + 1] = e
    OBVIOUS
  <1>6. Elements(Append(q, e)) \subseteq Elements(q) \cup {e}
    BY <1>3, <1>4, <1>5 DEF Elements
  <1>7. Elements(q) \cup {e} \subseteq Elements(Append(q, e))
    BY <1>3, <1>4, <1>5 DEF Elements
  <1>8. Elements(q) \subseteq S
    BY DEF Elements
  <1> QED BY <1>1, <1>6, <1>7, <1>8, Zenon

(* The empty buffer. *)
LEMMA EmptyBuffer == <<>> \in Seq(Objects) /\ Elements(<<>>) = {}
  <1>1. <<>> \in Seq(Objects)
    OBVIOUS
  <1>2. DOMAIN <<>> = {}
    OBVIOUS
  <1> QED BY <1>1, <1>2, Zenon DEF Elements

(* Updates of single members. *)
LEMMA Updates ==
  ASSUME NEW st \in State
  PROVE  /\ \A q \in Seq(Objects) :
              /\ WithBuffer(st, q) \in State
              /\ WithBuffer(st, q).buffer = q
              /\ WithBuffer(st, q).prepared = st.prepared
         /\ \A S \in SUBSET Objects :
              /\ WithPrepared(st, S) \in State
              /\ WithPrepared(st, S).prepared = S
              /\ WithPrepared(st, S).buffer = st.buffer
         /\ \A c \in Nat :
              /\ WithCount(st, c) \in State
              /\ WithCount(st, c).buffer = st.buffer
              /\ WithCount(st, c).prepared = st.prepared
  BY Zenon DEF State, WithBuffer, WithPrepared, WithCount

(* A by-set trigger fires at most one action, for the session of the new
   object, and only when every object of that action is prepared. *)
SetActions(t, st, o, r) ==
  \A a \in r.actions : a = SetObjects(t, o.session) /\ o \in a /\ a \subseteq st.prepared \cup {o}

(* It holds what it held and perhaps the new object. *)
SetResult(t, st, o, r) ==
  /\ r.st.buffer = st.buffer
  /\ r.st.prepared \subseteq st.prepared \cup {o}
  /\ KeysPrepared(t, r.st)
  /\ SetActions(t, st, o, r)

(* A dynamic-group trigger with one control key. *)
OneControlKey(t) ==
  Primitive[t].type = "DYNAMIC_GROUP" /\ Cardinality(Primitive[t].control_group) = 1

(* It fires at its control key, whose session its calls carry, and hands out
   each data group once. *)
GroupResult(t, o, r) ==
  /\ r.st.control = {}
  /\ r.actions # {} => o.key \in Primitive[t].control_group
  /\ \A a \in r.actions : \A p \in a : p.session = o.session
  /\ \A a, b \in r.actions : a # b => a \cap b = {}

(* What the next proofs use of the result r of evaluating t, for the two types
   whose results need facts about finite sets. *)
FitsType(t, st, o, r) ==
  /\ Primitive[t].type = "BY_SET" /\ KeysPrepared(t, st) => SetResult(t, st, o, r)
  /\ OneControlKey(t) /\ st.control = {} => GroupResult(t, o, r)

(* A by-time trigger either adds the new object to the window or hands out
   the window with it. *)
WindowResult(st, o, r) ==
  \/ /\ r.actions = {Elements(st.buffer) \cup {o}}
     /\ Elements(r.st.buffer) = {}
     /\ r.st.prepared = st.prepared
  \/ /\ r.actions = {}
     /\ Elements(r.st.buffer) = Elements(st.buffer) \cup {o}
     /\ r.st.prepared = st.prepared

(* A by-time trigger keeps an object in its window or hands the window out. *)
LEMMA ByTimeFires ==
  ASSUME NEW t \in TriggerNames, Primitive[t].type = "BY_TIME",
         NEW st \in State, NEW o \in Objects, NEW due \in BOOLEAN,
         NEW r, r = ActionForNewObject(Primitive[t], st, o, due)
  PROVE  WindowResult(st, o, r)
  <1> DEFINE b == Append(st.buffer, o)
  <1>1. r = ByTimeAction(st, o, due)
    BY Zenon DEF ActionForNewObject
  <1>2. b \in Seq(Objects) /\ Elements(b) = Elements(st.buffer) \cup {o}
    BY AppendElements DEF State
  <1>3. CASE due = TRUE
    <2>1. r = Result(WithBuffer(st, <<>>), {Elements(b)})
      BY <1>1, <1>3, Zenon DEF ByTimeAction
    <2>2. r.st = WithBuffer(st, <<>>) /\ r.actions = {Elements(b)}
      BY <2>1 DEF Result
    <2> HIDE DEF b
    <2>3. \A x \in State : /\ Elements(WithBuffer(x, <<>>).buffer) = {}
                           /\ WithBuffer(x, <<>>).prepared = x.prepared
      BY Zenon, Updates, EmptyBuffer
    <2> QED BY Zenon, <1>2, <2>2, <2>3 DEF WindowResult
  <1>4. CASE due = FALSE
    <2>1. r = Result(WithBuffer(st, b), {})
      BY <1>1, <1>4, Zenon DEF ByTimeAction
    <2>2. r.st = WithBuffer(st, b) /\ r.actions = {}
      BY <2>1 DEF Result
    <2> HIDE DEF b
    <2>3. r.st.buffer = b /\ r.st.prepared = st.prepared
      BY <2>2, <1>2, Updates
    <2> QED BY <1>2, <2>2, <2>3, Zenon DEF WindowResult
  <1> QED BY Zenon, <1>3, <1>4

(* An evaluation keeps the type of a trigger's state and its actions are sets
   of objects. *)
LEMMA ActionType ==
  ASSUME NEW t \in TriggerNames, NEW st \in State, NEW o \in Objects, NEW due \in BOOLEAN
  PROVE  /\ ActionForNewObject(Primitive[t], st, o, due).st \in State
         /\ ActionForNewObject(Primitive[t], st, o, due).actions \subseteq SUBSET Objects
  <1> DEFINE p == Primitive[t]
             r == ActionForNewObject(p, st, o, due)
             b == Append(st.buffer, o)
  <1>1. /\ b \in Seq(Objects)
        /\ Elements(b) \subseteq Objects
        /\ st.buffer \in Seq(Objects) /\ st.count \in Nat
    BY AppendElements, Zenon DEF State
  <1>10. \A s \in State :
           /\ Result(WithBuffer(s, <<>>), {Elements(b)}).st \in State
           /\ Result(WithBuffer(s, <<>>), {Elements(b)}).actions \subseteq SUBSET Objects
           /\ Result(WithBuffer(s, b), {}).st \in State
           /\ Result(WithBuffer(s, b), {}).actions \subseteq SUBSET Objects
    <2> HIDE DEF b
    <2> QED BY Zenon, <1>1, Updates, EmptyBuffer DEF Result
  <1>2. /\ o.session \in Sessions /\ o.key \in Keys
        /\ \A k \in Keys : Obj(o.session, k) \in Objects
    BY DEF Objects, Obj
  <1>3. CASE p.type = "IMMEDIATE"
    BY <1>3, Zenon DEF ActionForNewObject, ImmediateAction, Result
  <1>4. CASE p.type = "BY_NAME"
    BY <1>4, Zenon DEF ActionForNewObject, ByNameAction, Result
  <1>5. CASE p.type = "BY_BATCH_SIZE"
    <2>1. r = ByBatchSizeAction(p, st, o)
      BY <1>5, Zenon DEF ActionForNewObject
    <2>2. \/ r = Result(WithBuffer(st, <<>>), {Elements(b)})
          \/ r = Result(WithBuffer(st, b), {})
      BY <2>1, Zenon DEF ByBatchSizeAction
    <2> QED BY Zenon, <1>10, <2>2
  <1>6. CASE p.type = "BY_SET"
    <2>1. p.key_set \subseteq Keys
      BY <1>6, PrimitiveFields, Zenon
    <2>2. r = BySetAction(p, st, o)
      BY <1>6, Zenon DEF ActionForNewObject
    <2>3. {Obj(o.session, k) : k \in p.key_set} \in SUBSET Objects
      BY <1>2, <2>1, Zenon
    <2>4. st.prepared \cup {o} \in SUBSET Objects
      BY Zenon DEF State
    <2> QED BY <2>2, <2>3, <2>4, Updates DEF BySetAction, Result
  <1>7. CASE p.type = "DYNAMIC_GROUP"
    <2> DEFINE control == IF o.key \in p.control_group THEN st.control \cup {o.key} ELSE st.control
               groups  == {{k \in st.data : p.group[k] = p.group[d]} : d \in st.data}
    <2>2. r = DynamicGroupAction(p, st, o)
      BY <1>7, Zenon DEF ActionForNewObject
    <2>3. \A g \in SUBSET Keys : {Obj(o.session, k) : k \in g} \in SUBSET Objects
      BY <1>2, Zenon
    <2>4. st.data \in SUBSET Keys /\ control \in SUBSET Keys /\ st.data \cup {o.key} \in SUBSET Keys
      BY <1>2, Zenon DEF State
    <2>5. groups \in SUBSET SUBSET Keys
      BY <2>4, Zenon
    <2>6. {{Obj(o.session, k) : k \in g} : g \in groups} \subseteq SUBSET Objects
      BY <2>3, <2>5, Zenon
    <2>7. CASE p.group[o.key] # "ctrl"
      <3>1. r = Result([st EXCEPT !.data = st.data \cup {o.key}], {})
        BY <2>2, <2>7, Zenon DEF DynamicGroupAction
      <3> QED BY <3>1, <2>4 DEF Result, State
    <2>8. CASE p.group[o.key] = "ctrl" /\ Cardinality(control) = Cardinality(p.control_group)
      <3>1. r = Result([st EXCEPT !.data = {}, !.control = {}],
                       {{Obj(o.session, k) : k \in g} : g \in groups})
        BY <2>2, <2>8, Zenon DEF DynamicGroupAction
      <3>2. r.actions = {{Obj(o.session, k) : k \in g} : g \in groups}
        BY <3>1 DEF Result
      <3>3. r.st = [st EXCEPT !.data = {}, !.control = {}]
        BY <3>1 DEF Result
      <3>4. r.st \in State
        BY Zenon, <3>3 DEF State
      <3> QED BY Zenon, <3>2, <3>4, <2>6
    <2>9. CASE p.group[o.key] = "ctrl" /\ Cardinality(control) # Cardinality(p.control_group)
      <3>1. r = Result([st EXCEPT !.control = control], {})
        BY <2>2, <2>9, Zenon DEF DynamicGroupAction
      <3> QED BY <3>1, <2>4 DEF Result, State
    <2> QED BY <2>7, <2>8, <2>9, Zenon
  <1>8. CASE p.type = "REDUNDANT"
    <2>1. r = RedundantAction(p, st, o)
      BY <1>8, Zenon DEF ActionForNewObject
    <2>2. p.k \in Nat /\ p.n \in Nat /\ st.count + 1 \in Nat
      BY <1>1, <1>8, PrimitiveFields
    <2>3. \E c \in Nat :
             \/ r = Result(WithBuffer(WithCount(st, c), <<>>), {Elements(b)})
             \/ r = Result(WithBuffer(WithCount(st, c), b), {})
             \/ r = Result(WithCount(st, c), {})
      BY <2>1, <2>2, Zenon DEF RedundantAction
    <2>4. \A c \in Nat : WithCount(st, c) \in State
      BY Updates, Zenon
    <2> QED BY <1>10, <2>3, <2>4 DEF Result
  <1>9. CASE p.type = "BY_TIME"
    <2>1. r = ByTimeAction(st, o, due)
      BY <1>9, Zenon DEF ActionForNewObject
    <2>2. \/ r = Result(WithBuffer(st, <<>>), {Elements(b)})
          \/ r = Result(WithBuffer(st, b), {})
      BY <2>1, Zenon DEF ByTimeAction
    <2> QED BY <1>10, <2>2, Zenon
  <1> QED BY <1>3, <1>4, <1>5, <1>6, <1>7, <1>8, <1>9, PrimitiveFields, Zenon

(* What a trigger holds or hands out is the new object or was held before;
   only dynamic-group triggers make up names of objects. *)
LEMMA ActionSources ==
  ASSUME NEW t \in TriggerNames, NEW st \in State, NEW o \in Objects, NEW due \in BOOLEAN,
         KeysPrepared(t, st), NEW r, r = ActionForNewObject(Primitive[t], st, o, due),
         FitsType(t, st, o, r)
  PROVE  /\ Elements(r.st.buffer) \subseteq Elements(st.buffer) \cup {o}
         /\ r.st.prepared \subseteq st.prepared \cup {o}
         /\ KeysPrepared(t, r.st)
         /\ Primitive[t].type # "DYNAMIC_GROUP" =>
              \A a \in r.actions : a \subseteq Elements(st.buffer) \cup st.prepared \cup {o}
  <1> DEFINE p == Primitive[t]
             b == Append(st.buffer, o)
  <1>1. b \in Seq(Objects) /\ Elements(b) = Elements(st.buffer) \cup {o} /\ st.count \in Nat
    BY AppendElements DEF State
  <1>2. \A x \in State :
          /\ Elements(WithBuffer(x, <<>>).buffer) = {}
          /\ WithBuffer(x, <<>>).prepared = x.prepared
          /\ Elements(WithBuffer(x, b).buffer) = Elements(st.buffer) \cup {o}
          /\ WithBuffer(x, b).prepared = x.prepared
    <2> HIDE DEF b
    <2> QED BY Zenon, <1>1, Updates, EmptyBuffer
  <1>3. CASE p.type = "IMMEDIATE"
    BY <1>3, Zenon DEF ActionForNewObject, ImmediateAction, Result, KeysPrepared
  <1>4. CASE p.type = "BY_NAME"
    BY <1>4, Zenon DEF ActionForNewObject, ByNameAction, Result, KeysPrepared
  <1>5. CASE p.type = "BY_BATCH_SIZE"
    <2>1. r = ByBatchSizeAction(p, st, o)
      BY <1>5, Zenon DEF ActionForNewObject
    <2>2. \/ r = Result(WithBuffer(st, <<>>), {Elements(b)})
          \/ r = Result(WithBuffer(st, b), {})
      BY <2>1, Zenon DEF ByBatchSizeAction
    <2>3. \/ r.st = WithBuffer(st, <<>>) /\ r.actions = {Elements(b)}
          \/ r.st = WithBuffer(st, b) /\ r.actions = {}
      BY <2>2 DEF Result
    <2> HIDE DEF b
    <2> QED BY <1>1, <1>2, <1>5, <2>3, Zenon DEF KeysPrepared
  <1>6. CASE p.type = "BY_SET"
    BY <1>6, Zenon DEF FitsType, SetResult, SetActions
  <1>7. CASE p.type = "DYNAMIC_GROUP"
    <2>1. r = DynamicGroupAction(p, st, o)
      BY <1>7, Zenon DEF ActionForNewObject
    <2>2. r.st.buffer = st.buffer /\ r.st.prepared = st.prepared
      BY <2>1 DEF DynamicGroupAction, Result, State
    <2> QED BY <1>7, <2>2, Zenon DEF KeysPrepared
  <1>8. CASE p.type = "REDUNDANT"
    <2>1. r = RedundantAction(p, st, o)
      BY <1>8, Zenon DEF ActionForNewObject
    <2>2. PICK c \in Nat :
             \/ r = Result(WithBuffer(WithCount(st, c), <<>>), {Elements(b)})
             \/ r = Result(WithBuffer(WithCount(st, c), b), {})
             \/ r = Result(WithCount(st, c), {})
      BY <1>1, <2>1 DEF RedundantAction
    <2> DEFINE x == WithCount(st, c)
    <2>4. x \in State /\ x.buffer = st.buffer /\ x.prepared = st.prepared
      BY Updates, Zenon
    <2> HIDE DEF x
    <2>3. \/ r.st = WithBuffer(x, <<>>) /\ r.actions = {Elements(b)}
          \/ r.st = WithBuffer(x, b) /\ r.actions = {}
          \/ r.st = x /\ r.actions = {}
      <3> HIDE DEF b
      <3>1. \A y, z : Result(y, z).st = y /\ Result(y, z).actions = z
        BY Zenon DEF Result
      <3> QED BY <2>2, <3>1 DEF x
    <2> HIDE DEF b
    <2> QED BY Zenon, <1>1, <1>2, <1>8, <2>3, <2>4 DEF KeysPrepared
  <1>9. CASE p.type = "BY_TIME"
    <2>1. WindowResult(st, o, r)
      BY <1>9, ByTimeFires, Zenon
    <2> QED BY <1>9, <2>1, Zenon DEF KeysPrepared, WindowResult
  <1> QED BY <1>3, <1>4, <1>5, <1>6, <1>7, <1>8, <1>9, PrimitiveFields, Zenon

-----------------------------------------------------------------------------
(* What the two evaluating steps do, with the results of the evaluation named. *)

(* The calls of an evaluation: finitely many, each a trigger and one of its
   actions. *)
GoodCalls(names, copies, o, N, res) ==
  /\ \A t \in names : /\ \E d \in BOOLEAN : res[t] = ActionForNewObject(Primitive[t], copies[t], o, d)
                      /\ res[t].st \in State
                      /\ res[t].actions \subseteq SUBSET Objects
                      /\ FitsType(t, copies[t], o, res[t])
  /\ IsFiniteSet(Calls(N, res))
  /\ \A c \in Calls(N, res) : c[1] \in N /\ c[2] \in res[c[1]].actions /\ c[2] \in SUBSET Objects
  /\ \A c, d \in Calls(N, res) : c[1] = d[1] /\ c[2] = d[2] => c = d

(* Dispatch books executors a node has, and records one firing per call. *)
Dispatched(o, acts) ==
  /\ avail' \in [Nodes -> 0..MaxAvail]
  /\ \E dest \in [acts -> Nodes \cup {NoNode}],
        refs \in [acts -> SUBSET (Objects \X Nodes)] :
       fired' = fired \cup
         {Firing(c[1], Coordinator, o, c[2], dest[c], refs[c]) : c \in acts}

(* What SendObject does. *)
SendFacts(n, o, res, active, msg) ==
  /\ o \notin Sent
  /\ stored' = [stored EXCEPT ![n] = @ \cup {o}]
  /\ active = {t \in LocalNames : res[t].actions # {}}
  /\ local' = [local EXCEPT ![n] = [t \in LocalNames |-> res[t].st]]
  /\ msg \in Message /\ msg.obj = o /\ msg.active = active
  /\ notif' = [notif EXCEPT ![n] = Append(@, msg)]
  /\ GoodCalls(LocalNames, local[n], o, active, res)
  /\ fired' = fired \cup {Firing(c[1], n, o, c[2], n, {}) : c \in Calls(active, res)}
  /\ coord' = coord /\ upd' = upd

(* What HandleNotify does. *)
NotifyFacts(n, m, res, fire) ==
  /\ notif[n] # <<>> /\ m = Head(notif[n]) /\ m \in Message
  /\ notif' = [notif EXCEPT ![n] = Tail(@)]
  /\ stored' = stored /\ local' = local
  /\ fire = {t \in TriggerNames \ m.active : res[t].actions # {}}
  /\ coord' = [t \in TriggerNames |-> res[t].st]
  /\ GoodCalls(TriggerNames, coord, m.obj, fire, res)
  /\ Dispatched(m.obj, Calls(fire, res))
  /\ fire \subseteq TimedNames => upd' = upd

(* Appending a message to a queue. *)
LEMMA AppendProperties ==
  ASSUME NEW S, NEW q \in Seq(S), NEW e \in S
  PROVE  /\ Append(q, e) \in Seq(S)
         /\ DOMAIN q = 1..Len(q) /\ Len(q) \in Nat
         /\ DOMAIN Append(q, e) = 1..(Len(q) + 1)
         /\ \A i \in 1..Len(q) : Append(q, e)[i] = q[i]
         /\ Append(q, e)[Len(q) + 1] = e
  OBVIOUS

(* Sending an object puts it on one node and in that node's channel: what the
   coordinator has handled does not change. *)
LEMMA SendChannel ==
  ASSUME TypeOK, ChannelInv, NEW n \in Nodes, NEW o \in Objects, NEW res, NEW active, NEW msg,
         SendFacts(n, o, res, active, msg)
  PROVE  /\ ChannelInv' /\ Handled' = Handled /\ Sent' = Sent \cup {o} /\ o \notin Sent
         /\ \A x \in Nodes : stored[x] \subseteq stored'[x] /\ stored[x] \subseteq Sent
         /\ stored'[n] = stored[n] \cup {o}
         /\ DOMAIN notif[n] = 1..Len(notif[n]) /\ Len(notif[n]) \in Nat
         /\ DOMAIN notif'[n] = 1..(Len(notif[n]) + 1)
         /\ \A i \in 1..Len(notif[n]) : notif'[n][i] = notif[n][i] /\ notif[n][i].obj # o
         /\ notif'[n][Len(notif[n]) + 1] = msg
         /\ \A x \in Nodes : x # n => notif'[x] = notif[x]
  <1> DEFINE q == notif[n]
             N == Len(q)
  <1>1. q \in Seq(Message) /\ msg \in Message /\ msg.obj = o
    BY Zenon DEF TypeOK, SendFacts
  <1>2. notif'[n] = Append(q, msg) /\ \A x \in Nodes : x # n => notif'[x] = notif[x]
    BY Zenon DEF SendFacts, TypeOK
  <1>3. /\ DOMAIN q = 1..N /\ N \in Nat /\ DOMAIN notif'[n] = 1..(N + 1)
        /\ \A i \in 1..N : notif'[n][i] = q[i]
        /\ notif'[n][N + 1] = msg
    BY <1>1, <1>2, AppendProperties
  <1> HIDE DEF N, q
  <1>4. /\ stored'[n] = stored[n] \cup {o} /\ \A x \in Nodes : x # n => stored'[x] = stored[x]
        /\ o \notin Sent
    BY Zenon DEF SendFacts, TypeOK
  <1>5. Sent' = Sent \cup {o} /\ \A x \in Nodes : o \notin stored[x] /\ stored[x] \subseteq Sent
    BY <1>4, Zenon DEF Sent
  <1>6. Queued(n)' = Queued(n) \cup {o}
    <2>1. Queued(n) = {q[i].obj : i \in 1..N}
      BY <1>3, Zenon DEF Queued, q
    <2>2. Queued(n)' = {notif'[n][i].obj : i \in 1..(N + 1)}
      BY <1>3, Zenon DEF Queued
    <2>3. 1..(N + 1) = (1..N) \cup {N + 1}
      BY <1>3
    <2> QED BY <1>1, <1>3, <2>1, <2>2, <2>3
  <1>7. \A x \in Nodes : x # n => Queued(x)' = Queued(x)
    BY <1>2, Zenon DEF Queued
  <1>8. (UNION {Queued(x) : x \in Nodes})' = (UNION {Queued(x) : x \in Nodes}) \cup {o}
    BY <1>6, <1>7, Zenon
  <1>9. Handled' = Handled
    BY <1>4, <1>5, <1>8, Zenon DEF Handled
  <1>10. \A i \in 1..N : q[i].obj # o
    BY <1>3, <1>5 DEF ChannelInv, Queued, q
  <1>11. ChannelInv'
    <2>1. \A x, y \in Nodes : x # y => stored'[x] \cap stored'[y] = {}
      BY <1>4, <1>5 DEF ChannelInv
    <2>2. \A x \in Nodes : Queued(x)' \subseteq stored'[x]
      BY <1>4, <1>6, <1>7 DEF ChannelInv
    <2>3. \A i, j \in 1..N : q[i].obj = q[j].obj => i = j
      BY <1>3, Zenon DEF ChannelInv, q
    <2>4. \A i, j \in DOMAIN notif'[n] : notif'[n][i].obj = notif'[n][j].obj => i = j
      BY <1>1, <1>3, <1>10, <2>3
    <2>5. \A x \in Nodes : \A i, j \in DOMAIN notif'[x] : notif'[x][i].obj = notif'[x][j].obj => i = j
      BY <1>2, <2>4, Zenon DEF ChannelInv
    <2> QED BY <2>1, <2>2, <2>5, Zenon DEF ChannelInv
  <1> QED BY <1>2, <1>3, <1>4, <1>5, <1>9, <1>10, <1>11, Zenon DEF N, q

(* Handling a notification adds exactly its object to what the coordinator
   has handled. *)
LEMMA NotifyChannel ==
  ASSUME TypeOK, ChannelInv, NEW n \in Nodes, NEW m, NEW res, NEW fire,
         NotifyFacts(n, m, res, fire)
  PROVE  /\ ChannelInv' /\ Handled' = Handled \cup {m.obj} /\ m.obj \notin Handled
         /\ Sent' = Sent /\ m.obj \in stored[n] /\ m.obj \in Objects
         /\ DOMAIN notif[n] = 1..Len(notif[n]) /\ Len(notif[n]) \in Nat \ {0}
         /\ m = notif[n][1]
         /\ DOMAIN notif'[n] = 1..(Len(notif[n]) - 1)
         /\ \A i \in 1..(Len(notif[n]) - 1) : notif'[n][i] = notif[n][i + 1]
         /\ \A x \in Nodes : x # n => notif'[x] = notif[x]
  <1> DEFINE q == notif[n]
             N == Len(q)
  <1>1. q \in Seq(Message) /\ q # <<>> /\ m \in Message /\ m = Head(q)
    BY Zenon DEF TypeOK, NotifyFacts
  <1>2. notif'[n] = Tail(q) /\ \A x \in Nodes : x # n => notif'[x] = notif[x]
    BY Zenon DEF NotifyFacts, TypeOK
  <1>3. /\ DOMAIN q = 1..N /\ N \in Nat \ {0} /\ DOMAIN notif'[n] = 1..(N - 1)
        /\ \A i \in 1..(N - 1) : notif'[n][i] = q[i + 1]
        /\ m = q[1]
    BY <1>1, <1>2
  <1> HIDE DEF N, q
  <1>4. stored' = stored /\ Sent' = Sent
    BY Zenon DEF NotifyFacts, Sent
  <1>5. \A i, j \in 1..N : q[i].obj = q[j].obj => i = j
    BY <1>3, Zenon DEF ChannelInv, q
  <1>6. Queued(n)' = Queued(n) \ {m.obj} /\ m.obj \in Queued(n)
    <2>1. Queued(n) = {q[i].obj : i \in 1..N}
      BY <1>3, Zenon DEF Queued, q
    <2>2. Queued(n)' = {q[i + 1].obj : i \in 1..(N - 1)}
      BY Zenon, <1>3 DEF Queued
    <2>3. \A i \in 1..N : i # 1 => i - 1 \in 1..(N - 1) /\ (i - 1) + 1 = i
      BY <1>3
    <2>4. \A i \in 1..(N - 1) : i + 1 \in 1..N /\ i + 1 # 1
      BY <1>3
    <2>5. 1 \in 1..N
      BY <1>3
    <2>6. \A v \in Queued(n)' : v \in Queued(n) /\ v # m.obj
      BY <1>3, <1>5, <2>1, <2>2, <2>4, <2>5
    <2>7. \A v \in Queued(n) : v # m.obj => v \in Queued(n)'
      BY <1>3, <2>1, <2>2, <2>3
    <2>8. m.obj \in Queued(n)
      BY <1>3, <2>1, <2>5, Zenon
    <2> QED BY <2>6, <2>7, <2>8, Zenon
  <1>7. \A x \in Nodes : x # n => Queued(x)' = Queued(x)
    BY <1>2, Zenon DEF Queued
  <1>8. m.obj \in stored[n] /\ \A x \in Nodes : x # n => m.obj \notin Queued(x)
    BY <1>6, Zenon DEF ChannelInv
  <1>9. (UNION {Queued(x) : x \in Nodes})' = (UNION {Queued(x) : x \in Nodes}) \ {m.obj}
    BY <1>6, <1>7, <1>8, Zenon
  <1>10. m.obj \in Sent
    BY <1>8, Zenon DEF Sent
  <1>11. Handled' = Handled \cup {m.obj} /\ m.obj \notin Handled
    BY <1>4, <1>6, <1>9, <1>10, Zenon DEF Handled
  <1>12. ChannelInv'
    <2>1. \A x \in Nodes : Queued(x)' \subseteq stored'[x]
      BY <1>4, <1>6, <1>7 DEF ChannelInv
    <2>2. \A i \in 1..(N - 1) : i + 1 \in 1..N
      BY <1>3
    <2>3. \A i, j \in DOMAIN notif'[n] : notif'[n][i].obj = notif'[n][j].obj => i = j
      BY <1>3, <1>5, <2>2
    <2>4. \A x \in Nodes : \A i, j \in DOMAIN notif'[x] : notif'[x][i].obj = notif'[x][j].obj => i = j
      BY Zenon, <1>2, <2>3 DEF ChannelInv
    <2> QED BY <1>4, <2>1, <2>4, Zenon DEF ChannelInv
  <1>13. m.obj \in Objects
    BY <1>1, Zenon DEF Message
  <1> QED BY <1>2, <1>3, <1>4, <1>8, <1>11, <1>12, <1>13, Zenon DEF N, q

(* Where the state and the arguments of an evaluation come from. *)
LEMMA EvaluationSources ==
  ASSUME NEW names \in SUBSET TriggerNames, NEW copies \in [names -> State], NEW o \in Objects,
         NEW N, NEW res, GoodCalls(names, copies, o, N, res),
         NEW t \in names, KeysPrepared(t, copies[t])
  PROVE  /\ Elements(res[t].st.buffer) \subseteq Elements(copies[t].buffer) \cup {o}
         /\ res[t].st.prepared \subseteq copies[t].prepared \cup {o}
         /\ KeysPrepared(t, res[t].st)
         /\ Primitive[t].type # "DYNAMIC_GROUP" =>
              \A a \in res[t].actions :
                a \subseteq Elements(copies[t].buffer) \cup copies[t].prepared \cup {o}
  <1>1. PICK d \in BOOLEAN : res[t] = ActionForNewObject(Primitive[t], copies[t], o, d)
    BY Zenon DEF GoodCalls
  <1>2. PICK st \in State : st = copies[t]
    BY Zenon
  <1>3. PICK r : r = res[t]
    BY Zenon
  <1>4. r = ActionForNewObject(Primitive[t], st, o, d) /\ KeysPrepared(t, st) /\ t \in TriggerNames
    BY <1>1, <1>2, <1>3, Zenon
  <1>5. FitsType(t, st, o, r)
    BY <1>2, <1>3, Zenon DEF GoodCalls
  <1>6. /\ Elements(r.st.buffer) \subseteq Elements(st.buffer) \cup {o}
        /\ r.st.prepared \subseteq st.prepared \cup {o}
        /\ KeysPrepared(t, r.st)
        /\ Primitive[t].type # "DYNAMIC_GROUP" =>
             \A a \in r.actions : a \subseteq Elements(st.buffer) \cup st.prepared \cup {o}
    BY <1>4, <1>5, ActionSources
  <1> QED BY <1>2, <1>3, <1>6, Zenon

(* Steps that leave the objects, the notifications, the coordinator's copies
   and the firings alone. *)
LEMMA QuietStep ==
  ASSUME ChannelInv, SingleInv, SetInv, WindowInv, WindowKeepsObjects, FiredObjectsSent,
         stored' = stored, notif' = notif, coord' = coord, fired' = fired
  PROVE  /\ ChannelInv' /\ SingleInv' /\ SetInv' /\ WindowInv' /\ WindowKeepsObjects'
         /\ FiredObjectsSent' /\ Handled' = Handled
  <1>1. Sent' = Sent /\ \A n : Queued(n)' = Queued(n)
    BY Zenon DEF Sent, Queued
  <1>2. Handled' = Handled
    BY <1>1, Zenon DEF Handled
  <1>3. \A n, S, t : LastSaysActive(n, S, t)' = LastSaysActive(n, S, t)
    BY DEF LastSaysActive
  <1>4. \A t : ConsumedOnce(t)' = ConsumedOnce(t)
    BY Zenon DEF ConsumedOnce
  <1>5. ChannelInv' /\ SingleInv' /\ FiredObjectsSent'
    BY <1>1 DEF ChannelInv, SingleInv, FiredObjectsSent
  <1>6. SetInv'
    BY <1>2, <1>3 DEF SetInv
  <1>7. WindowInv' /\ WindowKeepsObjects'
    BY <1>2, <1>4, Zenon DEF WindowInv, WindowKeepsObjects
  <1> QED BY <1>2, <1>5, <1>6, <1>7, Zenon

(* The copies keep holding objects of their own place, and calls are made for
   objects that were sent: SendObject. *)
LEMMA SendSources ==
  ASSUME TypeOK, ChannelInv, CopyInv, FiredObjectsSent,
         NEW n \in Nodes, NEW o \in Objects, NEW res, NEW active, NEW msg,
         SendFacts(n, o, res, active, msg)
  PROVE  CopyInv' /\ FiredObjectsSent'
  <1>1. /\ Handled' = Handled /\ Sent' = Sent \cup {o}
        /\ \A x \in Nodes : stored[x] \subseteq stored'[x] /\ stored[x] \subseteq Sent
        /\ stored'[n] = stored[n] \cup {o}
    BY SendChannel, Zenon
  <1>2. /\ LocalNames \in SUBSET TriggerNames /\ local[n] \in [LocalNames -> State]
        /\ GoodCalls(LocalNames, local[n], o, active, res)
        /\ active = {t \in LocalNames : res[t].actions # {}}
        /\ coord' = coord
    BY Zenon DEF TypeOK, SendFacts, LocalNames
  <1>3. ASSUME NEW t \in LocalNames
        PROVE  /\ Elements(res[t].st.buffer) \cup res[t].st.prepared \subseteq stored'[n]
               /\ KeysPrepared(t, res[t].st)
               /\ Primitive[t].type # "DYNAMIC_GROUP" => \A a \in res[t].actions : a \subseteq Sent'
    <2>1. /\ Elements(local[n][t].buffer) \cup local[n][t].prepared \subseteq stored[n]
          /\ KeysPrepared(t, local[n][t])
      BY Zenon DEF CopyInv
    <2>2. PICK copies \in [LocalNames -> State] : copies = local[n]
      BY <1>2, Zenon
    <2>3. /\ Elements(res[t].st.buffer) \subseteq Elements(copies[t].buffer) \cup {o}
          /\ res[t].st.prepared \subseteq copies[t].prepared \cup {o}
          /\ KeysPrepared(t, res[t].st)
          /\ Primitive[t].type # "DYNAMIC_GROUP" =>
               \A a \in res[t].actions :
                 a \subseteq Elements(copies[t].buffer) \cup copies[t].prepared \cup {o}
      <3>1. GoodCalls(LocalNames, copies, o, active, res) /\ KeysPrepared(t, copies[t])
        BY Zenon, <1>2, <2>1, <2>2
      <3> QED BY Zenon, <1>2, <3>1, EvaluationSources
    <2> QED BY <1>1, <2>1, <2>2, <2>3, Zenon
  <1>4. /\ \A t \in LocalNames : local'[n][t] = res[t].st
        /\ \A x \in Nodes : x # n => local'[x] = local[x]
    BY Zenon DEF SendFacts, TypeOK
  <1>5. CopyInv'
    <2>1. ASSUME NEW x \in Nodes, NEW t \in LocalNames
          PROVE  /\ Elements(local'[x][t].buffer) \cup local'[x][t].prepared \subseteq stored'[x]
                 /\ KeysPrepared(t, local'[x][t])
      <3>1. CASE x = n
        BY <1>3, <1>4, <3>1, Zenon
      <3>2. CASE x # n
        BY <1>1, <1>4, <3>2, Zenon DEF CopyInv
      <3> QED BY <3>1, <3>2, Zenon
    <2>2. \A t \in TriggerNames :
            /\ Elements(coord'[t].buffer) \cup coord'[t].prepared \subseteq Handled'
            /\ KeysPrepared(t, coord'[t])
      BY <1>1, <1>2, Zenon DEF CopyInv
    <2>3. \A t, x : KeysPrepared(t, x)' = KeysPrepared(t, x')
      BY Zenon DEF KeysPrepared
    <2> QED BY <2>1, <2>2, Zenon DEF CopyInv, KeysPrepared
  <1>6. FiredObjectsSent'
    <2> SUFFICES ASSUME NEW f \in fired', Primitive[f.name].type # "DYNAMIC_GROUP"
                 PROVE  f.objs \subseteq Sent'
      BY Zenon DEF FiredObjectsSent
    <2>1. CASE f \in fired
      BY <1>1, <2>1, Zenon DEF FiredObjectsSent
    <2>2. CASE f \notin fired
      <3>1. PICK c \in Calls(active, res) : f = Firing(c[1], n, o, c[2], n, {})
        BY Zenon, <2>2 DEF SendFacts
      <3>2. c[1] \in LocalNames /\ c[2] \in res[c[1]].actions
        BY Zenon, <1>2 DEF GoodCalls
      <3>3. f.name = c[1] /\ f.objs = c[2]
        BY <3>1, Zenon DEF Firing
      <3> QED BY <1>3, <3>2, <3>3, Zenon
    <2> QED BY <2>1, <2>2, Zenon
  <1> QED BY <1>5, <1>6, Zenon

(* The same for HandleNotify. *)
LEMMA NotifySources ==
  ASSUME TypeOK, ChannelInv, CopyInv, FiredObjectsSent,
         NEW n \in Nodes, NEW m, NEW res, NEW fire, NotifyFacts(n, m, res, fire)
  PROVE  CopyInv' /\ FiredObjectsSent'
  <1> DEFINE o == m.obj
  <1>1. /\ Handled' = Handled \cup {o} /\ Sent' = Sent /\ o \in stored[n] /\ o \in Objects
        /\ stored' = stored /\ local' = local
    <2>1. stored' = stored /\ local' = local
      BY Zenon DEF NotifyFacts
    <2> QED BY <2>1, NotifyChannel, Zenon
  <1> HIDE DEF o
  <1>2. /\ TriggerNames \in SUBSET TriggerNames /\ coord \in [TriggerNames -> State]
        /\ GoodCalls(TriggerNames, coord, o, fire, res)
        /\ coord' = [t \in TriggerNames |-> res[t].st]
        /\ fire \subseteq TriggerNames
    BY Zenon DEF TypeOK, NotifyFacts, o
  <1>3. ASSUME NEW t \in TriggerNames
        PROVE  /\ Elements(res[t].st.buffer) \cup res[t].st.prepared \subseteq Handled'
               /\ KeysPrepared(t, res[t].st)
               /\ Primitive[t].type # "DYNAMIC_GROUP" => \A a \in res[t].actions : a \subseteq Handled'
    <2>1. /\ Elements(coord[t].buffer) \cup coord[t].prepared \subseteq Handled
          /\ KeysPrepared(t, coord[t])
      BY Zenon DEF CopyInv
    <2>2. /\ Elements(res[t].st.buffer) \subseteq Elements(coord[t].buffer) \cup {o}
          /\ res[t].st.prepared \subseteq coord[t].prepared \cup {o}
          /\ KeysPrepared(t, res[t].st)
          /\ Primitive[t].type # "DYNAMIC_GROUP" =>
               \A a \in res[t].actions :
                 a \subseteq Elements(coord[t].buffer) \cup coord[t].prepared \cup {o}
      BY Zenon, <1>1, <1>2, <2>1, EvaluationSources
    <2> QED BY <1>1, <2>1, <2>2, Zenon
  <1>4. CopyInv'
    BY <1>1, <1>2, <1>3, Zenon DEF CopyInv, KeysPrepared
  <1>5. FiredObjectsSent'
    <2> SUFFICES ASSUME NEW f \in fired', Primitive[f.name].type # "DYNAMIC_GROUP"
                 PROVE  f.objs \subseteq Sent'
      BY Zenon DEF FiredObjectsSent
    <2>1. CASE f \in fired
      BY <1>1, <2>1, Zenon DEF FiredObjectsSent
    <2>2. CASE f \notin fired
      <3> DEFINE acts == Calls(fire, res)
      <3>0. Dispatched(o, acts)
        BY Zenon DEF NotifyFacts, o
      <3> HIDE DEF acts
      <3>5. PICK dest, refs : fired' = fired \cup
              {Firing(c[1], Coordinator, o, c[2], dest[c], refs[c]) : c \in acts}
        BY <3>0 DEF Dispatched
      <3>1. PICK c \in acts : f = Firing(c[1], Coordinator, o, c[2], dest[c], refs[c])
        BY <2>2, <3>5, Zenon
      <3>2. c[1] \in TriggerNames /\ c[2] \in res[c[1]].actions
        BY <1>2, Zenon DEF GoodCalls, acts
      <3>3. f.name = c[1] /\ f.objs = c[2]
        BY <3>1, Zenon DEF Firing
      <3>4. Handled' \subseteq Sent'
        BY Zenon DEF Handled
      <3> QED BY <1>3, <3>2, <3>3, <3>4, Zenon
    <2> QED BY <2>1, <2>2, Zenon
  <1> QED BY <1>4, <1>5, Zenon

-----------------------------------------------------------------------------
(* Immediate, by-name and by-time triggers. *)

(* Immediate and by-name triggers: the action of an evaluation. *)
LEMMA SingleAction ==
  ASSUME NEW t \in TriggerNames, Primitive[t].type \in {"IMMEDIATE", "BY_NAME"},
         NEW st \in State, NEW o \in Objects, NEW due \in BOOLEAN, NEW r,
         r = ActionForNewObject(Primitive[t], st, o, due)
  PROVE  (Wants(t, o) => r.actions = {{o}}) /\ (~Wants(t, o) => r.actions = {})
  <1>1. CASE Primitive[t].type = "IMMEDIATE"
    <2>1. r = ImmediateAction(st, o)
      BY <1>1, Zenon DEF ActionForNewObject
    <2> QED BY <1>1, <2>1 DEF ImmediateAction, Result, Wants
  <1>2. CASE Primitive[t].type = "BY_NAME"
    <2>1. r = ByNameAction(Primitive[t], st, o)
      BY <1>2, Zenon DEF ActionForNewObject
    <2> QED BY <1>2, <2>1 DEF ByNameAction, Result, Wants
  <1> QED BY <1>1, <1>2, Zenon

(* The evaluation of one trigger of a pass. *)
LEMMA EvaluationOf ==
  ASSUME NEW names \in SUBSET TriggerNames, NEW copies \in [names -> State], NEW o \in Objects,
         NEW N, NEW res, GoodCalls(names, copies, o, N, res), NEW t \in names
  PROVE  \E d \in BOOLEAN, st \in State :
           st = copies[t] /\ res[t] = ActionForNewObject(Primitive[t], st, o, d)
  BY Zenon DEF GoodCalls

(* A firing that a step adds, and the trigger that caused it. *)
LEMMA SendNewFiring ==
  ASSUME NEW n, NEW o, NEW res, NEW active, NEW msg, SendFacts(n, o, res, active, msg),
         NEW f \in fired', f \notin fired
  PROVE  /\ f.name \in active /\ f.objs \in res[f.name].actions
         /\ f = Firing(f.name, n, o, f.objs, n, {})
  <1>1. PICK c \in Calls(active, res) : f = Firing(c[1], n, o, c[2], n, {})
    BY Zenon DEF SendFacts
  <1>2. c[1] \in active /\ c[2] \in res[c[1]].actions
    BY Zenon DEF SendFacts, GoodCalls
  <1>3. f.name = c[1] /\ f.objs = c[2]
    BY <1>1, Zenon DEF Firing
  <1> QED BY <1>1, <1>2, <1>3, Zenon

(* A firing that the coordinator's step adds is an action of its evaluation. *)
LEMMA NotifyNewFiring ==
  ASSUME NEW n, NEW m, NEW res, NEW fire, NotifyFacts(n, m, res, fire),
         NEW f \in fired', f \notin fired
  PROVE  /\ f.name \in fire /\ f.objs \in res[f.name].actions
         /\ f.at = Coordinator /\ f.cause = m.obj
         /\ \A g \in fired' : g \notin fired /\ g.name = f.name /\ g.objs = f.objs => g = f
  <1> DEFINE acts == Calls(fire, res)
  <1>1. Dispatched(m.obj, acts)
    BY Zenon DEF NotifyFacts
  <1>2. \A c \in acts : c[1] \in fire /\ c[2] \in res[c[1]].actions
    BY Zenon DEF NotifyFacts, GoodCalls
  <1>3. \A c, d \in acts : c[1] = d[1] /\ c[2] = d[2] => c = d
    BY Zenon DEF NotifyFacts, GoodCalls
  <1> HIDE DEF acts
  <1>4. PICK dest, refs : fired' = fired \cup
          {Firing(c[1], Coordinator, m.obj, c[2], dest[c], refs[c]) : c \in acts}
    BY <1>1 DEF Dispatched
  <1>5. \A g \in fired' : g \notin fired =>
          \E c \in acts : /\ g = Firing(c[1], Coordinator, m.obj, c[2], dest[c], refs[c])
                          /\ g.name = c[1] /\ g.objs = c[2] /\ g.at = Coordinator /\ g.cause = m.obj
    BY <1>4 DEF Firing
  <1> QED BY <1>2, <1>3, <1>5

(* A call is given one of the addresses recorded for its argument's key. *)
LEMMA DispatchRefs ==
  ASSUME NEW o, NEW acts, NEW vals, NEW addr, Dispatch(o, acts, vals, addr),
         NEW f \in fired', f \notin fired, NEW r \in f.refs
  PROVE  r[2] \in addr[r[1].key]
  <1> DEFINE byRef == {c \in acts : ~(c[2] \subseteq vals)}
             keys  == {p.key : p \in UNION {c[2] : c \in byRef}}
  <1>1. PICK dest \in [acts -> Nodes \cup {NoNode}], first \in [keys -> Nodes] :
          LET refs(c) == IF c \in byRef THEN {<<p, first[p.key]>> : p \in c[2]} ELSE {}
          IN  /\ \A k \in keys : first[k] \in addr[k]
              /\ fired' = fired \cup
                   {Firing(c[1], Coordinator, o, c[2], dest[c], refs(c)) : c \in acts}
    BY Zenon DEF Dispatch
  <1> DEFINE refs(c) == IF c \in byRef THEN {<<p, first[p.key]>> : p \in c[2]} ELSE {}
  <1>2. PICK c \in acts : f = Firing(c[1], Coordinator, o, c[2], dest[c], refs(c))
    BY Zenon, <1>1
  <1>3. f.refs = refs(c)
    BY <1>2, Zenon DEF Firing
  <1>4. c \in byRef /\ \E p \in c[2] : r = <<p, first[p.key]>>
    BY <1>3
  <1>5. PICK p \in c[2] : r = <<p, first[p.key]>>
    BY <1>4, Zenon
  <1>6. p.key \in keys
    BY <1>4, Zenon
  <1> QED BY <1>1, <1>5, <1>6, Zenon

(* Immediate and by-name triggers fire where the object is sent. *)
LEMMA SendSingle ==
  ASSUME TypeOK, ChannelInv, SingleInv,
         NEW n \in Nodes, NEW o \in Objects, NEW res, NEW active, NEW msg,
         SendFacts(n, o, res, active, msg)
  PROVE  SingleInv'
  <1> SUFFICES ASSUME NEW t \in TriggerNames, Primitive[t].type \in {"IMMEDIATE", "BY_NAME"}
               PROVE  /\ \A f \in fired' : f.name = t =>
                           /\ f.at \in Nodes /\ f.cause \in stored'[f.at]
                           /\ f = Firing(t, f.at, f.cause, {f.cause}, f.at, {})
                      /\ \A x \in Nodes : \A i \in DOMAIN notif'[x] :
                           Wants(t, notif'[x][i].obj) => t \in notif'[x][i].active
    BY Zenon DEF SingleInv, Firing, Wants
  <1>1. t \in LocalNames /\ LocalNames \in SUBSET TriggerNames
    BY Zenon DEF LocalNames
  <1>2. local[n] \in [LocalNames -> State] /\ GoodCalls(LocalNames, local[n], o, active, res)
    BY Zenon DEF TypeOK, SendFacts
  <1>3. PICK d \in BOOLEAN, st \in State : res[t] = ActionForNewObject(Primitive[t], st, o, d)
    <2>1. PICK copies \in [LocalNames -> State] : copies = local[n]
      BY <1>2, Zenon
    <2>2. PICK d \in BOOLEAN : res[t] = ActionForNewObject(Primitive[t], copies[t], o, d)
      BY Zenon, <1>1, <1>2, <2>1 DEF GoodCalls
    <2>3. copies[t] \in State
      BY <1>1, <2>1, Zenon
    <2> QED BY Zenon, <2>2, <2>3
  <1>4. (Wants(t, o) => res[t].actions = {{o}}) /\ (~Wants(t, o) => res[t].actions = {})
    <2>1. PICK r : r = res[t]
      BY Zenon
    <2>2. r = ActionForNewObject(Primitive[t], st, o, d)
      BY <1>3, <2>1, Zenon
    <2>3. (Wants(t, o) => r.actions = {{o}}) /\ (~Wants(t, o) => r.actions = {})
      BY <2>2, SingleAction
    <2> QED BY <2>1, <2>3, Zenon
  <1>5. /\ stored'[n] = stored[n] \cup {o}
        /\ \A x \in Nodes : stored[x] \subseteq stored'[x]
    BY SendChannel, Zenon
  <1>6. ASSUME NEW f \in fired', f.name = t
        PROVE  /\ f.at \in Nodes /\ f.cause \in stored'[f.at]
               /\ f = Firing(t, f.at, f.cause, {f.cause}, f.at, {})
    <2>1. CASE f \in fired
      BY <1>5, <1>6, <2>1, Zenon DEF SingleInv
    <2>2. CASE f \notin fired
      <3>1. f.objs \in res[t].actions /\ f = Firing(t, n, o, f.objs, n, {})
        BY <1>6, <2>2, SendNewFiring, Zenon
      <3>2. f.objs = {o}
        BY <1>4, <3>1, Zenon
      <3>3. f.at = n /\ f.cause = o
        BY <3>1 DEF Firing
      <3> QED BY <1>5, <3>1, <3>2, <3>3, Zenon
    <2> QED BY <2>1, <2>2, Zenon
  <1>7. ASSUME NEW x \in Nodes, NEW i \in DOMAIN notif'[x], Wants(t, notif'[x][i].obj)
        PROVE  t \in notif'[x][i].active
    <2>1. CASE x # n
      <3>1. notif'[x] = notif[x]
        BY <2>1, SendChannel
      <3> QED BY <1>7, <3>1, Zenon DEF SingleInv
    <2>2. CASE x = n
      <3>1. /\ DOMAIN notif[n] = 1..Len(notif[n]) /\ Len(notif[n]) \in Nat
            /\ DOMAIN notif'[n] = 1..(Len(notif[n]) + 1)
            /\ \A k \in 1..Len(notif[n]) : notif'[n][k] = notif[n][k]
            /\ notif'[n][Len(notif[n]) + 1] = msg
        BY SendChannel
      <3>2. CASE i \in 1..Len(notif[n])
        BY <1>7, <2>2, <3>1, <3>2, Zenon DEF SingleInv
      <3>3. CASE i = Len(notif[n]) + 1
        <4>1. notif'[x][i] = msg /\ msg.obj = o /\ msg.active = active
          BY <2>2, <3>1, <3>3, Zenon DEF SendFacts
        <4>2. res[t].actions # {}
          BY Zenon, <1>4, <1>7, <4>1
        <4> QED BY <1>1, <4>1, <4>2, Zenon DEF SendFacts
      <3> QED BY <2>2, <3>1, <3>2, <3>3
    <2> QED BY <2>1, <2>2, Zenon
  <1> QED BY <1>6, <1>7, Zenon

(* The coordinator does not repeat them: the notification names them active. *)
LEMMA NotifySingle ==
  ASSUME TypeOK, ChannelInv, SingleInv,
         NEW n \in Nodes, NEW m, NEW res, NEW fire, NotifyFacts(n, m, res, fire)
  PROVE  SingleInv'
  <1> SUFFICES ASSUME NEW t \in TriggerNames, Primitive[t].type \in {"IMMEDIATE", "BY_NAME"}
               PROVE  /\ \A f \in fired' : f.name = t =>
                           /\ f.at \in Nodes /\ f.cause \in stored'[f.at]
                           /\ f = Firing(t, f.at, f.cause, {f.cause}, f.at, {})
                      /\ \A x \in Nodes : \A i \in DOMAIN notif'[x] :
                           Wants(t, notif'[x][i].obj) => t \in notif'[x][i].active
    BY Zenon DEF SingleInv, Firing, Wants
  <1>1. /\ m.obj \in Objects /\ m = notif[n][1] /\ 1 \in DOMAIN notif[n]
        /\ DOMAIN notif[n] = 1..Len(notif[n]) /\ Len(notif[n]) \in Nat \ {0}
        /\ DOMAIN notif'[n] = 1..(Len(notif[n]) - 1)
        /\ \A i \in 1..(Len(notif[n]) - 1) : notif'[n][i] = notif[n][i + 1]
        /\ \A x \in Nodes : x # n => notif'[x] = notif[x]
    <2>1. \A N \in Nat \ {0} : 1 \in 1..N
      OBVIOUS
    <2> QED BY <2>1, NotifyChannel, Zenon
  <1>2. /\ coord \in [TriggerNames -> State] /\ GoodCalls(TriggerNames, coord, m.obj, fire, res)
        /\ stored' = stored
    BY Zenon DEF TypeOK, NotifyFacts
  <1>3. PICK d \in BOOLEAN, st \in State : res[t] = ActionForNewObject(Primitive[t], st, m.obj, d)
    <2>1. PICK o \in Objects : o = m.obj
      BY <1>1, Zenon
    <2> QED BY <1>2, <2>1, EvaluationOf
  <1>4. ~Wants(t, m.obj) => res[t].actions = {}
    <2>1. PICK o \in Objects : o = m.obj
      BY <1>1, Zenon
    <2>2. PICK r : r = res[t]
      BY Zenon
    <2>3. r = ActionForNewObject(Primitive[t], st, o, d)
      BY <1>3, <2>1, <2>2, Zenon
    <2>4. ~Wants(t, o) => r.actions = {}
      BY <2>3, SingleAction, Zenon
    <2> QED BY <2>1, <2>2, <2>4, Zenon
  <1>5. t \notin fire
    <2>1. Wants(t, m.obj) => t \in m.active
      BY <1>1, Zenon DEF SingleInv
    <2> QED BY <1>4, <2>1, Zenon DEF NotifyFacts
  <1>6. \A f \in fired' : f.name = t => f \in fired
    BY <1>5, NotifyNewFiring
  <1>7. ASSUME NEW x \in Nodes, NEW i \in DOMAIN notif'[x], Wants(t, notif'[x][i].obj)
        PROVE  t \in notif'[x][i].active
    <2>1. CASE x # n
      BY <1>1, <1>7, <2>1, Zenon DEF SingleInv
    <2>2. CASE x = n
      <3>1. i + 1 \in DOMAIN notif[n] /\ notif'[x][i] = notif[n][i + 1]
        BY <1>1, <2>2
      <3> QED BY <1>7, <3>1, Zenon DEF SingleInv
    <2> QED BY <2>1, <2>2, Zenon
  <1> QED BY <1>2, <1>6, <1>7, Zenon DEF SingleInv

(* By-time triggers: only the coordinator evaluates them. *)
LEMMA SendWindow ==
  ASSUME TypeOK, ChannelInv, WindowInv, WindowKeepsObjects,
         NEW n \in Nodes, NEW o \in Objects, NEW res, NEW active, NEW msg,
         SendFacts(n, o, res, active, msg)
  PROVE  WindowInv' /\ WindowKeepsObjects'
  <1>1. Handled' = Handled /\ coord' = coord
    BY SendChannel, Zenon DEF SendFacts
  <1>2. active \cap TimedNames = {}
    BY Zenon DEF SendFacts, TimedNames
  <1>3. fired \subseteq fired'
    BY Zenon DEF SendFacts
  <1>4. \A f \in fired' : f.name \in TimedNames => f \in fired
    BY <1>2, SendNewFiring, Zenon
  <1>5. WindowInv'
    BY <1>1, <1>4, Zenon DEF WindowInv, ConsumedOnce
  <1>6. \A t \in TimedNames : {g \in fired' : g.name = t} = {g \in fired : g.name = t}
    BY <1>3, <1>4, Zenon
  <1>7. WindowKeepsObjects'
    BY <1>1, <1>6, Zenon DEF WindowKeepsObjects
  <1> QED BY <1>5, <1>7, Zenon

(* The coordinator's evaluation keeps the windows. *)
LEMMA NotifyWindow ==
  ASSUME TypeOK, ChannelInv, WindowInv, WindowKeepsObjects,
         NEW n \in Nodes, NEW m, NEW res, NEW fire, NotifyFacts(n, m, res, fire)
  PROVE  WindowInv' /\ WindowKeepsObjects'
  <1>1. PICK o \in Objects : o = m.obj
    BY NotifyChannel, Zenon
  <1>2. Handled' = Handled \cup {o} /\ o \notin Handled
    BY <1>1, NotifyChannel, Zenon
  <1>3. /\ coord \in [TriggerNames -> State] /\ GoodCalls(TriggerNames, coord, o, fire, res)
        /\ m \in Message
        /\ fire = {t \in TriggerNames \ m.active : res[t].actions # {}}
        /\ coord' = [t \in TriggerNames |-> res[t].st]
    BY <1>1, Zenon DEF TypeOK, NotifyFacts
  <1>4. fired \subseteq fired'
    BY Zenon DEF NotifyFacts, Dispatched
  <1>5. ASSUME NEW t \in TimedNames
        PROVE  /\ \A f \in fired' : f.name = t =>
                    f.objs \subseteq Handled' /\ f.objs \cap Elements(coord'[t].buffer) = {}
               /\ \A f, g \in fired' : f.name = t /\ g.name = t /\ f # g => f.objs \cap g.objs = {}
               /\ Handled' = Elements(coord'[t].buffer)
                    \cup UNION {f.objs : f \in {g \in fired' : g.name = t}}
    <2> DEFINE window == Elements(coord[t].buffer)
               old == {g \in fired : g.name = t}
               new == {g \in fired' : g.name = t /\ g \notin fired}
    <2>1. t \in TriggerNames /\ Primitive[t].type = "BY_TIME" /\ t \notin m.active
      BY <1>3, Zenon DEF TimedNames, LocalNames, Message
    <2>2. PICK d \in BOOLEAN, st \in State :
            st = coord[t] /\ res[t] = ActionForNewObject(Primitive[t], st, o, d)
      <3>1. PICK d \in BOOLEAN : res[t] = ActionForNewObject(Primitive[t], coord[t], o, d)
        BY Zenon, <1>3, <2>1 DEF GoodCalls
      <3>2. coord[t] \in State
        BY <1>3, <2>1, Zenon
      <3> QED BY Zenon, <3>1, <3>2
    <2>3. PICK r : r = res[t]
      BY Zenon
    <2>4. \/ r.actions = {window \cup {o}} /\ Elements(r.st.buffer) = {}
          \/ r.actions = {} /\ Elements(r.st.buffer) = window \cup {o}
      <3>2. r = ActionForNewObject(Primitive[t], st, o, d)
        BY <2>2, <2>3, Zenon
      <3>1. WindowResult(st, o, r)
        BY <2>1, <3>2, ByTimeFires, Zenon
      <3> QED BY <2>2, <3>1, Zenon DEF WindowResult
    <2>5. coord'[t] = r.st
      BY <1>3, <2>1, <2>3, Zenon
    <2>6. /\ \A f \in old : f.objs \subseteq Handled /\ f.objs \cap window = {}
          /\ \A f, g \in old : f # g => f.objs \cap g.objs = {}
          /\ Handled = window \cup UNION {f.objs : f \in old}
      BY Zenon DEF WindowInv, ConsumedOnce, WindowKeepsObjects
    <2>7. \A f \in new : f.objs \in r.actions /\ \A g \in new : g.objs = f.objs => g = f
      BY <2>3, NotifyNewFiring
    <2>8. {g \in fired' : g.name = t} = old \cup new
      BY <1>4, Zenon
    <2>9. r.actions # {} => \E f \in new : f.objs \in r.actions
      <3> SUFFICES ASSUME r.actions # {} PROVE \E f \in new : f.objs \in r.actions
        BY Zenon
      <3>1. t \in fire
        BY <1>3, <2>1, <2>3, Zenon
      <3>2. PICK a \in r.actions : TRUE
        BY Zenon
      <3>3. <<t, a>> \in Calls(fire, res)
        BY <2>3, <3>1, <3>2 DEF Calls
      <3> DEFINE acts == Calls(fire, res)
      <3>4. Dispatched(o, acts)
        BY <1>1, Zenon DEF NotifyFacts
      <3> HIDE DEF acts
      <3>5. PICK dest, refs : fired' = fired \cup
              {Firing(c[1], Coordinator, o, c[2], dest[c], refs[c]) : c \in acts}
        BY <3>4 DEF Dispatched
      <3>6. PICK c \in acts : c = <<t, a>>
        BY <3>3, Zenon DEF acts
      <3>7. PICK f \in fired' : f = Firing(t, Coordinator, o, a, dest[c], refs[c])
        BY <3>5, <3>6, Zenon
      <3>8. f.name = t /\ f.objs = a
        BY <3>7, Zenon DEF Firing
      <3>9. a = window \cup {o}
        BY <2>4, <3>2, Zenon
      <3>10. f \notin fired
        BY <1>2, <2>6, <3>8, <3>9, Zenon
      <3> QED BY <3>2, <3>8, <3>10, Zenon
    <2> HIDE DEF window, old, new
    <2>10. CASE r.actions = {window \cup {o}} /\ Elements(r.st.buffer) = {}
      <3>1. PICK h \in new : h.objs = window \cup {o}
        BY <2>9, <2>10, Zenon
      <3>2. new = {h}
        BY Zenon, <2>7, <2>10, <3>1
      <3>3. \A f \in old : f.objs \cap h.objs = {} /\ f # h
        BY <1>2, <2>6, <3>1
      <3>4. Handled' = UNION {f.objs : f \in old \cup {h}}
        BY <1>2, <2>6, <3>1
      <3>5. \A f \in old \cup {h} : f.objs \subseteq Handled'
        BY <3>4, Zenon
      <3>6. \A f, g \in old \cup {h} : f # g => f.objs \cap g.objs = {}
        BY <2>6, <3>3, Zenon
      <3> QED BY <2>5, <2>8, <2>10, <3>2, <3>4, <3>5, <3>6, Zenon
    <2>11. CASE r.actions = {} /\ Elements(r.st.buffer) = window \cup {o}
      <3>1. new = {}
        BY <2>7, <2>11, Zenon
      <3>2. \A f \in old : f.objs \subseteq Handled' /\ f.objs \cap (window \cup {o}) = {}
        BY <1>2, <2>6, Zenon
      <3>3. Handled' = (window \cup {o}) \cup UNION {f.objs : f \in old}
        BY <1>2, <2>6, Zenon
      <3> QED BY <2>5, <2>6, <2>8, <2>11, <3>1, <3>2, <3>3, Zenon
    <2> QED BY <2>4, <2>10, <2>11, Zenon
  <1> QED BY <1>5, Zenon DEF WindowInv, ConsumedOnce, WindowKeepsObjects

(* The initial state, and the steps that evaluate nothing. *)

(* Taking the first message of a queue. *)
LEMMA TailProperties ==
  ASSUME NEW S, NEW q \in Seq(S), q # <<>>
  PROVE  /\ Head(q) \in S /\ Head(q) = q[1] /\ 1 \in DOMAIN q
         /\ Tail(q) \in Seq(S)
         /\ DOMAIN Tail(q) = 1..(Len(q) - 1) /\ DOMAIN q = 1..Len(q) /\ Len(q) \in Nat
         /\ \A i \in DOMAIN Tail(q) : i + 1 \in DOMAIN q /\ Tail(q)[i] = q[i + 1]
  OBVIOUS

(* The initial state is well typed. *)
LEMMA InitType == Init => TypeOK
  <1> SUFFICES ASSUME Init PROVE TypeOK
    BY Zenon
  <1>1. NewTrigger \in State
    BY EmptyBuffer, Zenon DEF NewTrigger, State
  <1>2. LocalNames \subseteq TriggerNames
    BY Zenon DEF LocalNames
  <1>3. \A S : <<>> \in Seq(S)
    OBVIOUS
  <1> QED BY <1>1, <1>2, <1>3, MaxAvailNat DEF Init, TypeOK

(* Handling a status message keeps the types. *)
LEMMA HandleStatusType ==
  ASSUME TypeOK, NEW n \in Nodes, NEW free \in 0..MaxAvail, HandleStatus(n, free)
  PROVE  TypeOK'
  BY Zenon DEF HandleStatus, TypeOK

(* Clearing a trigger keeps its type and only forgets. *)
LEMMA ClearProperties ==
  ASSUME NEW t \in TriggerNames, NEW st \in State, NEW session
  PROVE  /\ ClearTrigger(Primitive[t], st, session) \in State
         /\ Elements(ClearTrigger(Primitive[t], st, session).buffer) \subseteq Elements(st.buffer)
         /\ ClearTrigger(Primitive[t], st, session).prepared \subseteq st.prepared
  <1> DEFINE p == Primitive[t]
             c == ClearTrigger(p, st, session)
  <1>1. \A x \in State : /\ WithBuffer(x, <<>>) \in State
                         /\ Elements(WithBuffer(x, <<>>).buffer) = {}
                         /\ WithBuffer(x, <<>>).prepared = x.prepared
    BY Zenon, Updates, EmptyBuffer
  <1>2. CASE p.type \in {"IMMEDIATE", "BY_NAME"}
    <2>1. c = st
      BY <1>2, Zenon DEF ClearTrigger
    <2> QED BY <2>1, Zenon
  <1>3. CASE p.type \in {"BY_BATCH_SIZE", "BY_TIME"}
    <2>1. c = WithBuffer(st, <<>>)
      BY <1>3, Zenon DEF ClearTrigger
    <2> QED BY <1>1, <2>1, Zenon
  <1>4. CASE p.type = "BY_SET"
    <2> DEFINE rest == {q \in st.prepared : q.session # session}
    <2>1. c = WithPrepared(st, rest)
      BY <1>4, Zenon DEF ClearTrigger
    <2>2. rest \in SUBSET Objects /\ rest \subseteq st.prepared
      BY Zenon DEF State
    <2> HIDE DEF rest
    <2> QED BY <2>1, <2>2, Updates
  <1>5. CASE p.type = "DYNAMIC_GROUP"
    <2>1. c = [st EXCEPT !.data = {}, !.control = {}]
      BY <1>5, Zenon DEF ClearTrigger
    <2>2. c \in State /\ c.buffer = st.buffer /\ c.prepared = st.prepared
      BY Zenon, <2>1 DEF State
    <2> QED BY <2>2, Zenon
  <1>6. CASE p.type = "REDUNDANT"
    <2>1. c = WithBuffer(WithCount(st, st.count + p.k), <<>>)
      BY <1>6, Zenon DEF ClearTrigger
    <2>2. st.count + p.k \in Nat
      BY <1>6, PrimitiveFields DEF State
    <2>3. PICK y : y = WithCount(st, st.count + p.k)
      BY Zenon
    <2>4. y \in State /\ y.prepared = st.prepared
      BY <2>2, <2>3, Updates, Zenon
    <2> QED BY Zenon, <1>1, <2>1, <2>3, <2>4
  <1> QED BY <1>2, <1>3, <1>4, <1>5, <1>6, PrimitiveFields, Zenon

(* Handling a clear message keeps the types. *)
LEMMA HandleClearType ==
  ASSUME TypeOK, NEW n \in Nodes, HandleClear(n)
  PROVE  TypeOK'
  <1> DEFINE h == Head(upd[n])
             now(t) == IF t \in h.names
                       THEN ClearTrigger(Primitive[t], local[n][t], h.session)
                       ELSE local[n][t]
  <1>1. upd[n] \in Seq(ClearType) /\ upd[n] # <<>>
    BY Zenon DEF TypeOK, HandleClear
  <1>2. Tail(upd[n]) \in Seq(ClearType)
    BY <1>1, TailProperties, Zenon
  <1>3. upd' \in [Nodes -> Seq(ClearType)]
    BY <1>2, Zenon DEF HandleClear, TypeOK
  <1>4. ASSUME NEW t \in LocalNames PROVE now(t) \in State
    <2>1. local[n][t] \in State /\ t \in TriggerNames
      BY Zenon DEF TypeOK, LocalNames
    <2> QED BY Zenon, <2>1, ClearProperties
  <1>5. local' = [local EXCEPT ![n] = [t \in LocalNames |-> now(t)]]
    BY Zenon DEF HandleClear
  <1>6. [t \in LocalNames |-> now(t)] \in [LocalNames -> State]
    BY <1>4, Zenon
  <1>7. local' \in [Nodes -> [LocalNames -> State]]
    <2> HIDE DEF now
    <2> QED BY <1>5, <1>6, Zenon DEF TypeOK
  <1> QED BY <1>3, <1>7, Zenon DEF HandleClear, TypeOK

(* A clear message makes a node's copies forget; nothing else changes. *)
LEMMA ClearCopies ==
  ASSUME TypeOK, CopyInv, NEW n \in Nodes, HandleClear(n), Handled' = Handled
  PROVE  CopyInv'
  <1>1. ASSUME NEW t \in LocalNames, NEW session, NEW st \in State, KeysPrepared(t, st)
        PROVE  /\ Elements(ClearTrigger(Primitive[t], st, session).buffer) \subseteq Elements(st.buffer)
               /\ ClearTrigger(Primitive[t], st, session).prepared \subseteq st.prepared
               /\ KeysPrepared(t, ClearTrigger(Primitive[t], st, session))
    <2>1. t \in TriggerNames
      BY Zenon DEF LocalNames
    <2>2. PICK c : c = ClearTrigger(Primitive[t], st, session)
      BY Zenon
    <2>3. Elements(c.buffer) \subseteq Elements(st.buffer) /\ c.prepared \subseteq st.prepared
      BY <2>1, <2>2, ClearProperties, Zenon
    <2>4. KeysPrepared(t, c)
      BY <1>1, <2>3, Zenon DEF KeysPrepared
    <2> QED BY <2>2, <2>3, <2>4, Zenon
  <1>2. stored' = stored /\ coord' = coord
    BY Zenon DEF HandleClear
  <1>3. ASSUME NEW x \in Nodes, NEW t \in LocalNames
        PROVE  /\ Elements(local'[x][t].buffer) \cup local'[x][t].prepared \subseteq stored[x]
               /\ KeysPrepared(t, local'[x][t])
    <2>1. /\ local[x][t] \in State /\ KeysPrepared(t, local[x][t])
          /\ Elements(local[x][t].buffer) \cup local[x][t].prepared \subseteq stored[x]
      BY Zenon DEF TypeOK, CopyInv
    <2>2. \/ local'[x][t] = local[x][t]
          \/ \E session : local'[x][t] = ClearTrigger(Primitive[t], local[x][t], session)
      BY Zenon DEF HandleClear, TypeOK
    <2> QED BY <1>1, <2>1, <2>2, Zenon
  <1> QED BY <1>2, <1>3, Zenon DEF CopyInv, KeysPrepared

(* Everything the nodes and the coordinator maintain together. *)
IndInv == TypeOK /\ SyncInv /\ FiredObjectsSent

(* The invariant holds when nothing has been sent. *)
LEMMA InitInv == Init => IndInv
  <1> SUFFICES ASSUME Init PROVE IndInv
    BY Zenon
  <1>1. TypeOK
    BY InitType, Zenon
  <1>2. \A n \in Nodes : stored[n] = {} /\ notif[n] = <<>>
    BY Zenon DEF Init
  <1>3. Sent = {} /\ Handled = {}
    BY <1>2, Zenon DEF Sent, Handled
  <1>4. \A n \in Nodes : Queued(n) = {} /\ DOMAIN notif[n] = {}
    BY <1>2 DEF Queued
  <1>5. fired = {}
    BY Zenon DEF Init
  <1>6. ChannelInv
    BY <1>2, <1>4, Zenon DEF ChannelInv
  <1>7. NewTrigger.prepared = {} /\ Elements(NewTrigger.buffer) = {}
    BY EmptyBuffer, Zenon DEF NewTrigger
  <1>8. CopyInv
    BY <1>7, Zenon DEF Init, CopyInv, KeysPrepared
  <1>9. SingleInv /\ SetInv /\ WindowInv /\ FiredObjectsSent
    BY <1>4, <1>5, Zenon DEF SingleInv, SetInv, WindowInv, ConsumedOnce, FiredObjectsSent
  <1>10. WindowKeepsObjects
    BY <1>3, <1>5, <1>7, Zenon DEF WindowKeepsObjects, Init, TimedNames
  <1> QED BY <1>1, <1>6, <1>8, <1>9, <1>10, Zenon DEF IndInv, SyncInv

(* What SyncInv says of the firings of the safe primitives implies that none
   of them shares an object. *)
LEMMA InvImpliesOnce == IndInv => SafeTriggersConsumeOnce
  <1> SUFFICES ASSUME IndInv, NEW t \in TriggerNames, Primitive[t].type \in SafeTypes,
                      NEW f \in fired, NEW g \in fired, f.name = t, g.name = t, f # g
               PROVE  f.objs \cap g.objs = {}
    BY Zenon DEF SafeTriggersConsumeOnce, ConsumedOnce
  <1>1. CASE Primitive[t].type \in {"IMMEDIATE", "BY_NAME"}
    <2>1. \A h \in {f, g} : /\ h.at \in Nodes /\ h.cause \in stored[h.at]
                            /\ h = Firing(t, h.at, h.cause, {h.cause}, h.at, {})
                            /\ h.objs = {h.cause}
      BY <1>1 DEF IndInv, SyncInv, SingleInv, Firing
    <2>2. f.cause = g.cause => f.at = g.at
      BY <2>1, Zenon DEF IndInv, SyncInv, ChannelInv
    <2> QED BY <2>1, <2>2, Zenon
  <1>2. CASE Primitive[t].type = "BY_SET"
    <2>1. /\ f.objs = SetObjects(t, f.cause.session) /\ g.objs = SetObjects(t, g.cause.session)
          /\ f.cause.session # g.cause.session
      BY <1>2, Zenon DEF IndInv, SyncInv, SetInv
    <2> QED BY <2>1, Zenon DEF SetObjects, Obj
  <1>3. CASE Primitive[t].type = "BY_TIME"
    BY <1>3, Zenon DEF IndInv, SyncInv, WindowInv, ConsumedOnce, TimedNames, LocalNames
  <1> QED BY <1>1, <1>2, <1>3, Zenon DEF SafeTypes

-----------------------------------------------------------------------------
(* By-set triggers. *)

(* A by-set trigger's action in a pass over a place's copies: all objects of
   the session's set, the new one among them, the others prepared before. *)
LEMMA SetAction ==
  ASSUME NEW names \in SUBSET TriggerNames, NEW copies \in [names -> State], NEW o \in Objects,
         NEW N, NEW res, GoodCalls(names, copies, o, N, res),
         NEW t \in names, Primitive[t].type = "BY_SET", KeysPrepared(t, copies[t])
  PROVE  SetActions(t, copies[t], o, res[t])
  BY Zenon DEF GoodCalls, FitsType, SetResult

(* What SetInv says of one trigger, with the handled objects given. *)
SetFiring(t, f) ==
  /\ f.objs = SetObjects(t, f.cause.session) /\ f.cause \in f.objs
  /\ f.at = Coordinator => f.objs \subseteq Handled
  /\ f.at \in Nodes => f.objs \subseteq stored[f.at] /\ LastSaysActive(f.at, f.objs, t)

(* A node's evaluation keeps what SetInv says of by-set triggers. *)
LEMMA SendSet ==
  ASSUME TypeOK, ChannelInv, CopyInv, SetInv, FiredObjectsSent,
         NEW n \in Nodes, NEW o \in Objects, NEW res, NEW active, NEW msg,
         SendFacts(n, o, res, active, msg)
  PROVE  SetInv'
  <1> SUFFICES ASSUME NEW t \in TriggerNames, Primitive[t].type = "BY_SET"
               PROVE  /\ \A f \in fired' : f.name = t => SetFiring(t, f)'
                      /\ \A f, g \in fired' :
                           f.name = t /\ g.name = t /\ f.cause.session = g.cause.session => f = g
    BY Zenon DEF SetInv, SetFiring
  <1> DEFINE N == Len(notif[n])
  <1>1. /\ Handled' = Handled /\ o \notin Sent
        /\ \A x \in Nodes : stored[x] \subseteq stored'[x] /\ stored[x] \subseteq Sent
        /\ stored'[n] = stored[n] \cup {o}
        /\ DOMAIN notif[n] = 1..N /\ N \in Nat
        /\ DOMAIN notif'[n] = 1..(N + 1)
        /\ \A i \in 1..N : notif'[n][i] = notif[n][i]
        /\ notif'[n][N + 1] = msg
        /\ \A x \in Nodes : x # n => notif'[x] = notif[x]
    <2>1. /\ Handled' = Handled /\ o \notin Sent
          /\ \A x \in Nodes : stored[x] \subseteq stored'[x] /\ stored[x] \subseteq Sent
          /\ stored'[n] = stored[n] \cup {o}
      BY SendChannel, Zenon
    <2>2. /\ DOMAIN notif[n] = 1..N /\ N \in Nat
          /\ DOMAIN notif'[n] = 1..(N + 1)
      BY SendChannel, Zenon
    <2>3. /\ \A i \in 1..N : notif'[n][i] = notif[n][i]
          /\ notif'[n][N + 1] = msg
          /\ \A x \in Nodes : x # n => notif'[x] = notif[x]
      BY SendChannel
    <2> HIDE DEF N
    <2> QED BY Zenon, <2>1, <2>2, <2>3
  <1> HIDE DEF N
  <1>2. t \in LocalNames /\ LocalNames \in SUBSET TriggerNames
    BY Zenon DEF LocalNames
  <1>3. /\ local[n] \in [LocalNames -> State] /\ GoodCalls(LocalNames, local[n], o, active, res)
        /\ msg.obj = o /\ msg.active = active
        /\ KeysPrepared(t, local[n][t]) /\ local[n][t].prepared \subseteq stored[n]
    BY <1>2, Zenon DEF TypeOK, SendFacts, CopyInv
  <1>4. \A a \in res[t].actions :
           a = SetObjects(t, o.session) /\ o \in a /\ a \subseteq stored'[n]
    <2>1. PICK copies \in [LocalNames -> State] : copies = local[n]
      BY <1>3, Zenon
    <2>2. SetActions(t, copies[t], o, res[t])
      BY <1>2, <1>3, <2>1, SetAction, Zenon
    <2> QED BY <1>1, <1>3, <2>1, <2>2, Zenon DEF SetActions
  <1>5. \A f \in fired : f.name = t => o \notin f.objs
    BY <1>1, Zenon DEF FiredObjectsSent
  <1>6. \A f \in fired' : f.name = t /\ f \notin fired =>
          /\ t \in active /\ f.objs \in res[t].actions
          /\ f = Firing(t, n, o, f.objs, n, {}) /\ f.at = n /\ f.cause = o
    <2>1. \A f \in fired' : f.name = t /\ f \notin fired =>
             /\ t \in active /\ f.objs \in res[t].actions
             /\ f = Firing(t, n, o, f.objs, n, {})
      BY SendNewFiring
    <2> QED BY <2>1 DEF Firing
  <1>7. ASSUME NEW f \in fired', f.name = t PROVE SetFiring(t, f)'
    <2>1. CASE f \in fired
      <3>1. SetFiring(t, f)
        BY <1>7, <2>1, Zenon DEF SetInv, SetFiring
      <3>2. ASSUME f.at \in Nodes PROVE LastSaysActive(f.at, f.objs, t)'
        <4> SUFFICES ASSUME NEW i \in DOMAIN notif'[f.at], notif'[f.at][i].obj \in f.objs,
                            \A j \in DOMAIN notif'[f.at] : j > i => notif'[f.at][j].obj \notin f.objs
                     PROVE  t \in notif'[f.at][i].active
          BY Zenon DEF LastSaysActive
        <4>1. LastSaysActive(f.at, f.objs, t)
          BY <3>1, <3>2, Zenon DEF SetFiring
        <4>2. CASE f.at # n
          BY <1>1, <3>2, <4>1, <4>2, Zenon DEF LastSaysActive
        <4>3. CASE f.at = n
          <5>1. i # N + 1
            BY <1>1, <1>3, <1>5, <1>7, <2>1, <4>3, Zenon
          <5>2. i \in 1..N /\ notif'[n][i] = notif[n][i]
            <6>1. \A K \in Nat : \A j \in 1..(K + 1) : j # K + 1 => j \in 1..K
              OBVIOUS
            <6> QED BY Zenon, <1>1, <4>3, <5>1, <6>1
          <5>3. \A j \in DOMAIN notif[n] : j > i => notif[n][j].obj \notin f.objs
            <6>1. \A j \in 1..N : j \in 1..(N + 1)
              BY <1>1
            <6> QED BY <1>1, <4>3, <6>1, Zenon
          <5> QED BY <1>1, <4>1, <4>3, <5>2, <5>3, Zenon DEF LastSaysActive
        <4> QED BY <4>2, <4>3, Zenon
      <3> QED BY <1>1, <3>1, <3>2, Zenon DEF SetFiring, SetObjects
    <2>2. CASE f \notin fired
      <3>1. /\ t \in active /\ f.at = n /\ f.cause = o
            /\ f.objs = SetObjects(t, o.session) /\ o \in f.objs /\ f.objs \subseteq stored'[n]
        BY <1>4, <1>6, <1>7, <2>2, Zenon
      <3>2. LastSaysActive(n, f.objs, t)'
        <4> SUFFICES ASSUME NEW i \in DOMAIN notif'[n], notif'[n][i].obj \in f.objs,
                            \A j \in DOMAIN notif'[n] : j > i => notif'[n][j].obj \notin f.objs
                     PROVE  t \in notif'[n][i].active
          BY Zenon DEF LastSaysActive
        <4>1. N + 1 \in DOMAIN notif'[n] /\ notif'[n][N + 1].obj \in f.objs
          <5>1. \A K \in Nat : K + 1 \in 1..(K + 1)
            OBVIOUS
          <5> QED BY Zenon, <1>1, <1>3, <3>1, <5>1
        <4>2. ~(N + 1 > i)
          BY <4>1, Zenon
        <4>3. i = N + 1
          <5>1. \A K \in Nat : \A j \in 1..(K + 1) : ~(K + 1 > j) => j = K + 1
            OBVIOUS
          <5> QED BY Zenon, <1>1, <4>2, <5>1
        <4> QED BY <1>1, <1>3, <3>1, <4>3, Zenon
      <3>3. f.at # Coordinator
        BY <3>1, PlacesDistinct, Zenon
      <3> QED BY <3>1, <3>2, <3>3, Zenon DEF SetFiring, SetObjects
    <2> QED BY <2>1, <2>2, Zenon
  <1>8. ASSUME NEW f \in fired', NEW g \in fired', f.name = t, g.name = t,
               f.cause.session = g.cause.session
        PROVE  f = g
    <2>1. CASE f \in fired /\ g \in fired
      BY <1>8, <2>1, Zenon DEF SetInv
    <2>2. ASSUME NEW u \in fired', NEW v \in fired', u.name = t, v.name = t,
                 u.cause.session = v.cause.session, u \in fired, v \notin fired
          PROVE  FALSE
      <3>1. v.cause = o /\ o \in SetObjects(t, o.session)
        BY <1>4, <1>6, <2>2, Zenon
      <3>2. u.objs = SetObjects(t, u.cause.session)
        BY <2>2, Zenon DEF SetInv
      <3> QED BY <1>5, <2>2, <3>1, <3>2, Zenon
    <2>3. CASE f \notin fired /\ g \notin fired
      <3>1. f.objs = SetObjects(t, o.session) /\ g.objs = SetObjects(t, o.session)
        BY <1>4, <1>6, <1>8, <2>3, Zenon
      <3> QED BY <1>6, <1>8, <2>3, <3>1, Zenon
    <2> QED BY <1>8, <2>1, <2>2, <2>3, Zenon
  <1> QED BY <1>7, <1>8, Zenon

(* The coordinator does not repeat a node's firing: by the time all objects of
   a set are handled, the notification of the last of them has named t. *)
LEMMA NotifySet ==
  ASSUME TypeOK, ChannelInv, CopyInv, SetInv,
         NEW n \in Nodes, NEW m, NEW res, NEW fire, NotifyFacts(n, m, res, fire)
  PROVE  SetInv'
  <1> SUFFICES ASSUME NEW t \in TriggerNames, Primitive[t].type = "BY_SET"
               PROVE  /\ \A f \in fired' : f.name = t => SetFiring(t, f)'
                      /\ \A f, g \in fired' :
                           f.name = t /\ g.name = t /\ f.cause.session = g.cause.session => f = g
    BY Zenon DEF SetInv, SetFiring
  <1> DEFINE N == Len(notif[n])
  <1>1. PICK o \in Objects : o = m.obj
    BY NotifyChannel, Zenon
  <1>2. /\ Handled' = Handled \cup {o} /\ o \notin Handled /\ o \in stored[n]
        /\ DOMAIN notif[n] = 1..N /\ N \in Nat \ {0} /\ m = notif[n][1]
        /\ DOMAIN notif'[n] = 1..(N - 1)
        /\ \A i \in 1..(N - 1) : notif'[n][i] = notif[n][i + 1]
        /\ \A x \in Nodes : x # n => notif'[x] = notif[x]
    BY <1>1, NotifyChannel, Zenon
  <1> HIDE DEF N
  <1>3. /\ coord \in [TriggerNames -> State] /\ GoodCalls(TriggerNames, coord, o, fire, res)
        /\ stored' = stored /\ m.obj = o
        /\ fire = {x \in TriggerNames \ m.active : res[x].actions # {}}
        /\ KeysPrepared(t, coord[t]) /\ coord[t].prepared \subseteq Handled
    BY <1>1, Zenon DEF TypeOK, NotifyFacts, CopyInv
  <1>4. \A a \in res[t].actions : a = SetObjects(t, o.session) /\ o \in a /\ a \subseteq Handled'
    <2>1. SetActions(t, coord[t], o, res[t])
      BY <1>3, SetAction, Zenon
    <2> QED BY <1>2, <1>3, <2>1, Zenon DEF SetActions
  <1>5. ASSUME NEW f \in fired', f.name = t, f \notin fired
        PROVE  /\ t \in fire /\ f.at = Coordinator /\ f.cause = o
               /\ f.objs = SetObjects(t, o.session) /\ o \in f.objs /\ f.objs \subseteq Handled'
               /\ \A g \in fired' : g \notin fired /\ g.name = t /\ g.objs = f.objs => g = f
    <2>1. /\ f.name \in fire /\ f.objs \in res[f.name].actions
          /\ f.at = Coordinator /\ f.cause = m.obj
          /\ \A g \in fired' : g \notin fired /\ g.name = f.name /\ g.objs = f.objs => g = f
      BY <1>5, NotifyNewFiring, Zenon
    <2> QED BY <1>3, <1>4, <1>5, <2>1, Zenon
  <1>6. ASSUME NEW f \in fired', f.name = t PROVE SetFiring(t, f)'
    <2>1. CASE f \in fired
      <3>1. SetFiring(t, f)
        BY <1>6, <2>1, Zenon DEF SetInv, SetFiring
      <3>2. ASSUME f.at \in Nodes PROVE LastSaysActive(f.at, f.objs, t)'
        <4> SUFFICES ASSUME NEW i \in DOMAIN notif'[f.at], notif'[f.at][i].obj \in f.objs,
                            \A j \in DOMAIN notif'[f.at] : j > i => notif'[f.at][j].obj \notin f.objs
                     PROVE  t \in notif'[f.at][i].active
          BY Zenon DEF LastSaysActive
        <4>1. LastSaysActive(f.at, f.objs, t)
          BY <3>1, <3>2, Zenon DEF SetFiring
        <4>2. CASE f.at # n
          BY Zenon, <1>2, <3>2, <4>1, <4>2 DEF LastSaysActive
        <4>3. CASE f.at = n
          <5>1. i \in 1..(N - 1) /\ i + 1 \in 1..N /\ notif'[n][i] = notif[n][i + 1]
            BY <1>2, <4>3
          <5>2. ASSUME NEW j \in 1..N, j > i + 1 PROVE notif[n][j].obj \notin f.objs
            <6>1. j - 1 \in 1..(N - 1) /\ (j - 1) + 1 = j /\ j - 1 > i
              BY <1>2, <5>1, <5>2
            <6>2. notif'[n][j - 1] = notif[n][j]
              BY <1>2, <6>1
            <6> QED BY <1>2, <4>3, <6>1, <6>2, Zenon
          <5>3. notif[n][i + 1].obj \in f.objs
            BY <4>3, <5>1, Zenon
          <5>4. t \in notif[n][i + 1].active
            BY <1>2, <4>1, <4>3, <5>1, <5>2, <5>3, Zenon DEF LastSaysActive
          <5> QED BY <4>3, <5>1, <5>4, Zenon
        <4> QED BY <4>2, <4>3, Zenon
      <3> QED BY <1>2, <1>3, <3>1, <3>2, Zenon DEF SetFiring, SetObjects
    <2>2. CASE f \notin fired
      <3>1. /\ f.at = Coordinator /\ f.cause = o
            /\ f.objs = SetObjects(t, o.session) /\ o \in f.objs /\ f.objs \subseteq Handled'
        BY <1>5, <1>6, <2>2, Zenon
      <3>2. f.at \notin Nodes
        BY <3>1, PlacesDistinct, Zenon
      <3> QED BY <3>1, <3>2, Zenon DEF SetFiring, SetObjects
    <2> QED BY <2>1, <2>2, Zenon
  <1>7. ASSUME NEW u \in fired', NEW v \in fired', u.name = t, v.name = t,
               u.cause.session = v.cause.session, u \in fired, v \notin fired
        PROVE  FALSE
    <2>1. /\ t \in fire /\ v.cause = o /\ o \in v.objs
          /\ v.objs = SetObjects(t, o.session) /\ v.objs \subseteq Handled'
      BY <1>5, <1>7, Zenon
    <2>2. SetFiring(t, u) /\ u.objs = v.objs
      BY <1>7, <2>1, Zenon DEF SetInv, SetFiring
    <2>3. u.at \in Nodes \cup {Coordinator}
      BY <1>7, Zenon DEF TypeOK, FiringType, Places
    <2>4. CASE u.at = Coordinator
      BY <1>2, <2>1, <2>2, <2>4, Zenon DEF SetFiring
    <2>5. CASE u.at \in Nodes
      <3>1. u.objs \subseteq stored[u.at] /\ LastSaysActive(u.at, u.objs, t)
        BY <2>2, <2>5, Zenon DEF SetFiring
      <3>2. u.at = n
        BY <1>2, <2>1, <2>2, <2>5, <3>1, Zenon DEF ChannelInv
      <3>3. ASSUME NEW j \in DOMAIN notif[n], j > 1 PROVE notif[n][j].obj \notin u.objs
        <4>1. notif[n][j].obj \in Queued(n)
          BY Zenon DEF Queued
        <4>2. notif[n][j].obj \notin Handled
          BY <4>1, Zenon DEF Handled
        <4>3. 1 \in DOMAIN notif[n] /\ j # 1
          BY <1>2, <3>3
        <4>4. notif[n][j].obj # o
          BY <1>2, <1>3, <4>3, Zenon DEF ChannelInv
        <4> QED BY <1>2, <2>1, <2>2, <4>2, <4>4, Zenon
      <3>4. 1 \in DOMAIN notif[n] /\ notif[n][1].obj \in u.objs
        <4>1. \A K \in Nat \ {0} : 1 \in 1..K
          OBVIOUS
        <4> QED BY Zenon, <1>2, <1>3, <2>1, <2>2, <4>1
      <3>5. t \in notif[n][1].active
        BY <3>1, <3>2, <3>3, <3>4, Zenon DEF LastSaysActive
      <3> QED BY <1>2, <1>3, <2>1, <3>5, Zenon
    <2> QED BY <2>3, <2>4, <2>5, Zenon
  <1>8. ASSUME NEW f \in fired', NEW g \in fired', f.name = t, g.name = t,
               f.cause.session = g.cause.session
        PROVE  f = g
    <2>1. CASE f \in fired /\ g \in fired
      BY <1>8, <2>1, Zenon DEF SetInv
    <2>2. CASE f \notin fired /\ g \notin fired
      BY <1>5, <1>8, <2>2, Zenon
    <2> QED BY <1>7, <1>8, <2>1, <2>2, Zenon
  <1> QED BY <1>6, <1>8, Zenon

-----------------------------------------------------------------------------
(* The coordinator replays the evaluations of a node that sends all objects. *)

(* The evaluation of notification m takes a copy of t from st to next, and m
   names t as active exactly when it has an action. *)
Follows(t, st, next, m) ==
  LET r == ActionForNewObject(Primitive[t], st, m.obj, FALSE)
  IN  r.st = next /\ (t \in m.active <=> r.actions # {})

(* The notifications of node n in flight lead from the coordinator's copy of t
   to the node's. *)
Replays(n, t) ==
  \E ss \in [1..(Len(notif[n]) + 1) -> State] :
    /\ ss[1] = coord[t] /\ ss[Len(notif[n]) + 1] = local[n][t]
    /\ \A i \in 1..Len(notif[n]) : Follows(t, ss[i], ss[i + 1], notif[n][i])

(* The coordinator fires by-time triggers only, and clears nothing. *)
ReplayInv ==
  \A n \in Nodes : Sent = stored[n] =>
    /\ \A x \in Nodes : upd[x] = <<>>
    /\ \A f \in fired : f.name \in LocalNames => f.at = n
    /\ \A t \in LocalNames : Replays(n, t)

(* Only by-time triggers read the clock. *)
LEMMA DueIrrelevant ==
  ASSUME NEW t \in LocalNames, NEW st, NEW o, NEW d \in BOOLEAN
  PROVE  ActionForNewObject(Primitive[t], st, o, d) = ActionForNewObject(Primitive[t], st, o, FALSE)
  BY PrimitiveFields, Zenon DEF LocalNames, ActionForNewObject

(* Who sends when node n has sent everything. *)
LEMMA SenderOf ==
  ASSUME TypeOK, ChannelInv, NEW x \in Nodes, NEW o \in Objects, NEW res, NEW active, NEW msg,
         SendFacts(x, o, res, active, msg), NEW n \in Nodes, Sent' = stored'[n]
  PROVE  x = n /\ Sent = stored[n]
  <1>1. /\ Sent' = Sent \cup {o} /\ o \notin Sent /\ stored'[x] = stored[x] \cup {o}
        /\ stored[n] \subseteq Sent
    BY SendChannel, Zenon
  <1>2. x # n => stored'[n] = stored[n]
    BY Zenon DEF SendFacts, TypeOK
  <1> QED BY <1>1, <1>2, Zenon

(* Nobody else has anything in flight then. *)
LEMMA OthersSilent ==
  ASSUME TypeOK, ChannelInv, NEW n \in Nodes, Sent = stored[n], NEW x \in Nodes, x # n
  PROVE  notif[x] = <<>>
  <1>1. stored[x] = {}
    BY DEF Sent, ChannelInv
  <1>2. Queued(x) = {} /\ notif[x] \in Seq(Message)
    BY <1>1, Zenon DEF ChannelInv, TypeOK
  <1>3. notif[x] # <<>> => 1 \in DOMAIN notif[x]
    BY <1>2, TailProperties, Zenon
  <1> QED BY <1>2, <1>3, Zenon DEF Queued

(* The node's evaluation is one more step at the end of the replay. *)
LEMMA SendReplay ==
  ASSUME TypeOK, ChannelInv, ReplayInv, NEW x \in Nodes, NEW o \in Objects,
         NEW res, NEW active, NEW msg, SendFacts(x, o, res, active, msg)
  PROVE  ReplayInv'
  <1> SUFFICES ASSUME NEW n \in Nodes, Sent' = stored'[n]
               PROVE  /\ \A y \in Nodes : upd'[y] = <<>>
                      /\ \A f \in fired' : f.name \in LocalNames => f.at = n
                      /\ \A t \in LocalNames : Replays(n, t)'
    BY Zenon DEF ReplayInv
  <1>1. x = n /\ Sent = stored[n]
    BY SenderOf, Zenon
  <1>2. \A y \in Nodes : upd'[y] = <<>>
    BY <1>1, Zenon DEF ReplayInv, SendFacts
  <1>3. ASSUME NEW f \in fired', f.name \in LocalNames PROVE f.at = n
    <2>1. CASE f \in fired
      BY <1>1, <1>3, <2>1, Zenon DEF ReplayInv
    <2>2. CASE f \notin fired
      BY <1>1, <2>2, SendNewFiring DEF Firing
    <2> QED BY <2>1, <2>2, Zenon
  <1>4. ASSUME NEW t \in LocalNames PROVE Replays(n, t)'
    <2> DEFINE N == Len(notif[n])
    <2>1. PICK ss \in [1..(N + 1) -> State] :
            /\ ss[1] = coord[t] /\ ss[N + 1] = local[n][t]
            /\ \A i \in 1..N : Follows(t, ss[i], ss[i + 1], notif[n][i])
      BY <1>1, Zenon DEF ReplayInv, Replays
    <2>2. /\ N \in Nat /\ DOMAIN notif'[n] = 1..(N + 1)
          /\ \A i \in 1..N : notif'[n][i] = notif[n][i]
          /\ notif'[n][N + 1] = msg
      BY <1>1, SendChannel
    <2>3. Len(notif'[n]) = N + 1
      <3>1. notif[n] \in Seq(Message) /\ notif'[n] = Append(notif[n], msg) /\ msg \in Message
        BY <1>1, Zenon DEF TypeOK, SendFacts
      <3> QED BY <3>1
    <2>4. /\ local'[n][t] = res[t].st /\ coord' = coord /\ msg.obj = o
          /\ res[t].st \in State
          /\ t \in msg.active <=> res[t].actions # {}
      BY <1>1, Zenon DEF SendFacts, TypeOK, GoodCalls
    <2>5. res[t] = ActionForNewObject(Primitive[t], local[n][t], o, FALSE)
      <3>1. PICK d \in BOOLEAN : res[t] = ActionForNewObject(Primitive[t], local[n][t], o, d)
        BY <1>1, Zenon DEF SendFacts, GoodCalls
      <3> QED BY <3>1, DueIrrelevant, Zenon
    <2>6. Follows(t, local[n][t], res[t].st, msg)
      BY <2>4, <2>5, Zenon DEF Follows
    <2> HIDE DEF N
    <2> DEFINE tt == [i \in 1..(N + 2) |-> IF i = N + 2 THEN res[t].st ELSE ss[i]]
    <2>7. tt \in [1..(N + 2) -> State] /\ tt[1] = coord[t] /\ tt[N + 2] = res[t].st
      BY <2>1, <2>2, <2>4
    <2>8. ASSUME NEW i \in 1..(N + 1) PROVE Follows(t, tt[i], tt[i + 1], notif'[n][i])
      <3>1. CASE i = N + 1
        <4>1. tt[i] = ss[N + 1] /\ tt[i + 1] = res[t].st
          BY <2>2, <3>1
        <4> QED BY <2>1, <2>2, <2>6, <3>1, <4>1, Zenon
      <3>2. CASE i # N + 1
        <4>1. i \in 1..N /\ tt[i] = ss[i] /\ tt[i + 1] = ss[i + 1]
          BY <2>2, <3>2
        <4> QED BY <2>1, <2>2, <4>1, Zenon
      <3> QED BY <3>1, <3>2, Zenon
    <2>9. (N + 1) + 1 = N + 2
      BY <2>2
    <2> HIDE DEF tt
    <2>10. /\ tt \in [1..(Len(notif'[n]) + 1) -> State]
           /\ tt[1] = coord'[t] /\ tt[Len(notif'[n]) + 1] = local'[n][t]
           /\ \A i \in 1..Len(notif'[n]) : Follows(t, tt[i], tt[i + 1], notif'[n][i])
      BY <2>3, <2>4, <2>7, <2>8, <2>9, Zenon
    <2> QED BY <2>10, Zenon DEF Replays, Follows
  <1> QED BY <1>2, <1>3, <1>4, Zenon

(* The coordinator takes the first step of the replay; what it finds is what
   the node said, so it fires no trigger that the node evaluates. *)
LEMMA NotifyReplay ==
  ASSUME TypeOK, ChannelInv, ReplayInv, NEW x \in Nodes,
         NEW m, NEW res, NEW fire, NotifyFacts(x, m, res, fire)
  PROVE  ReplayInv'
  <1> SUFFICES ASSUME NEW n \in Nodes, Sent' = stored'[n]
               PROVE  /\ \A y \in Nodes : upd'[y] = <<>>
                      /\ \A f \in fired' : f.name \in LocalNames => f.at = n
                      /\ \A t \in LocalNames : Replays(n, t)'
    BY Zenon DEF ReplayInv
  <1> DEFINE N == Len(notif[n])
  <1>1. Sent = stored[n] /\ x = n
    <2>1. Sent = stored[n]
      BY NotifyChannel, Zenon DEF NotifyFacts
    <2> QED BY <2>1, OthersSilent, Zenon DEF NotifyFacts
  <1>2. /\ N \in Nat \ {0} /\ m = notif[n][1] /\ stored' = stored /\ local' = local
        /\ \A i \in 1..(N - 1) : notif'[n][i] = notif[n][i + 1]
    <2>1. stored' = stored /\ local' = local
      BY Zenon DEF NotifyFacts
    <2> QED BY <1>1, <2>1, NotifyChannel, Zenon
  <1>3. Len(notif'[n]) = N - 1
    <2>1. notif[n] \in Seq(Message) /\ notif'[n] = Tail(notif[n]) /\ notif[n] # <<>>
      BY <1>1, Zenon DEF TypeOK, NotifyFacts
    <2> QED BY <2>1
  <1> HIDE DEF N
  <1>4. ASSUME NEW t \in LocalNames
        PROVE  t \notin fire /\ Replays(n, t)'
    <2>1. PICK ss \in [1..(N + 1) -> State] :
            /\ ss[1] = coord[t] /\ ss[N + 1] = local[n][t]
            /\ \A i \in 1..N : Follows(t, ss[i], ss[i + 1], notif[n][i])
      BY <1>1, Zenon DEF ReplayInv, Replays, N
    <2>2. t \in TriggerNames
      BY Zenon DEF LocalNames
    <2>3. res[t] = ActionForNewObject(Primitive[t], coord[t], m.obj, FALSE)
      <3>1. PICK d \in BOOLEAN : res[t] = ActionForNewObject(Primitive[t], coord[t], m.obj, d)
        BY <2>2, Zenon DEF NotifyFacts, GoodCalls
      <3> QED BY <3>1, DueIrrelevant, Zenon
    <2>4. 1 \in 1..N /\ 1 + 1 = 2
      BY <1>2
    <2>5. Follows(t, coord[t], ss[2], m)
      BY <1>2, <2>1, <2>4, Zenon
    <2>6. res[t].st = ss[2] /\ (t \in m.active <=> res[t].actions # {})
      BY <2>3, <2>5, Zenon DEF Follows
    <2>7. t \notin fire
      BY <2>6, Zenon DEF NotifyFacts
    <2> DEFINE tt == [i \in 1..N |-> ss[i + 1]]
    <2>8. tt \in [1..N -> State] /\ tt[1] = res[t].st /\ tt[N] = local[n][t]
      <3>1. \A i \in 1..N : i + 1 \in 1..(N + 1)
        BY <1>2
      <3> QED BY <1>2, <2>1, <2>4, <2>6, <3>1
    <2>9. ASSUME NEW i \in 1..(N - 1) PROVE Follows(t, tt[i], tt[i + 1], notif'[n][i])
      <3>1. i \in 1..N /\ i + 1 \in 1..N
        BY <1>2
      <3>2. tt[i] = ss[i + 1] /\ tt[i + 1] = ss[(i + 1) + 1]
        BY <3>1, Zenon
      <3> HIDE DEF tt
      <3> QED BY <1>2, <2>1, <3>1, <3>2, Zenon
    <2>10. coord'[t] = res[t].st /\ (N - 1) + 1 = N
      BY <1>2, <2>2 DEF NotifyFacts
    <2> HIDE DEF tt
    <2>11. /\ tt \in [1..(Len(notif'[n]) + 1) -> State]
           /\ tt[1] = coord'[t] /\ tt[Len(notif'[n]) + 1] = local'[n][t]
           /\ \A i \in 1..Len(notif'[n]) : Follows(t, tt[i], tt[i + 1], notif'[n][i])
      BY <1>2, <1>3, <2>8, <2>9, <2>10, Zenon
    <2> QED BY <2>7, <2>11, Zenon DEF Replays, Follows
  <1>5. fire \subseteq TimedNames
    BY <1>4, Zenon DEF NotifyFacts, TimedNames
  <1>6. \A y \in Nodes : upd'[y] = <<>>
    BY <1>1, <1>5, Zenon DEF NotifyFacts, ReplayInv
  <1>7. ASSUME NEW f \in fired', f.name \in LocalNames PROVE f.at = n
    <2>1. f \in fired
      BY <1>5, <1>7, NotifyNewFiring, Zenon DEF TimedNames
    <2> QED BY <1>1, <1>7, <2>1, Zenon DEF ReplayInv
  <1> QED BY <1>4, <1>6, <1>7, Zenon

-----------------------------------------------------------------------------
(* Triggers that collect objects, on a node that sends them all. *)

(* Batch and redundant triggers collect objects in a buffer. *)
BufferTypes == {"BY_BATCH_SIZE", "REDUNDANT"}

(* The members of a result. *)
LEMMA ResultFields ==
  ASSUME NEW st, NEW actions
  PROVE  Result(st, actions).st = st /\ Result(st, actions).actions = actions
  BY Zenon DEF Result

(* They hand out what is buffered and the new object, and then the buffer is
   empty. *)
LEMMA BufferAction ==
  ASSUME NEW t \in TriggerNames, Primitive[t].type \in BufferTypes, NEW st \in State,
         NEW o \in Objects, NEW due \in BOOLEAN,
         NEW r, r = ActionForNewObject(Primitive[t], st, o, due)
  PROVE  /\ r.actions \subseteq {Elements(st.buffer) \cup {o}}
         /\ r.actions # {} => Elements(r.st.buffer) = {}
         /\ Elements(r.st.buffer) \subseteq Elements(st.buffer) \cup {o}
  <1> DEFINE q == Append(st.buffer, o)
  <1>1. q \in Seq(Objects) /\ Elements(q) = Elements(st.buffer) \cup {o}
    BY AppendElements DEF State
  <1>2. <<>> \in Seq(Objects) /\ Elements(<<>>) = {}
    BY EmptyBuffer, Zenon
  <1>3. CASE Primitive[t].type = "BY_BATCH_SIZE"
    <2>1. r = ByBatchSizeAction(Primitive[t], st, o)
      BY <1>3, Zenon DEF ActionForNewObject
    <2>2. \/ r = Result(WithBuffer(st, <<>>), {Elements(q)})
          \/ r = Result(WithBuffer(st, q), {})
      BY <2>1, Zenon DEF ByBatchSizeAction
    <2>3. WithBuffer(st, <<>>).buffer = <<>> /\ WithBuffer(st, q).buffer = q
      BY <1>1, <1>2, Updates, Zenon
    <2> HIDE DEF q
    <2>4. \/ r.st = WithBuffer(st, <<>>) /\ r.actions = {Elements(q)}
          \/ r.st = WithBuffer(st, q) /\ r.actions = {}
      BY <2>2, ResultFields
    <2> QED BY <1>1, <1>2, <2>3, <2>4, Zenon
  <1>4. CASE Primitive[t].type = "REDUNDANT"
    <2> DEFINE c == st.count + 1
    <2>1. r = RedundantAction(Primitive[t], st, o)
      BY <1>4, Zenon DEF ActionForNewObject
    <2>2. \/ r = Result(WithBuffer(WithCount(st, c), <<>>), {Elements(q)})
          \/ r = Result(WithBuffer(WithCount(st, c), q), {})
          \/ r = Result(WithCount(st, IF c >= Primitive[t].n THEN 0 ELSE c), {})
      BY <2>1, Zenon DEF RedundantAction
    <2>3. c \in Nat
      BY DEF State
    <2> HIDE DEF c, q
    <2>5. \/ r.st = WithBuffer(WithCount(st, c), <<>>) /\ r.actions = {Elements(q)}
          \/ r.st = WithBuffer(WithCount(st, c), q) /\ r.actions = {}
          \/ (\E e \in Nat : r.st = WithCount(st, e)) /\ r.actions = {}
      <3>1. (IF c >= Primitive[t].n THEN 0 ELSE c) \in Nat
        BY <2>3, Zenon
      <3> QED BY <2>2, <3>1, ResultFields
    <2>4. /\ WithBuffer(WithCount(st, c), <<>>).buffer = <<>>
          /\ WithBuffer(WithCount(st, c), q).buffer = q
          /\ \A e \in Nat : WithCount(st, e).buffer = st.buffer
      BY <1>1, <1>2, <2>3, Updates, Zenon
    <2> QED BY <1>1, <1>2, <2>4, <2>5, Zenon
  <1> QED BY <1>3, <1>4, Zenon DEF BufferTypes

(* What the node has handed out is not in its buffers any more; a trigger with
   one control key fires once per session. *)
ConsumeInv ==
  \A n \in Nodes : Sent = stored[n] =>
    /\ \A t \in TriggerNames : Primitive[t].type \in BufferTypes =>
         /\ \A f \in fired : f.name = t => f.objs \cap Elements(local[n][t].buffer) = {}
         /\ ConsumedOnce(t)
    /\ \A t \in TriggerNames : OneControlKey(t) =>
         /\ local[n][t].control = {}
         /\ \A f \in fired : f.name = t =>
              /\ f.cause \in Sent /\ f.cause.key \in Primitive[t].control_group
              /\ \A p \in f.objs : p.session = f.cause.session
         /\ \A f, g \in fired :
              f.name = t /\ g.name = t /\ f # g /\ f.cause = g.cause => f.objs \cap g.objs = {}
(* A node's evaluation hands out nothing that was handed out before. *)
LEMMA SendConsume ==
  ASSUME IndInv, ConsumeInv, NEW x \in Nodes, NEW o \in Objects,
         NEW res, NEW active, NEW msg, SendFacts(x, o, res, active, msg)
  PROVE  ConsumeInv'
  <1> SUFFICES ASSUME NEW n \in Nodes, Sent' = stored'[n], NEW t \in TriggerNames
               PROVE  /\ Primitive[t].type \in BufferTypes =>
                           /\ \A f \in fired' : f.name = t =>
                                f.objs \cap Elements(local'[n][t].buffer) = {}
                           /\ ConsumedOnce(t)'
                      /\ OneControlKey(t) =>
                           /\ local'[n][t].control = {}
                           /\ \A f \in fired' : f.name = t =>
                                /\ f.cause \in Sent' /\ f.cause.key \in Primitive[t].control_group
                                /\ \A p \in f.objs : p.session = f.cause.session
                           /\ \A f, g \in fired' :
                                f.name = t /\ g.name = t /\ f # g /\ f.cause = g.cause
                                  => f.objs \cap g.objs = {}
    BY DEF ConsumeInv, OneControlKey
  <1>1. x = n /\ Sent = stored[n]
    BY SenderOf, Zenon DEF IndInv, SyncInv
  <1>2. Sent' = Sent \cup {o} /\ o \notin Sent
    BY SendChannel, Zenon DEF IndInv, SyncInv
  <1>3. ASSUME t \in LocalNames
        PROVE  /\ local'[n][t] = res[t].st /\ local[n][t] \in State
               /\ \E due \in BOOLEAN : res[t] = ActionForNewObject(Primitive[t], local[n][t], o, due)
               /\ OneControlKey(t) /\ local[n][t].control = {} => GroupResult(t, o, res[t])
    <2>1. /\ local'[n] = [u \in LocalNames |-> res[u].st] /\ local[n] \in [LocalNames -> State]
          /\ GoodCalls(LocalNames, local[n], o, active, res)
      BY <1>1, Zenon DEF SendFacts, IndInv, TypeOK
    <2> QED BY <1>3, <2>1, Zenon DEF GoodCalls, FitsType
  <1>4. ASSUME NEW f \in fired', f \notin fired, f.name = t
        PROVE  /\ f.objs \in res[t].actions /\ f.cause = o
               /\ f = Firing(t, n, o, f.objs, n, {})
    BY <1>1, <1>4, SendNewFiring DEF Firing
  <1>5. CASE Primitive[t].type \in BufferTypes
    <2> DEFINE B == Elements(local[n][t].buffer)
               C == Elements(local'[n][t].buffer)
    <2>1. t \in LocalNames
      BY <1>5, Zenon DEF LocalNames, BufferTypes
    <2>2. /\ res[t].actions \subseteq {B \cup {o}} /\ C \subseteq B \cup {o}
          /\ res[t].actions # {} => C = {}
      <3>1. PICK due \in BOOLEAN : res[t] = ActionForNewObject(Primitive[t], local[n][t], o, due)
        BY <1>3, <2>1, Zenon
      <3>2. /\ res[t].actions \subseteq {B \cup {o}}
            /\ res[t].actions # {} => Elements(res[t].st.buffer) = {}
            /\ Elements(res[t].st.buffer) \subseteq B \cup {o}
        <4>1. PICK st \in State : st = local[n][t]
          BY <1>3, <2>1, Zenon
        <4>2. PICK r : r = res[t]
          BY Zenon
        <4>3. /\ r.actions \subseteq {Elements(st.buffer) \cup {o}}
              /\ r.actions # {} => Elements(r.st.buffer) = {}
              /\ Elements(r.st.buffer) \subseteq Elements(st.buffer) \cup {o}
          BY <1>5, <3>1, <4>1, <4>2, BufferAction
        <4> QED BY <4>1, <4>2, <4>3, Zenon
      <3> QED BY <1>3, <2>1, <3>2, Zenon
    <2>3. \A f \in fired : f.name = t => f.objs \cap B = {} /\ o \notin f.objs
      BY <1>1, <1>2, <1>5, Zenon DEF ConsumeInv, IndInv, FiredObjectsSent, BufferTypes
    <2> HIDE DEF B, C
    <2>4. ASSUME NEW f \in fired', f.name = t PROVE f.objs \cap C = {}
      <3>1. CASE f \in fired
        BY <2>2, <2>3, <2>4, <3>1, Zenon
      <3>2. CASE f \notin fired
        BY <1>4, <2>2, <2>4, <3>2, Zenon
      <3> QED BY <3>1, <3>2, Zenon
    <2>5. ASSUME NEW f \in fired', NEW g \in fired', f.name = t, g.name = t, f \notin fired, f # g
          PROVE  f.objs \cap g.objs = {}
      <3>1. f.objs = B \cup {o} /\ f = Firing(t, n, o, f.objs, n, {})
        BY <1>4, <2>2, <2>5, Zenon
      <3>2. CASE g \in fired
        BY <2>3, <2>5, <3>1, <3>2, Zenon
      <3>3. CASE g \notin fired
        <4>1. g.objs = B \cup {o} /\ g = Firing(t, n, o, g.objs, n, {})
          BY <1>4, <2>2, <2>5, <3>3, Zenon
        <4> QED BY <2>5, <3>1, <4>1, Zenon
      <3> QED BY <3>2, <3>3, Zenon
    <2>6. ConsumedOnce(t)
      BY <1>1, <1>5, Zenon DEF ConsumeInv
    <2>7. ConsumedOnce(t)'
      BY <2>5, <2>6, Zenon DEF ConsumedOnce
    <2> QED BY <1>5, <2>4, <2>7, Zenon DEF C, BufferTypes, OneControlKey
  <1>6. CASE OneControlKey(t)
    <2>1. t \in LocalNames
      BY <1>6, Zenon DEF LocalNames, OneControlKey
    <2>2. /\ local[n][t].control = {}
          /\ \A f \in fired : f.name = t =>
               /\ f.cause \in Sent /\ f.cause.key \in Primitive[t].control_group
               /\ \A p \in f.objs : p.session = f.cause.session
          /\ \A f, g \in fired :
               f.name = t /\ g.name = t /\ f # g /\ f.cause = g.cause => f.objs \cap g.objs = {}
      BY <1>1, <1>6, Zenon DEF ConsumeInv
    <2>3. /\ local'[n][t].control = {}
          /\ res[t].actions # {} => o.key \in Primitive[t].control_group
          /\ \A a \in res[t].actions : \A p \in a : p.session = o.session
          /\ \A a, b \in res[t].actions : a # b => a \cap b = {}
      BY <1>3, <1>6, <2>1, <2>2, Zenon DEF GroupResult
    <2>4. ASSUME NEW f \in fired', f.name = t
          PROVE  /\ f.cause \in Sent' /\ f.cause.key \in Primitive[t].control_group
                 /\ \A p \in f.objs : p.session = f.cause.session
      <3>1. CASE f \in fired
        BY <1>2, <2>2, <2>4, <3>1, Zenon
      <3>2. CASE f \notin fired
        BY <1>2, <1>4, <2>3, <2>4, <3>2
      <3> QED BY <3>1, <3>2
    <2>5. ASSUME NEW f \in fired', NEW g \in fired', f.name = t, g.name = t, f # g, f.cause = g.cause
          PROVE  f.objs \cap g.objs = {}
      <3>1. CASE f \in fired /\ g \in fired
        BY <2>2, <2>5, <3>1, Zenon
      <3>2. CASE f \notin fired /\ g \notin fired
        <4>1. /\ f.objs \in res[t].actions /\ f = Firing(t, n, o, f.objs, n, {})
              /\ g.objs \in res[t].actions /\ g = Firing(t, n, o, g.objs, n, {})
          BY <1>4, <2>5, <3>2, Zenon
        <4>2. f.objs # g.objs
          BY <2>5, <4>1, Zenon
        <4> QED BY <2>3, <4>1, <4>2, Zenon
      <3>3. \A h \in fired : h.name = t => h.cause # o
        BY <1>2, <2>2, Zenon
      <3> QED BY <1>4, <2>5, <3>1, <3>2, <3>3, Zenon
    <2> QED BY <1>6, <2>3, <2>4, <2>5, Zenon DEF BufferTypes, OneControlKey
  <1> QED BY <1>5, <1>6, Zenon

(* The coordinator adds no firing of a trigger that the node evaluates. *)
LEMMA NotifyConsume ==
  ASSUME IndInv, ReplayInv, ConsumeInv, NEW x \in Nodes,
         NEW m, NEW res, NEW fire, NotifyFacts(x, m, res, fire)
  PROVE  ConsumeInv'
  <1>1. stored' = stored /\ local' = local /\ Sent' = Sent
    BY Zenon DEF NotifyFacts, Sent
  <1>2. ASSUME NEW n \in Nodes, Sent = stored[n], NEW f \in fired', f.name \in LocalNames
        PROVE  f \in fired
    <2>1. ReplayInv'
      BY NotifyReplay, Zenon DEF IndInv, SyncInv
    <2>2. f.at \in Nodes
      BY <1>1, <1>2, <2>1, Zenon DEF ReplayInv
    <2> QED BY <1>2, <2>2, NotifyNewFiring, PlacesDistinct, Zenon
  <1>3. \A t \in TriggerNames :
          Primitive[t].type \in BufferTypes \/ OneControlKey(t) => t \in LocalNames
    BY Zenon DEF BufferTypes, OneControlKey, LocalNames
  <1>4. fired \subseteq fired'
    BY Zenon DEF NotifyFacts, Dispatched
  <1> QED BY <1>1, <1>2, <1>3, <1>4 DEF ConsumeInv, ConsumedOnce, OneControlKey

(* Steps that leave the objects, the copies, the channels and the firings alone. *)
LEMMA QuietSender ==
  ASSUME ReplayInv, ConsumeInv, stored' = stored, local' = local, notif' = notif, coord' = coord,
         upd' = upd, fired' = fired
  PROVE  ReplayInv' /\ ConsumeInv'
  <1>1. Sent' = Sent
    BY Zenon DEF Sent
  <1>2. ASSUME NEW n \in Nodes, NEW t \in LocalNames PROVE Replays(n, t)' <=> Replays(n, t)
    BY Zenon DEF Replays
  <1>3. \A t \in TriggerNames : ConsumedOnce(t)' <=> ConsumedOnce(t)
    BY Zenon DEF ConsumedOnce
  <1>4. ReplayInv'
    BY <1>1, <1>2, Zenon DEF ReplayInv
  <1>5. ConsumeInv'
    BY <1>1, <1>3 DEF ConsumeInv, OneControlKey
  <1> QED BY <1>4, <1>5, Zenon

(* Nothing is in flight initially, and all copies are new. *)
LEMMA InitSender == Init => ReplayInv /\ ConsumeInv
  <1> SUFFICES ASSUME Init PROVE ReplayInv /\ ConsumeInv
    BY Zenon
  <1>1. NewTrigger \in State /\ NewTrigger.control = {}
    BY EmptyBuffer, Zenon DEF NewTrigger, State
  <1>2. ASSUME NEW n \in Nodes, NEW t \in LocalNames PROVE Replays(n, t)
    <2>1. /\ notif[n] = <<>> /\ Len(notif[n]) = 0
          /\ coord[t] = NewTrigger /\ local[n][t] = NewTrigger
      BY Zenon DEF Init, LocalNames
    <2> DEFINE ss == [i \in 1..1 |-> NewTrigger]
    <2>2. ss \in [1..(0 + 1) -> State] /\ ss[1] = NewTrigger /\ ss[0 + 1] = NewTrigger
      BY <1>1
    <2>3. \A i \in 1..0 : FALSE
      OBVIOUS
    <2> HIDE DEF ss
    <2> QED BY <2>1, <2>2, <2>3, Zenon DEF Replays
  <1>3. fired = {} /\ \A n \in Nodes : upd[n] = <<>>
    BY Zenon DEF Init
  <1>4. \A n \in Nodes, t \in TriggerNames : OneControlKey(t) => local[n][t].control = {}
    BY <1>1, Zenon DEF Init, OneControlKey, LocalNames
  <1> QED BY <1>2, <1>3, <1>4, Zenon DEF ReplayInv, ConsumeInv, ConsumedOnce

(* The results of an evaluation. *)

(* A by-set trigger fires with the whole set of the new object's session. *)
LEMMA BySetFires ==
  ASSUME NEW t \in TriggerNames, Primitive[t].type = "BY_SET",
         NEW st \in State, NEW o \in Objects, NEW due \in BOOLEAN, KeysPrepared(t, st),
         NEW r, r = ActionForNewObject(Primitive[t], st, o, due)
  PROVE  SetResult(t, st, o, r)
  <1> DEFINE p == Primitive[t]
             prep == st.prepared \cup {o}
             ready == {q.key : q \in {q \in prep : q.session = o.session}}
             rest == {q \in prep : q.session # o.session}
  <1>1. r = BySetAction(p, st, o)
    BY Zenon DEF ActionForNewObject
  <1>2. IsFiniteSet(p.key_set)
    BY PrimitiveFields, Zenon
  <1>3. prep \in SUBSET Objects /\ rest \in SUBSET Objects /\ rest \subseteq prep
    BY DEF State
  <1>4. CASE o.key \notin p.key_set
    BY <1>1, <1>4 DEF BySetAction, Result, SetResult, SetActions
  <1>5. CASE o.key \in p.key_set /\ Cardinality(ready) = Cardinality(p.key_set)
    <2>1. r = Result(WithPrepared(st, rest), {SetObjects(t, o.session)})
      BY <1>1, <1>5, Zenon DEF BySetAction, SetObjects
    <2>2. ready \subseteq p.key_set
      BY <1>5, Zenon DEF KeysPrepared
    <2>3. ready = p.key_set
      BY <1>2, <1>5, <2>2, FS_Subset, Zenon
    <2>4. \A q \in Objects : q = Obj(q.session, q.key)
      BY DEF Objects, Obj
    <2>5. SetObjects(t, o.session) \subseteq prep
      <3> SUFFICES ASSUME NEW k \in p.key_set PROVE Obj(o.session, k) \in prep
        BY Zenon DEF SetObjects
      <3>1. PICK q \in prep : q.session = o.session /\ q.key = k
        BY <2>3, Zenon
      <3> QED BY <3>1, <2>4, <1>3
    <2>6. o \in SetObjects(t, o.session)
      BY <1>5, <2>4 DEF SetObjects
    <2>7. r.st = WithPrepared(st, rest) /\ r.actions = {SetObjects(t, o.session)}
      BY <2>1 DEF Result
    <2>8. r.st.buffer = st.buffer /\ r.st.prepared = rest
      BY <2>7, <1>3, Updates
    <2>9. \A q \in prep : q.key \in p.key_set
      BY <1>5, Zenon DEF KeysPrepared
    <2> QED BY <2>5, <2>6, <2>7, <2>8, <2>9, <1>3 DEF KeysPrepared, SetResult, SetActions
  <1>6. CASE o.key \in p.key_set /\ Cardinality(ready) # Cardinality(p.key_set)
    <2>1. r = Result(WithPrepared(st, prep), {})
      BY <1>1, <1>6, Zenon DEF BySetAction
    <2>2. r.st = WithPrepared(st, prep) /\ r.actions = {}
      BY <2>1 DEF Result
    <2>3. r.st.buffer = st.buffer /\ r.st.prepared = prep
      BY <2>2, <1>3, Updates
    <2> QED BY Zenon, <2>2, <2>3, <1>6 DEF KeysPrepared, SetResult, SetActions
  <1> QED BY <1>4, <1>5, <1>6

(* The action of a dynamic-group trigger with one control key. *)
LEMMA GroupAction ==
  ASSUME NEW t \in TriggerNames, OneControlKey(t), NEW st \in State, st.control = {},
         NEW o \in Objects, NEW due \in BOOLEAN,
         NEW r, r = ActionForNewObject(Primitive[t], st, o, due)
  PROVE  GroupResult(t, o, r)
  <1> DEFINE p == Primitive[t]
             control == IF o.key \in p.control_group THEN st.control \cup {o.key} ELSE st.control
             groups  == {{k \in st.data : p.group[k] = p.group[d]} : d \in st.data}
             calls   == {{Obj(o.session, k) : k \in g} : g \in groups}
  <1>1. r = DynamicGroupAction(p, st, o)
    BY Zenon DEF ActionForNewObject, OneControlKey
  <1>2. o.key \in p.control_group => Cardinality(control) = 1
    BY FS_Singleton, Zenon
  <1>3. o.key \notin p.control_group => Cardinality(control) = 0
    BY FS_EmptySet, Zenon
  <1>4. \/ r = Result([st EXCEPT !.data = st.data \cup {o.key}], {})
        \/ o.key \in p.control_group /\ r = Result([st EXCEPT !.data = {}, !.control = {}], calls)
        \/ o.key \notin p.control_group /\ r = Result([st EXCEPT !.control = control], {})
    <2>1. Cardinality(p.control_group) = 1
      BY DEF OneControlKey
    <2>2. CASE p.group[o.key] # "ctrl"
      BY <1>1, <2>2 DEF DynamicGroupAction
    <2>3. CASE p.group[o.key] = "ctrl" /\ Cardinality(control) = 1
      <3>1. r = Result([st EXCEPT !.data = {}, !.control = {}], calls)
        BY Zenon, <1>1, <2>1, <2>3 DEF DynamicGroupAction
      <3>2. o.key \in p.control_group
        BY <1>3, <2>3
      <3> HIDE DEF control, calls
      <3> QED BY Zenon, <3>1, <3>2
    <2>4. CASE p.group[o.key] = "ctrl" /\ Cardinality(control) # 1
      <3>1. r = Result([st EXCEPT !.control = control], {})
        BY Zenon, <1>1, <2>1, <2>4 DEF DynamicGroupAction
      <3>2. o.key \notin p.control_group
        BY <1>2, <2>4, Zenon
      <3> HIDE DEF control, calls
      <3> QED BY Zenon, <3>1, <3>2
    <2> QED BY <2>2, <2>3, <2>4, Zenon
  <1>5. \A a \in calls : \A x \in a : x.session = o.session
    BY DEF Obj
  <1>6. \A g, h \in groups : g # h => g \cap h = {}
    BY Zenon
  <1>7. \A a, b \in calls : a # b => a \cap b = {}
    <2> HIDE DEF groups
    <2> SUFFICES ASSUME NEW a \in calls, NEW b \in calls, NEW x \in a \cap b PROVE a = b
      BY Zenon
    <2>1. PICK g \in groups, h \in groups :
            a = {Obj(o.session, k) : k \in g} /\ b = {Obj(o.session, k) : k \in h}
      BY Zenon
    <2>2. PICK k \in g, l \in h : x = Obj(o.session, k) /\ x = Obj(o.session, l)
      BY <2>1, Zenon
    <2>3. k = l
      BY <2>2 DEF Obj
    <2> QED BY <1>6, <2>1, <2>2, <2>3, Zenon
  <1>8. o.key \notin p.control_group => control = {}
    BY Zenon
  <1> HIDE DEF calls, control
  <1>9. \/ r.st = [st EXCEPT !.data = st.data \cup {o.key}] /\ r.actions = {}
        \/ /\ o.key \in p.control_group /\ r.actions = calls
           /\ r.st = [st EXCEPT !.data = {}, !.control = {}]
        \/ o.key \notin p.control_group /\ r.st = [st EXCEPT !.control = control] /\ r.actions = {}
    BY <1>4, ResultFields
  <1>10. r.st.control = {}
    BY <1>8, <1>9, Zenon DEF State
  <1> QED BY <1>5, <1>7, <1>9, <1>10, Zenon DEF GroupResult

(* A trigger makes finitely many actions for an object. *)
LEMMA FiniteActions ==
  ASSUME NEW t \in TriggerNames, NEW st \in State, NEW o \in Objects, NEW due \in BOOLEAN
  PROVE  IsFiniteSet(ActionForNewObject(Primitive[t], st, o, due).actions)
  <1> DEFINE p == Primitive[t]
             r == ActionForNewObject(p, st, o, due)
  <1>1. \A x : IsFiniteSet({x}) /\ IsFiniteSet({})
    BY FS_EmptySet, FS_Singleton, Zenon
  <1>2. CASE p.type = "DYNAMIC_GROUP"
    <2> DEFINE groupOf(d) == {k \in st.data : p.group[k] = p.group[d]}
               act(d) == {Obj(o.session, k) : k \in groupOf(d)}
               T == {act(d) : d \in st.data}
               f == [d \in st.data |-> act(d)]
    <2>1. r = DynamicGroupAction(p, st, o)
      BY <1>2, Zenon DEF ActionForNewObject
    <2>2. IsFiniteSet(st.data)
      BY FiniteNames, FS_Subset DEF State
    <2>3. f \in Surjection(st.data, T)
      BY Zenon DEF Surjection
    <2>4. IsFiniteSet(T)
      <3> HIDE DEF T, f
      <3> QED BY <2>2, <2>3, FS_Surjection, Zenon
    <2>5. T = {{Obj(o.session, k) : k \in g} : g \in {groupOf(d) : d \in st.data}}
      BY Zenon
    <2>6. \E x : r = Result(x, {}) \/ r = Result(x, T)
      BY Zenon, <2>1, <2>5 DEF DynamicGroupAction
    <2>7. r.actions = {} \/ r.actions = T
      BY <2>6 DEF Result
    <2> QED BY Zenon, <1>1, <2>4, <2>7
  <1>3. CASE p.type # "DYNAMIC_GROUP"
    <2>1. r.actions = {} \/ \E a : r.actions = {a}
      <3>1. CASE p.type = "IMMEDIATE"
        BY Zenon, <3>1 DEF ActionForNewObject, ImmediateAction, Result
      <3>2. CASE p.type = "BY_NAME"
        BY Zenon, <3>2 DEF ActionForNewObject, ByNameAction, Result
      <3>3. CASE p.type = "BY_BATCH_SIZE"
        <4>1. r = ByBatchSizeAction(p, st, o)
          BY <3>3, Zenon DEF ActionForNewObject
        <4>2. \E x : r = Result(x, {}) \/ r = Result(x, {Elements(Append(st.buffer, o))})
          BY <4>1, Zenon DEF ByBatchSizeAction
        <4> QED BY <4>2 DEF Result
      <3>4. CASE p.type = "BY_SET"
        <4>1. r = BySetAction(p, st, o)
          BY <3>4, Zenon DEF ActionForNewObject
        <4>2. \E x : r = Result(x, {}) \/ r = Result(x, {SetObjects(t, o.session)})
          BY Zenon, <4>1 DEF BySetAction, SetObjects
        <4>3. \A x, y : Result(x, y).actions = y
          BY Zenon DEF Result
        <4> HIDE DEF r
        <4> QED BY <4>2, <4>3
      <3>5. CASE p.type = "REDUNDANT"
        <4>1. r = RedundantAction(p, st, o)
          BY <3>5, Zenon DEF ActionForNewObject
        <4>2. \E x : r = Result(x, {}) \/ r = Result(x, {Elements(Append(st.buffer, o))})
          BY <4>1, Zenon DEF RedundantAction
        <4> QED BY <4>2 DEF Result
      <3>6. CASE p.type = "BY_TIME"
        BY Zenon, <3>6, ByTimeFires DEF WindowResult
      <3>7. p.type \in {"IMMEDIATE", "BY_NAME", "BY_BATCH_SIZE", "BY_SET", "REDUNDANT", "BY_TIME"}
        BY <1>3, PrimitiveFields, Zenon
      <3> HIDE DEF r
      <3> QED BY <3>1, <3>2, <3>3, <3>4, <3>5, <3>6, <3>7, Zenon
    <2> QED BY Zenon, <1>1, <2>1
  <1> QED BY <1>2, <1>3, Zenon

(* The calls of a pass are those of the evaluated triggers, each once. *)
LEMMA CallsProperties ==
  ASSUME NEW names \in SUBSET TriggerNames, NEW copies \in [names -> State],
         NEW o \in Objects, NEW due,
         NEW N \in SUBSET names, NEW res, res = Evaluate(names, copies, o, due)
  PROVE  GoodCalls(names, copies, o, N, res)
  <1>1. \A t \in names : res[t] = ActionForNewObject(Primitive[t], copies[t], o, t \in due)
    BY Zenon DEF Evaluate
  <1>2. ASSUME NEW t \in names
        PROVE  /\ \E d \in BOOLEAN : res[t] = ActionForNewObject(Primitive[t], copies[t], o, d)
               /\ res[t].st \in State /\ res[t].actions \subseteq SUBSET Objects
               /\ IsFiniteSet(res[t].actions)
               /\ FitsType(t, copies[t], o, res[t])
    <2>1. (t \in due) \in BOOLEAN /\ t \in TriggerNames /\ copies[t] \in State
      OBVIOUS
    <2>2. PICK d \in BOOLEAN : res[t] = ActionForNewObject(Primitive[t], copies[t], o, d)
      BY Zenon, <1>1, <2>1
    <2>3. FitsType(t, copies[t], o, res[t])
      BY <2>1, <2>2, BySetFires, GroupAction, Zenon DEF FitsType
    <2> QED BY <2>1, <2>2, <2>3, ActionType, FiniteActions
  <1>3. \A t \in names : IsFiniteSet(res[t].actions)
    BY <1>2, Zenon
  <1>4. \A c \in Calls(N, res) : \E t \in N : \E a \in res[t].actions : c = <<t, a>>
    BY Zenon DEF Calls
  <1>5. IsFiniteSet(Calls(N, res))
    <2> DEFINE A == UNION {res[t].actions : t \in N}
               F == {res[t].actions : t \in N}
               f == [t \in N |-> res[t].actions]
    <2>1. IsFiniteSet(N)
      BY FiniteNames, FS_Subset, Zenon
    <2>2. f \in Surjection(N, F)
      BY Zenon DEF Surjection
    <2>3. IsFiniteSet(F)
      <3> HIDE DEF F, f
      <3> QED BY <2>1, <2>2, FS_Surjection, Zenon
    <2>4. \A T \in F : IsFiniteSet(T)
      BY <1>3, Zenon
    <2>5. IsFiniteSet(UNION F)
      <3> HIDE DEF F
      <3> QED BY <2>3, <2>4, FS_UNION
    <2>6. IsFiniteSet(N \X A)
      <3> HIDE DEF F
      <3>1. A = UNION F
        BY Zenon DEF F
      <3> HIDE DEF A
      <3> QED BY <2>1, <2>5, <3>1, FS_Product, Zenon
    <2>7. Calls(N, res) \subseteq N \X A
      BY DEF Calls
    <2> HIDE DEF A
    <2> QED BY <2>6, <2>7, FS_Subset, Zenon
  <1>6. \A c \in Calls(N, res) : c[1] \in N /\ c[2] \in res[c[1]].actions /\ c = <<c[1], c[2]>>
    BY <1>4
  <1>7. \A c \in Calls(N, res) : c[2] \in SUBSET Objects
    BY <1>2, <1>6
  <1>8. \A c, d \in Calls(N, res) : c[1] = d[1] /\ c[2] = d[2] => c = d
    BY <1>6, Zenon
  <1> QED BY <1>2, <1>5, <1>6, <1>7, <1>8, Zenon DEF GoodCalls

(* A nonempty set of naturals has a least element. *)
LEMMA LeastElement ==
  ASSUME NEW T \in SUBSET Nat, T # {}
  PROVE  \E x \in T : \A y \in T : x <= y
  <1>1. PICK x \in T : \A y \in T : ~ (<<y, x>> \in OpToRel(<, Nat))
    BY WFMin, NatLessThanWellFounded, Zenon
  <1>2. \A y \in T : ~(y < x)
    BY Zenon, <1>1 DEF OpToRel
  <1> QED BY <1>2

(* Dispatching turns every call into one firing or one dropped call. *)
LEMMA DispatchProperties ==
  ASSUME avail \in [Nodes -> 0..MaxAvail],
         NEW o, NEW acts, IsFiniteSet(acts), NEW vals, NEW addr,
         \A c \in acts : c[2] \in SUBSET Objects,
         Dispatch(o, acts, vals, addr)
  PROVE  Dispatched(o, acts)
  <1> DEFINE byRef == {c \in acts : ~(c[2] \subseteq vals)}
             keys  == {p.key : p \in UNION {c[2] : c \in byRef}}
             N     == Cardinality(acts)
  <1>1. PICK rank \in [acts -> 1..N], dest \in [acts -> Nodes \cup {NoNode}], first \in [keys -> Nodes] :
          LET refs(c) == IF c \in byRef THEN {<<p, first[p.key]>> : p \in c[2]} ELSE {}
              taken(x, S) == Cardinality({d \in S : dest[d] = x})
              before(c) == {d \in acts : rank[d] < rank[c]}
          IN  /\ \A c, d \in acts : rank[c] = rank[d] => c = d
              /\ \A k \in keys : first[k] \in addr[k]
              /\ \A c \in acts :
                   dest[c] \in RouteTo({r[2] : r \in refs(c)},
                                      [x \in Nodes |-> avail[x] - taken(x, before(c))])
              /\ avail' = [x \in Nodes |-> avail[x] - taken(x, acts)]
              /\ fired' = fired \cup
                   {Firing(c[1], Coordinator, o, c[2], dest[c], refs(c)) : c \in acts}
    BY Zenon DEF Dispatch
  <1> DEFINE refs(c) == IF c \in byRef THEN {<<p, first[p.key]>> : p \in c[2]} ELSE {}
             to(x) == {d \in acts : dest[d] = x}
             before(c) == {d \in acts : rank[d] < rank[c]}
  <1>2. N \in Nat
    BY FS_CardinalityType, Zenon
  <1>3. ASSUME NEW x \in Nodes
        PROVE  avail[x] - Cardinality(to(x)) \in 0..MaxAvail
    <2>1. IsFiniteSet(to(x)) /\ Cardinality(to(x)) \in Nat
      BY FS_Subset, FS_CardinalityType
    <2>2. avail[x] \in 0..MaxAvail
      OBVIOUS
    <2>3. CASE to(x) = {}
      <3>1. Cardinality(to(x)) = 0
        BY Zenon, <2>3, FS_EmptySet
      <3> QED BY <2>2, <3>1, MaxAvailNat
    <2>4. CASE to(x) # {}
      <3> DEFINE T == {N - rank[d] : d \in to(x)}
      <3>1. T \in SUBSET Nat /\ T # {}
        <4>1. \A d \in acts : rank[d] \in 1..N
          BY Zenon
        <4> HIDE DEF N
        <4>2. \A d \in acts : N - rank[d] \in Nat
          BY <1>2, <4>1
        <4> QED BY Zenon, <2>4, <4>2
      <3>2. PICK m \in T : \A y \in T : m <= y
        <4> HIDE DEF T
        <4> QED BY <3>1, LeastElement, Zenon
      <3>3. PICK c \in to(x) : m = N - rank[c]
        BY <3>2, Zenon
      <3>4. ASSUME NEW d \in to(x) PROVE rank[d] \in Nat /\ rank[d] <= rank[c]
        <4>1. rank[d] \in 1..N /\ rank[c] \in 1..N
          BY Zenon
        <4>2. N - rank[d] \in T
          BY Zenon
        <4>3. N - rank[c] <= N - rank[d]
          BY <3>2, <3>3, <4>2, Zenon
        <4> HIDE DEF N
        <4> QED BY <1>2, <4>1, <4>3
      <3>5. {d \in before(c) : dest[d] = x} = to(x) \ {c}
        <4>1. \A d \in to(x) \ {c} : rank[d] # rank[c]
          BY <1>1, Zenon
        <4>2. \A d \in to(x) \ {c} : rank[d] < rank[c]
          BY <3>4, <4>1
        <4>3. ~(rank[c] < rank[c])
          BY <3>4
        <4> QED BY <4>2, <4>3, Zenon
      <3>6. Cardinality(to(x) \ {c}) = Cardinality(to(x)) - 1
        BY Zenon, <2>1, FS_RemoveElement
      <3> DEFINE left == [y \in Nodes |-> avail[y] - Cardinality({d \in before(c) : dest[d] = y})]
      <3>7. dest[c] \in RouteTo({r[2] : r \in refs(c)}, left) /\ dest[c] = x /\ x # NoNode
        BY <1>1, PlacesDistinct, Zenon
      <3>8. left[x] > 0
        <4> HIDE DEF left
        <4> QED BY <3>7, Zenon DEF RouteTo
      <3>9. left[x] = avail[x] - (Cardinality(to(x)) - 1)
        BY Zenon, <3>5, <3>6
      <3> QED BY <2>1, <2>2, <3>8, <3>9, MaxAvailNat
    <2> QED BY <2>3, <2>4, Zenon
  <1>4. avail' \in [Nodes -> 0..MaxAvail]
    BY <1>1, <1>3
  <1>5. [c \in acts |-> refs(c)] \in [acts -> SUBSET (Objects \X Nodes)]
    <2> SUFFICES ASSUME NEW c \in acts PROVE refs(c) \in SUBSET (Objects \X Nodes)
      BY Zenon
    <2>1. CASE c \in byRef
      <3>1. \A p \in c[2] : p.key \in keys /\ p \in Objects
        BY <2>1, Zenon
      <3>2. \A p \in c[2] : <<p, first[p.key]>> \in Objects \X Nodes
        BY <3>1, Zenon
      <3> QED BY <2>1, <3>2
    <2> QED BY <2>1, Zenon
  <1>6. fired' = fired \cup {Firing(c[1], Coordinator, o, c[2], dest[c], [d \in acts |-> refs(d)][c]) : c \in acts}
    BY <1>1
  <1> QED BY Zenon, <1>4, <1>5, <1>6 DEF Dispatched

-----------------------------------------------------------------------------
(* Type correctness. *)

(* Sending an object keeps the types. *)
LEMMA SendObjectType ==
  ASSUME TypeOK, NEW n \in Nodes, NEW o \in Objects, NEW packed \in Packing,
         SendObject(n, o, packed)
  PROVE  TypeOK'
  <1> DEFINE res    == Evaluate(LocalNames, local[n], o, {})
             active == {t \in LocalNames : res[t].actions # {}}
             msg    == [obj |-> o, active |-> active, packed |-> packed]
  <1>1. LocalNames \in SUBSET TriggerNames /\ active \in SUBSET LocalNames
    BY Zenon DEF LocalNames
  <1>2. local[n] \in [LocalNames -> State]
    BY Zenon DEF TypeOK
  <1>3. /\ \A t \in LocalNames : res[t].st \in State
        /\ \A c \in Calls(active, res) : c[1] \in active /\ c[2] \in SUBSET Objects
    <2> HIDE DEF res, active
    <2>1. res = Evaluate(LocalNames, local[n], o, {})
      BY DEF res
    <2>2. GoodCalls(LocalNames, local[n], o, active, res)
      BY <1>1, <1>2, <2>1, CallsProperties
    <2> QED BY <2>2, Zenon DEF GoodCalls
  <1>4. stored' \in [Nodes -> SUBSET Objects]
    BY Zenon DEF SendObject, TypeOK
  <1>5. local' \in [Nodes -> [LocalNames -> State]]
    <2>1. [t \in LocalNames |-> res[t].st] \in [LocalNames -> State]
      BY <1>3, Zenon
    <2>2. local' = [local EXCEPT ![n] = [t \in LocalNames |-> res[t].st]]
      BY Zenon DEF SendObject
    <2> QED BY <2>1, <2>2 DEF TypeOK
  <1>6. notif' \in [Nodes -> Seq(Message)]
    <2>1. msg \in Message
      BY <1>1, PackingBool, Zenon DEF Message
    <2>2. notif[n] \in Seq(Message)
      BY Zenon DEF TypeOK
    <2>3. Append(notif[n], msg) \in Seq(Message)
      <3> HIDE DEF msg
      <3> QED BY <2>1, <2>2
    <2>4. notif' = [notif EXCEPT ![n] = Append(notif[n], msg)]
      BY Zenon DEF SendObject
    <2> HIDE DEF msg
    <2> QED BY <2>3, <2>4 DEF TypeOK
  <1>7. fired' \subseteq FiringType
    <2>1. fired' = fired \cup {Firing(c[1], n, o, c[2], n, {}) : c \in Calls(active, res)}
      BY Zenon DEF SendObject
    <2> HIDE DEF res, active
    <2>2. \A c \in Calls(active, res) : Firing(c[1], n, o, c[2], n, {}) \in FiringType
      BY <1>1, <1>3, Zenon DEF Firing, Places, FiringType
    <2> QED BY <2>1, <2>2, Zenon DEF TypeOK
  <1> QED BY Zenon, <1>4, <1>5, <1>6, <1>7 DEF SendObject, TypeOK

(* Handling a notification keeps the types. *)
LEMMA HandleNotifyType ==
  ASSUME TypeOK, NEW n \in Nodes, HandleNotify(n)
  PROVE  TypeOK'
  <1> DEFINE m    == Head(notif[n])
             o    == m.obj
             addr == UpdateAddress(o.key, n)
             vals == IF m.packed THEN known \cup {o} ELSE known
  <1>1. /\ notif[n] # <<>>
        /\ notif' = [notif EXCEPT ![n] = Tail(@)]
        /\ keyAddr' = addr
        /\ known' = vals
        /\ bucketNodes' = bucketNodes \cup {n}
        /\ UNCHANGED <<stored, local>>
    BY Zenon DEF HandleNotify
  <1>2. PICK due \in SUBSET TimedNames :
           LET res == Evaluate(TriggerNames, coord, o, due)
           IN  /\ coord' = NewCopies(m, res)
               /\ Dispatch(o, Calls(ToFire(m, res), res), vals, addr)
               /\ SendClear(ToFire(m, res) \ TimedNames, o.session, bucketNodes \cup {n})
    BY Zenon DEF HandleNotify
  <1>3. notif[n] \in Seq(Message)
    BY DEF TypeOK
  <1>4. m \in Message /\ Tail(notif[n]) \in Seq(Message)
    BY <1>1, <1>3, TailProperties
  <1>5. o \in Objects /\ o.key \in Keys /\ o.session \in Sessions
    BY <1>4 DEF Message, Objects, Obj
  <1> DEFINE res  == Evaluate(TriggerNames, coord, o, due)
             fire == ToFire(m, res)
             acts == Calls(fire, res)
  <1> HIDE DEF m
  <1>6. fire \in SUBSET TriggerNames
    BY Zenon DEF ToFire
  <1>7. coord \in [TriggerNames -> State]
    BY Zenon DEF TypeOK
  <1>8. /\ \A t \in TriggerNames : res[t].st \in State
        /\ IsFiniteSet(acts)
        /\ \A c \in acts : c[1] \in fire /\ c[2] \in SUBSET Objects
    <2> HIDE DEF res, fire
    <2>1. res = Evaluate(TriggerNames, coord, o, due)
      BY Zenon DEF res
    <2> HIDE DEF o
    <2>2. GoodCalls(TriggerNames, coord, o, fire, res)
      BY <1>5, <1>6, <1>7, <2>1, CallsProperties
    <2> QED BY <2>2, Zenon DEF GoodCalls
  <1>9. keyAddr' \in [Keys -> SUBSET Nodes] /\ known' \in SUBSET Objects /\ bucketNodes' \in SUBSET Nodes
    BY <1>1, <1>5 DEF TypeOK, UpdateAddress
  <1>10. notif' \in [Nodes -> Seq(Message)]
    BY <1>1, <1>4, Zenon DEF TypeOK
  <1>11. coord' \in [TriggerNames -> State]
    BY <1>2, <1>8, Zenon DEF NewCopies
  <1>12. /\ avail' \in [Nodes -> 0..MaxAvail]
         /\ \E dest \in [acts -> Nodes \cup {NoNode}],
               refs \in [acts -> SUBSET (Objects \X Nodes)] :
              fired' = fired \cup
                {Firing(c[1], Coordinator, o, c[2], dest[c], refs[c]) : c \in acts}
    <2>1. avail \in [Nodes -> 0..MaxAvail]
      BY Zenon DEF TypeOK
    <2>2. Dispatch(o, acts, vals, addr)
      BY <1>2
    <2>3. IsFiniteSet(acts) /\ \A c \in acts : c[2] \in SUBSET Objects
      BY <1>8
    <2> HIDE DEF acts, vals, addr, o
    <2>4. Dispatched(o, acts)
      BY <2>1, <2>2, <2>3, DispatchProperties, Zenon
    <2> QED BY <2>4, Zenon DEF Dispatched
  <1>13. fired' \subseteq FiringType
    <2>1. PICK dest \in [acts -> Nodes \cup {NoNode}],
               refs \in [acts -> SUBSET (Objects \X Nodes)] :
              fired' = fired \cup
                {Firing(c[1], Coordinator, o, c[2], dest[c], refs[c]) : c \in acts}
      BY <1>12
    <2> HIDE DEF acts, fire
    <2>2. \A c \in acts : Firing(c[1], Coordinator, o, c[2], dest[c], refs[c]) \in FiringType
      BY <1>5, <1>6, <1>8, Zenon DEF Firing, Places, FiringType
    <2> QED BY <2>1, <2>2 DEF TypeOK
  <1>14. upd' \in [Nodes -> Seq(ClearType)]
    <2> DEFINE c == [names |-> fire \ TimedNames, session |-> o.session]
    <2>1. SendClear(fire \ TimedNames, o.session, bucketNodes \cup {n})
      BY <1>2, Zenon
    <2>2. c \in ClearType
      BY <1>5, <1>6, Zenon DEF TimedNames, ClearType
    <2>3. \A x \in Nodes : upd[x] \in Seq(ClearType) /\ Append(upd[x], c) \in Seq(ClearType)
      <3> HIDE DEF c
      <3> QED BY <2>2 DEF TypeOK
    <2>4. \A x \in Nodes : upd'[x] = upd[x] \/ upd'[x] = Append(upd[x], c)
      BY <2>1, Zenon DEF SendClear
    <2>5. upd' = [x \in Nodes |-> upd'[x]]
      BY <2>1, Zenon DEF SendClear
    <2> HIDE DEF c
    <2> QED BY <2>3, <2>4, <2>5
  <1> QED BY <1>1, <1>9, <1>10, <1>11, <1>12, <1>13, <1>14 DEF TypeOK

(* The state of the nodes and the coordinator is always well typed; the
   coordinator never books an executor that a node did not report. *)
THEOREM TypeCorrect == Spec => []TypeOK
  <1>1. TypeOK /\ [Next]_vars => TypeOK'
    <2> SUFFICES ASSUME TypeOK, [Next]_vars PROVE TypeOK'
      BY Zenon
    <2>1. CASE UNCHANGED vars
      BY <2>1, Zenon DEF vars, TypeOK
    <2>2. CASE Next
      BY <2>2, SendObjectType, HandleNotifyType, HandleClearType, HandleStatusType DEF Next
    <2> QED BY <2>1, <2>2, Zenon
  <1> QED BY <1>1, InitType, PTL DEF Spec

-----------------------------------------------------------------------------
(* The inductive invariant. *)

(* SendObject is a step that SendFacts describes. *)
LEMMA SendStep ==
  ASSUME TypeOK, NEW n \in Nodes, NEW o \in Objects, NEW packed \in Packing,
         SendObject(n, o, packed)
  PROVE  \E res, active, msg : SendFacts(n, o, res, active, msg)
  <1> DEFINE res    == Evaluate(LocalNames, local[n], o, {})
             active == {t \in LocalNames : res[t].actions # {}}
             msg    == [obj |-> o, active |-> active, packed |-> packed]
  <1>1. LocalNames \in SUBSET TriggerNames /\ active \in SUBSET LocalNames
    BY Zenon DEF LocalNames
  <1>2. local[n] \in [LocalNames -> State]
    BY Zenon DEF TypeOK
  <1>3. GoodCalls(LocalNames, local[n], o, active, res)
    <2> HIDE DEF res, active
    <2>1. res = Evaluate(LocalNames, local[n], o, {})
      BY Zenon DEF res
    <2> QED BY <1>1, <1>2, <2>1, CallsProperties, Zenon
  <1>4. msg \in Message /\ msg.obj = o /\ msg.active = active
    BY PackingBool, Zenon DEF Message
  <1>5. SendFacts(n, o, res, active, msg)
    BY <1>3, <1>4 DEF SendFacts, SendObject
  <1> QED BY <1>5

(* HandleNotify is a step that NotifyFacts describes. *)
LEMMA NotifyStep ==
  ASSUME TypeOK, NEW n \in Nodes, HandleNotify(n)
  PROVE  \E m, res, fire : NotifyFacts(n, m, res, fire)
  <1> DEFINE m    == Head(notif[n])
             o    == m.obj
             addr == UpdateAddress(o.key, n)
             vals == IF m.packed THEN known \cup {o} ELSE known
  <1>1. PICK due \in SUBSET TimedNames :
           LET res == Evaluate(TriggerNames, coord, o, due)
           IN  /\ coord' = NewCopies(m, res)
               /\ Dispatch(o, Calls(ToFire(m, res), res), vals, addr)
               /\ SendClear(ToFire(m, res) \ TimedNames, o.session, bucketNodes \cup {n})
    BY Zenon DEF HandleNotify
  <1>2. notif[n] # <<>> /\ notif' = [notif EXCEPT ![n] = Tail(@)] /\ stored' = stored /\ local' = local
    BY Zenon DEF HandleNotify
  <1>3. m \in Message
    BY <1>2, TailProperties DEF TypeOK
  <1>4. o \in Objects
    BY <1>3, Zenon DEF Message
  <1> DEFINE res  == Evaluate(TriggerNames, coord, o, due)
             fire == ToFire(m, res)
             acts == Calls(fire, res)
  <1>5. coord' = [t \in TriggerNames |-> res[t].st] /\ Dispatch(o, acts, vals, addr)
    BY <1>1, Zenon DEF NewCopies
  <1> HIDE DEF m
  <1>6. fire \in SUBSET TriggerNames /\ fire = {t \in TriggerNames \ m.active : res[t].actions # {}}
    BY DEF ToFire
  <1>7. coord \in [TriggerNames -> State] /\ avail \in [Nodes -> 0..MaxAvail]
    BY DEF TypeOK
  <1>8. GoodCalls(TriggerNames, coord, o, fire, res)
    <2> HIDE DEF res, fire, o
    <2>1. res = Evaluate(TriggerNames, coord, o, due)
      BY DEF res
    <2> QED BY <1>4, <1>6, <1>7, <2>1, CallsProperties
  <1>9. IsFiniteSet(acts) /\ \A c \in acts : c[2] \in SUBSET Objects
    <2> HIDE DEF res, fire
    <2> QED BY <1>8 DEF GoodCalls
  <1>10. Dispatched(o, acts)
    <2> HIDE DEF acts, vals, addr, o
    <2> QED BY <1>5, <1>7, <1>9, DispatchProperties
  <1>11. m = Head(notif[n])
    BY DEF m
  <1>12. SendClear(fire \ TimedNames, o.session, bucketNodes \cup {n})
    BY <1>1, Zenon
  <1> HIDE DEF res, fire
  <1>13. fire \subseteq TimedNames => upd' = upd
    BY <1>12 DEF SendClear, TypeOK
  <1>14. NotifyFacts(n, m, res, fire)
    BY <1>2, <1>3, <1>5, <1>6, <1>8, <1>10, <1>11, <1>13 DEF NotifyFacts
  <1> QED BY <1>14, Zenon

(* Every step of a node or the coordinator keeps the invariant. *)
LEMMA NextInv == IndInv /\ [Next]_vars => IndInv'
  <1> SUFFICES ASSUME IndInv, [Next]_vars PROVE IndInv'
    BY Zenon
  <1> USE DEF IndInv, SyncInv
  <1>1. ASSUME NEW n \in Nodes, NEW o \in Objects, NEW packed \in Packing, SendObject(n, o, packed)
        PROVE  IndInv'
    <2>1. PICK res, active, msg : SendFacts(n, o, res, active, msg)
      BY <1>1, SendStep, Zenon
    <2> QED BY <1>1, <2>1, SendObjectType, SendChannel, SendSources, SendSingle, SendSet, SendWindow
  <1>2. ASSUME NEW n \in Nodes, HandleNotify(n)
        PROVE  IndInv'
    <2>1. PICK m, res, fire : NotifyFacts(n, m, res, fire)
      BY <1>2, NotifyStep
    <2> QED BY <1>2, <2>1, HandleNotifyType, NotifyChannel, NotifySources, NotifySingle,
               NotifySet, NotifyWindow
  <1>3. ASSUME NEW n \in Nodes, HandleClear(n)
        PROVE  IndInv'
    <2>1. stored' = stored /\ notif' = notif /\ coord' = coord /\ fired' = fired
      BY <1>3 DEF HandleClear
    <2> QED BY <1>3, <2>1, HandleClearType, QuietStep, ClearCopies, Zenon
  <1>4. ASSUME stored' = stored, notif' = notif, coord' = coord, fired' = fired, local' = local, TypeOK'
        PROVE  IndInv'
    <2>1. CopyInv'
      <3>1. Handled' = Handled
        BY <1>4, QuietStep
      <3> QED BY <1>4, <3>1, Zenon DEF CopyInv, KeysPrepared
    <2> QED BY <1>4, <2>1, QuietStep
  <1>5. ASSUME NEW n \in Nodes, NEW free \in 0..MaxAvail, HandleStatus(n, free)
        PROVE  IndInv'
    <2>1. TypeOK'
      BY <1>5, HandleStatusType, Zenon
    <2> QED BY <1>4, <1>5, <2>1, Zenon DEF HandleStatus
  <1>6. CASE UNCHANGED vars
    <2>1. TypeOK'
      BY <1>6, Zenon DEF vars, TypeOK
    <2> QED BY <1>4, <1>6, <2>1 DEF vars
  <1> QED BY <1>1, <1>2, <1>3, <1>5, <1>6 DEF Next

(* Immediate, by-name, by-set and by-time triggers hand an object to their
   function at most once, for any number of nodes, sessions, keys and
   triggers and any interleaving of the two evaluations and the clears. *)
THEOREM ConsumeOnce == Spec => []SafeTriggersConsumeOnce
  BY InitInv, NextInv, InvImpliesOnce, PTL DEF Spec

(* A trigger's call only ever names objects that some function has sent. *)
THEOREM SentBeforeFired == Spec => []FiredObjectsSent
  <1>1. IndInv => FiredObjectsSent
    BY Zenon DEF IndInv
  <1> QED BY <1>1, InitInv, NextInv, PTL DEF Spec

(* A by-time trigger loses no object the coordinator has been notified of. *)
THEOREM WindowsKeepAll == Spec => []WindowKeepsObjects
  <1>1. IndInv => WindowKeepsObjects
    BY DEF IndInv, SyncInv
  <1> QED BY <1>1, InitInv, NextInv, PTL DEF Spec

-----------------------------------------------------------------------------
(* The addresses of arguments. *)

(* Every address recorded for a key is a node on which some session sent it,
   and so is every address that a call was given. *)
HoldsKey(n, k) == \E p \in stored[n] : p.key = k
AddressInv ==
  /\ \A k \in Keys : \A n \in keyAddr[k] : HoldsKey(n, k)
  /\ \A f \in fired : \A r \in f.refs : HoldsKey(r[2], r[1].key)

(* notify_handler records the sender's node, which has stored the object it
   is notified of, before it looks up an address. *)
LEMMA NotifyAddress ==
  ASSUME TypeOK, ChannelInv, AddressInv, NEW n \in Nodes, HandleNotify(n)
  PROVE  AddressInv'
  <1> DEFINE o == Head(notif[n]).obj
             addr == UpdateAddress(o.key, n)
  <1>1. /\ notif[n] \in Seq(Message) /\ notif[n] # <<>> /\ stored' = stored /\ keyAddr' = addr
        /\ keyAddr \in [Keys -> SUBSET Nodes]
    BY Zenon DEF HandleNotify, TypeOK
  <1>2. o \in Queued(n) /\ o \in Objects
    <2>1. Head(notif[n]) \in Message /\ Head(notif[n]) = notif[n][1] /\ 1 \in DOMAIN notif[n]
      BY <1>1
    <2> QED BY <2>1, Zenon DEF Queued, Message
  <1>3. o \in stored[n] /\ o.key \in Keys
    BY <1>2 DEF ChannelInv, Objects, Obj
  <1>4. HoldsKey(n, o.key)
    BY <1>3, Zenon DEF HoldsKey
  <1>5. \A k \in Keys : \A x \in addr[k] : HoldsKey(x, k)
    BY <1>1, <1>4, Zenon DEF UpdateAddress, AddressInv
  <1>6. ASSUME NEW f \in fired', f \notin fired, NEW r \in f.refs
        PROVE  HoldsKey(r[2], r[1].key)
    <2>1. PICK acts, vals : Dispatch(o, acts, vals, addr)
      BY Zenon DEF HandleNotify
    <2>2. r[2] \in addr[r[1].key]
      <3> HIDE DEF addr
      <3> QED BY <1>6, <2>1, DispatchRefs, Zenon
    <2>3. f \in FiringType
      <3>1. TypeOK'
        BY HandleNotifyType
      <3> QED BY <3>1, Zenon DEF TypeOK
    <2>4. r[1].key \in Keys
      BY <2>3 DEF FiringType, Objects, Obj
    <2> QED BY <1>5, <2>2, <2>4, Zenon
  <1>7. \A x, k : HoldsKey(x, k)' <=> HoldsKey(x, k)
    BY <1>1, Zenon DEF HoldsKey
  <1> HIDE DEF addr
  <1> QED BY <1>1, <1>5, <1>6, <1>7, Zenon DEF AddressInv

(* Sending an object only adds to what the nodes hold, and a node's own calls
   carry no addresses. *)
LEMMA SendAddress ==
  ASSUME TypeOK, AddressInv, NEW n \in Nodes, NEW o \in Objects,
         NEW packed \in Packing, SendObject(n, o, packed)
  PROVE  AddressInv'
  <1>1. PICK res, active, msg : SendFacts(n, o, res, active, msg)
    BY SendStep, Zenon
  <1>2. keyAddr' = keyAddr
    BY DEF SendObject
  <1>3. \A x, k : HoldsKey(x, k) /\ x \in Nodes => HoldsKey(x, k)'
    BY <1>1 DEF SendFacts, HoldsKey, TypeOK
  <1>4. \A f \in fired' : f \notin fired => f.refs = {}
    BY <1>1, SendNewFiring DEF Firing
  <1>5. \A f \in fired : \A r \in f.refs : r[2] \in Nodes
    BY Zenon DEF TypeOK, FiringType
  <1>6. \A k \in Keys : keyAddr[k] \subseteq Nodes
    BY Zenon DEF TypeOK
  <1> QED BY <1>2, <1>3, <1>4, <1>5, <1>6 DEF AddressInv

(* The addresses are kept by every step. *)
LEMMA NextAddress == IndInv /\ AddressInv /\ [Next]_vars => AddressInv'
  <1> SUFFICES ASSUME TypeOK, ChannelInv, AddressInv, [Next]_vars PROVE AddressInv'
    BY Zenon DEF IndInv, SyncInv
  <1>1. ASSUME stored' = stored, keyAddr' = keyAddr, fired' = fired PROVE AddressInv'
    BY <1>1, Zenon DEF AddressInv, HoldsKey
  <1>2. CASE UNCHANGED vars
    BY <1>1, <1>2 DEF vars
  <1>3. ASSUME NEW n \in Nodes,
               HandleClear(n) \/ \E free \in 0..MaxAvail : HandleStatus(n, free)
        PROVE  AddressInv'
    BY <1>1, <1>3 DEF HandleClear, HandleStatus
  <1> QED BY <1>2, <1>3, SendAddress, NotifyAddress DEF Next

(* The node that a call of notify_handler is told to fetch an argument from
   holds an object of that key, for any number of sessions and nodes:
   bucket_key_address_map has no place for the session. *)
THEOREM AddressesHold == Spec => []AddressInv
  <1>1. Init => AddressInv
    BY DEF Init, AddressInv
  <1> QED BY <1>1, InitInv, NextInv, NextAddress, PTL DEF Spec

(* When the bucket serves one session, the node holds the very argument. *)
THEOREM OneSessionAddresses ==
  ASSUME \A r, s \in Sessions : r = s
  PROVE  Spec => []DataAddressHolds
  <1>1. TypeOK /\ AddressInv => DataAddressHolds
    <2> SUFFICES ASSUME TypeOK, AddressInv, NEW f \in fired, NEW r \in f.refs
                 PROVE  r[1] \in stored[r[2]]
      BY Zenon DEF DataAddressHolds
    <2>1. r[1] \in Objects /\ r[2] \in Nodes
      BY Zenon DEF TypeOK, FiringType
    <2>2. PICK p \in stored[r[2]] : p.key = r[1].key
      BY Zenon DEF AddressInv, HoldsKey
    <2>3. p \in Objects
      BY <2>1 DEF TypeOK
    <2>4. p = r[1]
      BY <2>1, <2>2, <2>3 DEF Objects, Obj
    <2> QED BY <2>2, <2>4, Zenon
  <1> QED BY <1>1, TypeCorrect, AddressesHold, PTL

-----------------------------------------------------------------------------
(* One sender. *)

(* Both parts are kept by every step; a clear message is in flight only when
   several nodes send. *)
LEMMA NextSender ==
  IndInv /\ ReplayInv /\ ConsumeInv /\ [Next]_vars => ReplayInv' /\ ConsumeInv'
  <1> SUFFICES ASSUME IndInv, ReplayInv, ConsumeInv, [Next]_vars PROVE ReplayInv' /\ ConsumeInv'
    BY Zenon
  <1>1. TypeOK /\ ChannelInv
    BY Zenon DEF IndInv, SyncInv
  <1>2. ASSUME NEW n \in Nodes, NEW o \in Objects, NEW packed \in Packing, SendObject(n, o, packed)
        PROVE  ReplayInv' /\ ConsumeInv'
    <2>1. PICK res, active, msg : SendFacts(n, o, res, active, msg)
      BY <1>1, <1>2, SendStep
    <2> QED BY <1>1, <2>1, SendReplay, SendConsume
  <1>3. ASSUME NEW n \in Nodes, HandleNotify(n)
        PROVE  ReplayInv' /\ ConsumeInv'
    <2>1. PICK m, res, fire : NotifyFacts(n, m, res, fire)
      BY <1>1, <1>3, NotifyStep
    <2> QED BY <1>1, <2>1, NotifyReplay, NotifyConsume, Zenon
  <1>4. ASSUME NEW n \in Nodes, HandleClear(n)
        PROVE  ReplayInv' /\ ConsumeInv'
    <2>1. upd[n] # <<>> /\ stored' = stored /\ Sent' = Sent
      BY <1>4, Zenon DEF HandleClear, Sent
    <2>2. \A x \in Nodes : Sent # stored[x]
      BY <2>1 DEF ReplayInv
    <2> QED BY <2>1, <2>2 DEF ReplayInv, ConsumeInv
  <1>5. ASSUME NEW n \in Nodes, NEW free \in 0..MaxAvail, HandleStatus(n, free)
        PROVE  ReplayInv' /\ ConsumeInv'
    BY <1>5, QuietSender, Zenon DEF HandleStatus
  <1>6. CASE UNCHANGED vars
    BY <1>6, QuietSender, Zenon DEF vars
  <1> QED BY <1>2, <1>3, <1>4, <1>5, <1>6 DEF Next

(* When one node sends all objects, the coordinator's copy of every trigger
   that the node evaluates is a delayed replica of the node's. *)
THEOREM CopiesFollow == Spec => []CopiesAgree
  <1>1. TypeOK /\ ReplayInv => CopiesAgree
    <2> SUFFICES ASSUME TypeOK, ReplayInv, NEW n \in Nodes, notif[n] = <<>>, Sent = stored[n],
                        NEW t \in LocalNames
                 PROVE  coord[t] = local[n][t]
      BY Zenon DEF CopiesAgree
    <2>1. Len(notif[n]) = 0 /\ 0 + 1 = 1
      OBVIOUS
    <2>2. Replays(n, t)
      BY DEF ReplayInv
    <2> QED BY <2>1, <2>2, Zenon DEF Replays
  <1> QED BY <1>1, InitInv, NextInv, InitSender, NextSender, TypeCorrect, PTL DEF Spec

(* When one node sends all objects, no trigger hands one out twice, whatever
   its primitive, on the node or at the coordinator. *)
THEOREM OneSenderOnce == Spec => []OneSenderConsumesOnce
  <1>1. IndInv /\ ConsumeInv => OneSenderConsumesOnce
    <2> SUFFICES ASSUME IndInv, ConsumeInv, NEW n \in Nodes, Sent = stored[n], NEW t \in TriggerNames,
                        Primitive[t].type # "DYNAMIC_GROUP" \/ Cardinality(Primitive[t].control_group) = 1
                 PROVE  ConsumedOnce(t)
      BY Zenon DEF OneSenderConsumesOnce
    <2>1. CASE Primitive[t].type \in SafeTypes
      BY <2>1, InvImpliesOnce DEF SafeTriggersConsumeOnce
    <2>2. CASE Primitive[t].type \in BufferTypes
      BY <2>2 DEF ConsumeInv
    <2>3. CASE OneControlKey(t)
      <3> SUFFICES ASSUME NEW f \in fired, NEW g \in fired, f.name = t, g.name = t, f # g
                   PROVE  f.objs \cap g.objs = {}
        BY DEF ConsumedOnce
      <3>1. /\ f.cause \in Objects /\ g.cause \in Objects
            /\ f.cause.key \in Primitive[t].control_group /\ g.cause.key \in Primitive[t].control_group
            /\ \A p \in f.objs : p.session = f.cause.session
            /\ \A p \in g.objs : p.session = g.cause.session
        BY <2>3 DEF ConsumeInv, IndInv, TypeOK, FiringType
      <3>2. CASE f.cause = g.cause
        BY <2>3, <3>2, Zenon DEF ConsumeInv
      <3>3. CASE f.cause # g.cause
        <4>1. f.cause.key = g.cause.key
          <5>1. IsFiniteSet(Primitive[t].control_group)
            BY <2>3, PrimitiveFields DEF OneControlKey
          <5>2. PICK k : Primitive[t].control_group = {k}
            BY <2>3, <5>1, FS_Singleton, Zenon DEF OneControlKey
          <5> QED BY <3>1, <5>2, Zenon
        <4>2. f.cause.session # g.cause.session
          BY <3>1, <3>3, <4>1 DEF Objects, Obj
        <4> QED BY <3>1, <4>2
      <3> QED BY <3>2, <3>3, Zenon
    <2> QED BY <2>1, <2>2, <2>3, PrimitiveFields, Zenon DEF SafeTypes, BufferTypes, OneControlKey
  <1> QED BY <1>1, InitInv, NextInv, InitSender, NextSender, PTL DEF Spec

=============================================================================
