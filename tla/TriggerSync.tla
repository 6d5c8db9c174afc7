---------------------------- MODULE TriggerSync ----------------------------
(***************************************************************************)
(* Two-level trigger evaluation on one bucket.                             *)
(*                                                                         *)
(* Every worker node keeps its own copy of the bucket's triggers and       *)
(* evaluates them when a function on that node sends an object             *)
(* (scheduler_server.cpp, check_trigger); it then tells the coordinator    *)
(* which triggers fired (notify_put).  The coordinator evaluates its own   *)
(* copy for every object (notify_handler), skips the triggers that already *)
(* fired on the node, routes a call for each of the others to a node, and  *)
(* tells the nodes that hold objects of the bucket to clear the triggers   *)
(* it fired (message type 1 of UpdateCoordMsg).                            *)
(*                                                                         *)
(* The bucket and its triggers are already registered on the coordinator   *)
(* and on every node.  Both channels are one ZeroMQ PUSH/PULL pair per     *)
(* (node, coordinator), used by one thread at each end: FIFO, no loss.     *)
(***************************************************************************)
EXTENDS Triggers

CONSTANTS
  Nodes,         \* worker nodes (their local schedulers)
  Sessions, Keys,
  TriggerNames,  \* names of the bucket's triggers
  Primitive,     \* name -> configuration of the trigger
  Packing,       \* subset of BOOLEAN: may objects be sent with their value?
  MaxAvail,      \* executors per node
  Coordinator, NoNode

ASSUME PlacesDistinct == Coordinator \notin Nodes /\ NoNode \notin Nodes
ASSUME FiniteNames == IsFiniteSet(TriggerNames) /\ IsFiniteSet(Keys)
ASSUME MaxAvailNat == MaxAvail \in Nat
ASSUME PackingBool == Packing \subseteq BOOLEAN
(* What the fields of the primitive messages can hold. *)
ASSUME PrimitiveFields ==
  \A t \in TriggerNames :
    /\ Primitive[t].type \in {"IMMEDIATE", "BY_NAME", "BY_BATCH_SIZE", "BY_SET",
                             "DYNAMIC_GROUP", "REDUNDANT", "BY_TIME"}
    /\ Primitive[t].type = "BY_BATCH_SIZE" => Primitive[t].count \in Nat
    /\ Primitive[t].type = "BY_SET" =>
         Primitive[t].key_set \subseteq Keys /\ IsFiniteSet(Primitive[t].key_set)
    /\ Primitive[t].type = "DYNAMIC_GROUP" => IsFiniteSet(Primitive[t].control_group)
    /\ Primitive[t].type = "REDUNDANT" => Primitive[t].k \in Nat /\ Primitive[t].n \in Nat

VARIABLES
  stored,       \* node -> objects sent on it (key_len_map)
  local,        \* node -> trigger -> state (bucket_triggers_map of the scheduler)
  notif,        \* node -> KeyNotifyRequests on their way to the coordinator
  coord,        \* trigger -> state (bucket_triggers_map of the coordinator)
  keyAddr,      \* key -> nodes (bucket_key_address_map)
  known,        \* objects whose value the coordinator has (bucket_key_val_map)
  bucketNodes,  \* nodes known to hold objects of the bucket (bucket_node_map)
  avail,        \* node -> executors the coordinator believes free (node_status_map)
  upd,          \* node -> clear messages on their way to the node
  fired         \* history: every firing of a trigger, on a node or at the coordinator

vars == <<stored, local, notif, coord, keyAddr, known, bucketNodes, avail, upd, fired>>

Objects == {Obj(s, k) : s \in Sessions, k \in Keys}
Sent == UNION {stored[n] : n \in Nodes}

(* app_register_handler and trigger_op_handler do not send BY_TIME triggers
   to the nodes: only the coordinator evaluates them. *)
LocalNames == {t \in TriggerNames : Primitive[t].type # "BY_TIME"}
TimedNames == TriggerNames \ LocalNames

(* One call made by a trigger: where it fired, for which object, with which
   objects as arguments, the node it is sent to and the (object, node) pairs
   the arguments are to be fetched from. *)
Firing(t, at, cause, objs, dest, refs) ==
  [name |-> t, at |-> at, cause |-> cause, objs |-> objs, dest |-> dest, refs |-> refs]

Init ==
  /\ stored = [n \in Nodes |-> {}]
  /\ local = [n \in Nodes |-> [t \in LocalNames |-> NewTrigger]]
  /\ notif = [n \in Nodes |-> <<>>]
  /\ coord = [t \in TriggerNames |-> NewTrigger]
  /\ keyAddr = [k \in Keys |-> {}]
  /\ known = {}
  /\ bucketNodes = {}
  /\ avail = [n \in Nodes |-> 0]
  /\ upd = [n \in Nodes |-> <<>>]
  /\ fired = {}

-----------------------------------------------------------------------------
(* The triggers `names' evaluated for object o on the copies given, in one
   pass over bucket_triggers_map[bucket]. *)
Evaluate(names, copies, o, due) ==
  [t \in names |-> ActionForNewObject(Primitive[t], copies[t], o, t \in due)]

(* The (trigger, action) pairs of the triggers in `names'. *)
Calls(names, res) == UNION {{<<t, a>> : a \in res[t].actions} : t \in names}

(* A function on node n sends object o: the scheduler records it, evaluates
   its copies of the triggers, schedules a call for every action, and
   notifies the coordinator with the names of the triggers that fired.
   A session's keys are sent once each (no re-execution). *)
SendObject(n, o, packed) ==
  LET res    == Evaluate(LocalNames, local[n], o, {})
      active == {t \in LocalNames : res[t].actions # {}}
  IN  /\ o \notin Sent
      /\ stored' = [stored EXCEPT ![n] = @ \cup {o}]
      /\ local' = [local EXCEPT ![n] = [t \in LocalNames |-> res[t].st]]
      /\ notif' = [notif EXCEPT ![n] =
                     Append(@, [obj |-> o, active |-> active, packed |-> packed])]
      /\ fired' = fired \cup {Firing(c[1], n, o, c[2], n, {}) : c \in Calls(active, res)}
      /\ UNCHANGED <<coord, keyAddr, known, bucketNodes, avail, upd>>

(* The nodes notify_handler may pick for a call whose data is on the nodes D:
   one with the most free executors among D, else among all nodes, else none.
   The iteration order of the maps breaks ties. *)
RouteTo(D, left) ==
  LET best(S) == {x \in S : left[x] > 0 /\ \A y \in S : left[y] <= left[x]}
  IN  IF best(D) # {} THEN best(D)
      ELSE IF best(Nodes) # {} THEN best(Nodes) ELSE {NoNode}

(* Every notification with an active trigger taken as fully handled. *)
MutSkipAll(m, res) ==
  IF m.active = {} THEN {t \in TriggerNames : res[t].actions # {}} ELSE {}

(* No trigger skipped. *)
MutSkipNone(m, res) == {t \in TriggerNames : res[t].actions # {}}

(* The triggers the coordinator fires for notification m: those with an
   action, without the ones that already took effect on the sender. *)
ToFire(m, res) == {t \in TriggerNames \ m.active : res[t].actions # {}}

(* The coordinator sends the calls `acts', caused by object o, one after the
   other (in the order of `rank'), each to a node that RouteTo allows given
   the executors left by the calls before it.  The arguments are values when
   all of them are known, otherwise names, each with the address that begin()
   returns for its key (`first').  A call that finds no executor is logged and
   dropped. *)
Dispatch(o, acts, vals, addr) ==
  LET byRef == {c \in acts : ~(c[2] \subseteq vals)}
      keys  == {p.key : p \in UNION {c[2] : c \in byRef}}
  IN  \E rank \in [acts -> 1..Cardinality(acts)],
         dest \in [acts -> Nodes \cup {NoNode}], first \in [keys -> Nodes] :
        LET refs(c) == IF c \in byRef THEN {<<p, first[p.key]>> : p \in c[2]} ELSE {}
            taken(x, S) == Cardinality({d \in S : dest[d] = x})
            before(c) == {d \in acts : rank[d] < rank[c]}
        IN  /\ \A c, d \in acts : rank[c] = rank[d] => c = d
            /\ \A k \in keys : first[k] \in addr[k]
            /\ \A c \in acts :
                 dest[c] \in RouteTo({r[2] : r \in refs(c)},
                                    [x \in Nodes |-> avail[x] - taken(x, before(c))])
            /\ avail' = [x \in Nodes |-> avail[x] - taken(x, acts)]
            /\ fired' = fired \cup
                 {Firing(c[1], Coordinator, o, c[2], dest[c], refs(c)) : c \in acts}

(* The clear messages for the triggers `names' to the nodes of the bucket. *)
SendClear(names, session, nodes) ==
  upd' = [x \in Nodes |->
            IF names # {} /\ x \in nodes
            THEN Append(upd[x], [names |-> names, session |-> session])
            ELSE upd[x]]

(* The address recorded for the bucket instead of the key. *)
MutUpdateBucketAddress(k, n) == [x \in Keys |-> keyAddr[x] \cup {n}]

(* update_address: n is recorded as holding key k, for whatever session. *)
UpdateAddress(k, n) == [keyAddr EXCEPT ![k] = @ \cup {n}]

(* The triggers named in the notification skipped before their evaluation. *)
MutSkipEvaluation(m, res) ==
  [t \in TriggerNames |-> IF t \in m.active THEN coord[t] ELSE res[t].st]

(* All copies are evaluated, those of the triggers skipped afterwards too. *)
NewCopies(m, res) == [t \in TriggerNames |-> res[t].st]

(* notify_handler for the oldest notification of node n.  The value sent
   along is kept; the node is recorded as holding the key; the copies of the
   triggers are evaluated and the calls of those not skipped are sent. *)
HandleNotify(n) ==
  LET m    == Head(notif[n])
      o    == m.obj
      addr == UpdateAddress(o.key, n)
      vals == IF m.packed THEN known \cup {o} ELSE known
  IN  /\ notif[n] # <<>>
      /\ notif' = [notif EXCEPT ![n] = Tail(@)]
      /\ keyAddr' = addr
      /\ known' = vals
      /\ bucketNodes' = bucketNodes \cup {n}
      /\ \E due \in SUBSET TimedNames :
           LET res == Evaluate(TriggerNames, coord, o, due)
           IN  /\ coord' = NewCopies(m, res)
               /\ Dispatch(o, Calls(ToFire(m, res), res), vals, addr)
               /\ SendClear(ToFire(m, res) \ TimedNames, o.session, bucketNodes \cup {n})
      /\ UNCHANGED <<stored, local>>

(* A node takes a clear message from the coordinator (try_recv_msg, type 1). *)
HandleClear(n) ==
  /\ upd[n] # <<>>
  /\ upd' = [upd EXCEPT ![n] = Tail(@)]
  /\ local' = [local EXCEPT ![n] =
                 [t \in LocalNames |->
                    IF t \in Head(upd[n]).names
                    THEN ClearTrigger(Primitive[t], local[n][t], Head(upd[n]).session)
                    ELSE local[n][t]]]
  /\ UNCHANGED <<stored, notif, coord, keyAddr, known, bucketNodes, avail, fired>>

(* The coordinator takes a status message of node n, which reports the
   number of its free executors every schedTimerThreshold. *)
HandleStatus(n, free) ==
  /\ avail' = [avail EXCEPT ![n] = free]
  /\ UNCHANGED <<stored, local, notif, coord, keyAddr, known, bucketNodes, upd, fired>>

Next ==
  \E n \in Nodes :
    \/ \E o \in Objects, packed \in Packing : SendObject(n, o, packed)
    \/ HandleNotify(n)
    \/ HandleClear(n)
    \/ \E free \in 0..MaxAvail : HandleStatus(n, free)

Spec == Init /\ [][Next]_vars

(* Both ends of the channels are polled in endless loops. *)
Fairness == \A n \in Nodes : WF_vars(HandleNotify(n)) /\ WF_vars(HandleClear(n))
FairSpec == Spec /\ Fairness

-----------------------------------------------------------------------------
Places == Nodes \cup {Coordinator}
Message == [obj : Objects, active : SUBSET LocalNames, packed : BOOLEAN]
State == [buffer : Seq(Objects), prepared : SUBSET Objects, count : Nat,
          control : SUBSET Keys, data : SUBSET Keys]

ClearType == [names : SUBSET LocalNames, session : Sessions]
FiringType == [name : TriggerNames, at : Places, cause : Objects, objs : SUBSET Objects,
               dest : Nodes \cup {NoNode}, refs : SUBSET (Objects \X Nodes)]

(* Type invariant of the bucket's state on the nodes and the coordinator; in
   particular the coordinator never books more executors than a node has. *)
TypeOK ==
  /\ stored \in [Nodes -> SUBSET Objects]
  /\ local \in [Nodes -> [LocalNames -> State]]
  /\ notif \in [Nodes -> Seq(Message)]
  /\ coord \in [TriggerNames -> State]
  /\ keyAddr \in [Keys -> SUBSET Nodes]
  /\ known \in SUBSET Objects
  /\ bucketNodes \in SUBSET Nodes
  /\ avail \in [Nodes -> 0..MaxAvail]
  /\ upd \in [Nodes -> Seq(ClearType)]
  /\ fired \subseteq FiringType

(* The objects of node n's notifications that the coordinator has not
   handled, and the objects it has handled. *)
Queued(n) == {notif[n][i].obj : i \in DOMAIN notif[n]}
Handled == Sent \ UNION {Queued(n) : n \in Nodes}

(* The arguments of a firing of by-set trigger t for session s. *)
SetObjects(t, s) == {Obj(s, k) : k \in Primitive[t].key_set}

(* No object is handed to the same trigger's function by two firings. *)
ConsumedOnce(t) ==
  \A f, g \in fired : f.name = t /\ g.name = t /\ f # g => f.objs \cap g.objs = {}

(* The primitives whose two copies stay consistent whatever the interleaving. *)
SafeTypes == {"IMMEDIATE", "BY_NAME", "BY_SET", "BY_TIME"}

(* Immediate, by-name, by-set and by-time triggers consume an object at most
   once, however the node's evaluation, the coordinator's evaluation and the
   clear messages of notify_handler interleave. *)
SafeTriggersConsumeOnce ==
  \A t \in TriggerNames : Primitive[t].type \in SafeTypes => ConsumedOnce(t)

(* No primitive consumes an object twice: what "skip the active trigger, which
   has already taken effect in local scheduler" in notify_handler is for. *)
AllTriggersConsumeOnce == \A t \in TriggerNames : ConsumedOnce(t)

(* When one node sends all objects, no primitive consumes one twice, on the
   node or at the coordinator.  A dynamic-group trigger keeps its keys without
   their sessions: with several control keys a round that began with one
   session ends with another, so only one with a single control key does. *)
OneSenderConsumesOnce ==
  \A n \in Nodes : Sent = stored[n] =>
    \A t \in TriggerNames :
      \/ ConsumedOnce(t)
      \/ /\ Primitive[t].type = "DYNAMIC_GROUP"
         /\ Cardinality(Primitive[t].control_group) # 1

(* A call is only made for objects that functions have sent: a by-set firing
   never runs ahead of the slowest of its sources. *)
FiredObjectsSent ==
  \A f \in fired : Primitive[f.name].type # "DYNAMIC_GROUP" => f.objs \subseteq Sent

(* The node that a call of notify_handler is told to fetch an argument from
   holds that argument. *)
DataAddressHolds ==
  \A f \in fired : \A r \in f.refs : r[1] \in stored[r[2]]

(* A by-time trigger loses nothing: every object the coordinator has been
   notified of is in the open window or was handed out. *)
WindowKeepsObjects ==
  \A t \in TimedNames :
    Handled = Elements(coord[t].buffer) \cup UNION {f.objs : f \in {g \in fired : g.name = t}}

(* The coordinator's copy of a trigger is a delayed replica of the node's when
   one node sends all objects: with nothing in flight both have the same state. *)
CopiesAgree ==
  \A n \in Nodes :
    bucketNodes \subseteq {n} /\ notif[n] = <<>> /\ Sent = stored[n] =>
      \A t \in LocalNames : coord[t] = local[n][t]

(* Once all objects of a by-set trigger's session have been sent, on whichever
   nodes, the trigger fires for that session. *)
CompleteSetFires ==
  \A t \in TriggerNames : Primitive[t].type = "BY_SET" =>
    \A s \in Sessions :
      (\A k \in Primitive[t].key_set : Obj(s, k) \in Sent)
        ~> (\E f \in fired : f.name = t /\ f.cause.session = s)

-----------------------------------------------------------------------------
(* The parts of the inductive invariant behind SafeTriggersConsumeOnce,
   FiredObjectsSent and WindowKeepsObjects. *)

(* An object is sent on one node; a notification in flight is for an object
   of its sender, and no two are for the same object. *)
ChannelInv ==
  /\ \A n, x \in Nodes : n # x => stored[n] \cap stored[x] = {}
  /\ \A n \in Nodes :
       /\ Queued(n) \subseteq stored[n]
       /\ \A i, j \in DOMAIN notif[n] : notif[n][i].obj = notif[n][j].obj => i = j

(* A by-set trigger collects keys of its key set only. *)
KeysPrepared(t, st) ==
  Primitive[t].type = "BY_SET" => \A p \in st.prepared : p.key \in Primitive[t].key_set

(* A node's copy of a trigger holds objects of the node, the coordinator's
   copy holds objects the coordinator was notified of. *)
CopyInv ==
  /\ \A n \in Nodes, t \in LocalNames :
       /\ Elements(local[n][t].buffer) \cup local[n][t].prepared \subseteq stored[n]
       /\ KeysPrepared(t, local[n][t])
  /\ \A t \in TriggerNames :
       /\ Elements(coord[t].buffer) \cup coord[t].prepared \subseteq Handled
       /\ KeysPrepared(t, coord[t])

(* Does single-object trigger t want object o? *)
Wants(t, o) ==
  \/ Primitive[t].type = "IMMEDIATE"
  \/ Primitive[t].type = "BY_NAME" /\ o.key = Primitive[t].key_name

(* Immediate and by-name triggers fire on the sending node only, which says
   so in the notification. *)
SingleInv ==
  \A t \in TriggerNames : Primitive[t].type \in {"IMMEDIATE", "BY_NAME"} =>
    /\ \A f \in fired : f.name = t =>
         /\ f.at \in Nodes /\ f.cause \in stored[f.at]
         /\ f = Firing(t, f.at, f.cause, {f.cause}, f.at, {})
    /\ \A n \in Nodes : \A i \in DOMAIN notif[n] :
         Wants(t, notif[n][i].obj) => t \in notif[n][i].active

(* The last of node n's notifications in flight that is for an object of S
   names t as active. *)
LastSaysActive(n, S, t) ==
  \A i \in DOMAIN notif[n] :
    /\ notif[n][i].obj \in S
    /\ \A j \in DOMAIN notif[n] : j > i => notif[n][j].obj \notin S
    => t \in notif[n][i].active

(* A by-set trigger fires once per session: at the coordinator, for objects
   it has been notified of, or on the node that holds all the objects, and
   then the coordinator learns of it with the last of them. *)
SetInv ==
  \A t \in TriggerNames : Primitive[t].type = "BY_SET" =>
    /\ \A f \in fired : f.name = t =>
         /\ f.objs = SetObjects(t, f.cause.session) /\ f.cause \in f.objs
         /\ f.at = Coordinator => f.objs \subseteq Handled
         /\ f.at \in Nodes => f.objs \subseteq stored[f.at] /\ LastSaysActive(f.at, f.objs, t)
    /\ \A f, g \in fired :
         f.name = t /\ g.name = t /\ f.cause.session = g.cause.session => f = g

(* The windows of a by-time trigger, closed and open, are disjoint. *)
WindowInv ==
  \A t \in TimedNames :
    /\ \A f \in fired : f.name = t =>
         /\ f.objs \subseteq Handled
         /\ f.objs \cap Elements(coord[t].buffer) = {}
    /\ ConsumedOnce(t)

SyncInv ==
  ChannelInv /\ CopyInv /\ SingleInv /\ SetInv /\ WindowInv /\ WindowKeepsObjects
=============================================================================
