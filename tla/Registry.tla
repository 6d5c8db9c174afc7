------------------------------ MODULE Registry ------------------------------
(***************************************************************************)
(* Applications, buckets and triggers: the manager gives every application *)
(* one coordinator, clients create and delete buckets and triggers there,  *)
(* and the coordinator tells the nodes it knows about, over one ordered    *)
(* channel to each, what they need in order to evaluate triggers.          *)
(*                                                                         *)
(* A trigger is its name; the names in Timed are those of by-time triggers,*)
(* which only coordinators evaluate.  A coordinator erases all triggers of *)
(* a name at once, so its vector is the set of names in it; a node erases  *)
(* one of them, so its vector is the number of triggers of each name.      *)
(***************************************************************************)
EXTENDS Naturals, Sequences

CONSTANTS
  Coords, Nodes, Apps, Buckets, Names, Timed,
  Uses,      \* the pairs of an application and a bucket that clients use
  Added, Deleted, Registered,
             \* the triggers that clients add, delete, and get by registration
  MaxOps,    \* bound on the requests of clients
  None

ASSUME TimedNames == Timed \subseteq Names /\ None \notin Names \cup Coords \cup Apps
ASSUME UsesPairs == Uses \subseteq Apps \X Buckets /\ Added \cup Deleted \cup Registered \subseteq Names
ASSUME Bounds == MaxOps \in Nat

VARIABLES
  members,    \* coordinators that reported to the manager (coord_ips)
  home,       \* application -> its coordinator (app_coord_map)
  owner,      \* coordinator -> bucket -> application (bucket_app_map)
  appBuckets, \* coordinator -> application -> buckets (app_buckets_map)
  trig,       \* coordinator -> bucket -> triggers (bucket_triggers_map)
  known,      \* coordinator -> nodes that reported to it (node_status_map)
  upd,        \* coordinator -> node -> UpdateCoordMsgs under way
  nodeTrig,   \* node -> bucket -> name -> triggers (its bucket_triggers_map)
  nodeCoord,  \* node -> bucket -> coordinator to notify (bucket_coord_map_)
  nodeApp,    \* node -> application -> coordinator (app_coord_map_)
  up,         \* nodes that run
  ops,        \* requests handled so far
  missed      \* history: the <<c, n>> such that c announced something before
              \* it knew n

coordVars == <<owner, appBuckets, trig>>
nodeVars == <<nodeTrig, nodeCoord, nodeApp, up>>
vars == <<members, home, coordVars, known, upd, nodeVars, ops, missed>>

Init ==
  /\ members = {}
  /\ home = [a \in Apps |-> None]
  /\ owner = [c \in Coords |-> [b \in Buckets |-> None]]
  /\ appBuckets = [c \in Coords |-> [a \in Apps |-> {}]]
  /\ trig = [c \in Coords |-> [b \in Buckets |-> {}]]
  /\ known = [c \in Coords |-> {}]
  /\ upd = [c \in Coords |-> [n \in Nodes |-> <<>>]]
  /\ nodeTrig = [n \in Nodes |-> [b \in Buckets |-> [t \in Names |-> 0]]]
  /\ nodeCoord = [n \in Nodes |-> [b \in Buckets |-> None]]
  /\ nodeApp = [n \in Nodes |-> [a \in Apps |-> None]]
  /\ up = Nodes
  /\ ops = 0
  /\ missed = {}

-----------------------------------------------------------------------------
(* A coordinator reports to the manager. *)
CoordSync(c) ==
  /\ members' = members \cup {c}
  /\ UNCHANGED <<home, coordVars, known, upd, nodeVars, ops, missed>>

(* A client asks for the coordinator of an application; any member is picked
   the first time (with none, the manager divides by zero). *)
CoordQuery(a) ==
  /\ home[a] = None
  /\ \E c \in members : home' = [home EXCEPT ![a] = c]
  /\ UNCHANGED <<members, coordVars, known, upd, nodeVars, ops, missed>>

(* A node's status message reaches coordinator c. *)
Join(n, c) ==
  /\ n \in up
  /\ known' = [known EXCEPT ![c] = @ \cup {n}]
  /\ UNCHANGED <<members, home, coordVars, upd, nodeVars, ops, missed>>

(* c sends message m to all nodes that it knows. *)
Announce(c, m) ==
  /\ upd' = [upd EXCEPT ![c] = [n \in Nodes |-> IF n \in known[c] THEN Append(@[n], m) ELSE @[n]]]
  /\ missed' = missed \cup {<<c, n>> : n \in Nodes \ known[c]}

(* A message with triggers to add, or with a trigger to delete. *)
AddMsg(a, entries) == [type |-> 0, app |-> a, triggers |-> entries]
DeleteMsg(b, t) == [type |-> 2, app |-> None, triggers |-> {<<b, t>>}]

(* A client's request to the coordinator of application a. *)
Request(a) ==
  /\ ops < MaxOps /\ home[a] # None
  /\ ops' = ops + 1
  /\ UNCHANGED <<members, home, known, nodeVars>>

CreateBucket(a, b) ==
  LET c == home[a]
  IN  /\ Request(a)
      /\ IF owner[c][b] # None     \* BUCKET_EXIST
         THEN UNCHANGED coordVars
         ELSE /\ owner' = [owner EXCEPT ![c][b] = a]
              /\ appBuckets' = [appBuckets EXCEPT ![c][a] = @ \cup {b}]
              /\ UNCHANGED trig
      /\ UNCHANGED <<upd, missed>>

(* The application's set of buckets not updated. *)
MutDeleteBucket(a, b) ==
  LET c == home[a]
  IN  /\ Request(a)
      /\ owner' = [owner EXCEPT ![c][b] = None]
      /\ trig' = [trig EXCEPT ![c][b] = {}]
      /\ UNCHANGED <<appBuckets, upd, missed>>

(* The bucket goes with its triggers; the nodes are not told. *)
DeleteBucket(a, b) ==
  LET c == home[a]
  IN  /\ Request(a)
      /\ IF owner[c][b] = None     \* BUCKET_NE
         THEN UNCHANGED coordVars
         ELSE /\ owner' = [owner EXCEPT ![c][b] = None]
              /\ appBuckets' = [appBuckets EXCEPT ![c][a] = @ \ {b}]
              /\ trig' = [trig EXCEPT ![c][b] = {}]
      /\ UNCHANGED <<upd, missed>>

(* The nodes are told of no trigger. *)
MutEntries(b, t) == {}

(* What the nodes are told of a trigger added by request. *)
Entries(b, t) == IF t \in Timed THEN {} ELSE {<<b, t>>}

(* A message goes out even if the bucket does not exist. *)
AddTrigger(a, b, t) ==
  LET c == home[a]
  IN  /\ Request(a)
      /\ IF owner[c][b] # None
         THEN /\ trig' = [trig EXCEPT ![c][b] = @ \cup {t}]
              /\ Announce(c, AddMsg(a, Entries(b, t)))
         ELSE /\ UNCHANGED trig    \* BUCKET_NE
              /\ Announce(c, AddMsg(a, {}))
      /\ UNCHANGED <<owner, appBuckets>>

(* The nodes are told whether or not the trigger was there. *)
MutDeleteTrigger(a, b, t) ==
  LET c == home[a]
  IN  /\ Request(a)
      /\ trig' = [trig EXCEPT ![c][b] = @ \ {t}]
      /\ Announce(c, DeleteMsg(b, t))
      /\ UNCHANGED <<owner, appBuckets>>

(* All triggers of that name are erased; the client leaves app_name empty. *)
DeleteTrigger(a, b, t) ==
  LET c == home[a]
      found == owner[c][b] # None /\ t \in trig[c][b]
  IN  /\ Request(a)
      /\ IF found
         THEN /\ trig' = [trig EXCEPT ![c][b] = @ \ {t}]
              /\ Announce(c, DeleteMsg(b, t))
         ELSE /\ UNCHANGED trig
              /\ Announce(c, AddMsg(None, {}))
      /\ UNCHANGED <<owner, appBuckets>>

(* What the nodes are told of the dependencies that are not direct: the entry
   of a by-time trigger (PERIODIC) has no trigger name. *)
EntriesOf(deps) == {<<d[1], IF d[2] \in Timed THEN None ELSE d[2]>> : d \in deps}

BucketsOf(deps) == {d[1] : d \in deps}

(* An application is registered: the target bucket of every dependency that is
   not direct is made and gets its trigger. *)
RegisterApp(a, deps) ==
  LET c == home[a]
      bs == BucketsOf(deps)
  IN  /\ Request(a)
      /\ owner' = [owner EXCEPT ![c] = [b \in Buckets |-> IF b \in bs THEN a ELSE @[b]]]
      /\ appBuckets' = [appBuckets EXCEPT ![c][a] = @ \cup bs]
      /\ trig' = [trig EXCEPT ![c] = [b \in Buckets |-> @[b] \cup {t \in Names : <<b, t>> \in deps}]]
      /\ Announce(c, AddMsg(a, EntriesOf(deps)))

-----------------------------------------------------------------------------
(* The vectors of a node with a trigger more, or less, for each entry of es. *)
Plus(rows, es) ==
  [b \in Buckets |-> [t \in Names |-> IF <<b, t>> \in es THEN rows[b][t] + 1 ELSE rows[b][t]]]
Minus(rows, es) ==
  [b \in Buckets |-> [t \in Names |-> IF <<b, t>> \in es THEN rows[b][t] - 1 ELSE rows[b][t]]]

(* A node takes the triggers of a message of coordinator c, and notifies c of
   the objects of their buckets from now on. *)
AddTriggers(n, c, m) ==
  /\ nodeApp' = [nodeApp EXCEPT ![n] = [a \in Apps |-> IF a = m.app THEN c ELSE @[a]]]
  /\ nodeCoord' = [nodeCoord EXCEPT ![n] =
       [b \in Buckets |-> IF \E e \in m.triggers : e[1] = b THEN c ELSE @[b]]]
  /\ nodeTrig' = [nodeTrig EXCEPT ![n] = Plus(@, m.triggers)]
  /\ UNCHANGED up

(* It erases the first trigger of the name.  The search for one that the node
   does not have runs past the end of the vector: the node is taken to crash. *)
DeleteTriggers(n, m) ==
  /\ IF \E e \in m.triggers : nodeTrig[n][e[1]][e[2]] = 0
     THEN up' = up \ {n} /\ UNCHANGED nodeTrig
     ELSE nodeTrig' = [nodeTrig EXCEPT ![n] = Minus(@, m.triggers)] /\ UNCHANGED up
  /\ UNCHANGED <<nodeApp, nodeCoord>>

(* A node takes an UpdateCoordMsg of coordinator c (clear messages, type 1, are
   in TriggerSync). *)
Update(n, c) ==
  LET m == Head(upd[c][n])
  IN  /\ n \in up /\ upd[c][n] # <<>>
      /\ upd' = [upd EXCEPT ![c][n] = Tail(@)]
      /\ IF m.type = 0 THEN AddTriggers(n, c, m) ELSE DeleteTriggers(n, m)
      /\ UNCHANGED <<members, home, coordVars, known, ops, missed>>

(* The dependencies that application a can register with. *)
Dependencies(a) == {u[2] : u \in {u \in Uses : u[1] = a}} \X Registered

Next ==
  \/ \E c \in Coords : CoordSync(c) \/ \E n \in Nodes : Join(n, c) \/ Update(n, c)
  \/ \E a \in Apps : CoordQuery(a) \/ \E deps \in SUBSET Dependencies(a) : RegisterApp(a, deps)
  \/ \E u \in Uses : \/ CreateBucket(u[1], u[2]) \/ DeleteBucket(u[1], u[2])
                     \/ \E t \in Added : AddTrigger(u[1], u[2], t)
                     \/ \E t \in Deleted : DeleteTrigger(u[1], u[2], t)

Spec == Init /\ [][Next]_vars

-----------------------------------------------------------------------------
(* The UpdateCoordMsgs. *)
Message == [type : {0, 2}, app : Apps \cup {None}, triggers : SUBSET (Buckets \X (Names \cup {None}))]

(* Type invariant. *)
TypeOK ==
  /\ members \subseteq Coords
  /\ home \in [Apps -> Coords \cup {None}]
  /\ owner \in [Coords -> [Buckets -> Apps \cup {None}]]
  /\ appBuckets \in [Coords -> [Apps -> SUBSET Buckets]]
  /\ trig \in [Coords -> [Buckets -> SUBSET Names]]
  /\ known \in [Coords -> SUBSET Nodes]
  /\ upd \in [Coords -> [Nodes -> Seq(Message)]]
  /\ nodeTrig \in [Nodes -> [Buckets -> [Names -> Nat]]]
  /\ nodeCoord \in [Nodes -> [Buckets -> Coords \cup {None}]]
  /\ nodeApp \in [Nodes -> [Apps -> Coords \cup {None}]]
  /\ up \subseteq Nodes
  /\ ops \in 0..MaxOps
  /\ missed \subseteq Coords \X Nodes

(* A coordinator's two maps of buckets agree, and "it means the bucket has been
   created, so we return the error": a bucket is created at one coordinator
   only.  The variables have their types. *)
BucketMapsAgree ==
  /\ TypeOK
  /\ \A c \in Coords, a \in Apps, b \in Buckets :
       b \in appBuckets[c][a] <=> owner[c][b] = a
  /\ \A b \in Buckets : \A c, d \in Coords :
       owner[c][b] # None /\ owner[d][b] # None => c = d

(* Node n has heard all that coordinator c ever announced. *)
InStep(c, n) == <<c, n>> \notin missed /\ n \in up /\ upd[c][n] = <<>>

(* A node in step with the coordinator of a bucket has every trigger of the
   bucket that it has to evaluate, however often names were added and deleted
   and buckets were made anew, and it notifies that coordinator. *)
NoTriggerMissing ==
  \A c \in Coords, n \in Nodes, b \in Buckets :
    InStep(c, n) =>
      /\ \A t \in trig[c][b] \ Timed : nodeTrig[n][b][t] > 0
      /\ trig[c][b] # {} => nodeCoord[n][b] = c

(* A node that was there from the start never looks for a trigger that it does
   not have. *)
NodesSurvive == \A n \in Nodes \ up : \E c \in Coords : <<c, n>> \in missed

=============================================================================
