---------------------------- MODULE ObjectFetch ----------------------------
(***************************************************************************)
(* How a node gets objects of other nodes: the arguments of calls that the *)
(* coordinator or another node sent (arg_flag > 0), and the objects that   *)
(* functions read with get_object.                                         *)
(*                                                                         *)
(* I/O threads receive calls and data, and send data requests; the         *)
(* scheduler's loop takes what they received from their queues and keeps   *)
(* the calls and gets that wait.  Requests and answers of one key are      *)
(* counted, not ordered: they go through any of the threads.               *)
(***************************************************************************)
EXTENDS Naturals, FiniteSets

CONSTANTS
  Keys,          \* names of objects
  Calls, Args,   \* call -> keys of its arguments
  Addr,          \* call -> key -> node said to hold it (data_address)
  Gets, GetKey,  \* get requests of functions, and the key each asks for
  Others, Holds, \* other nodes, and the keys each holds
  NoAddr

ASSUME ArgsKeys == Args \in [Calls -> SUBSET Keys] /\ GetKey \in [Gets -> Keys]
ASSUME AddrNodes == Addr \in [Calls -> [Keys -> Others]] /\ NoAddr \notin Others
ASSUME HoldsKeys == Holds \in [Others -> SUBSET Keys]

VARIABLES
  here,      \* keys of the objects on this node (key_len_map)
  cache,     \* key -> node (key_address_cache_)
  stage,     \* call -> where it is: away, received by an I/O thread, taken
  missing,   \* call -> arguments it waits for (call_id_inflight_args_map)
  waiting,   \* key -> calls that wait for it (key_call_id_map)
  asked,     \* gets that functions have made
  readers,   \* key -> gets that wait for it (key_remote_get_map)
  queued,    \* key -> data requests in the queues of the I/O threads
  sent,      \* node -> key -> data requests on their way to it
  data,      \* key -> objects on their way to this node
  arrived,   \* key -> objects received by an I/O thread
  runs,      \* history: call -> how often it was passed to schedule_func_call
  answered   \* history: get -> how often it was answered

vars == <<here, cache, stage, missing, waiting, asked, readers, queued, sent, data,
          arrived, runs, answered>>

Init ==
  /\ here = {}
  /\ cache = [k \in Keys |-> NoAddr]
  /\ stage = [c \in Calls |-> "away"]
  /\ missing = [c \in Calls |-> {}]
  /\ waiting = [k \in Keys |-> {}]
  /\ asked = {}
  /\ readers = [k \in Keys |-> {}]
  /\ queued = [k \in Keys |-> 0]
  /\ sent = [n \in Others |-> [k \in Keys |-> 0]]
  /\ data = [k \in Keys |-> 0]
  /\ arrived = [k \in Keys |-> 0]
  /\ runs = [c \in Calls |-> 0]
  /\ answered = [g \in Gets |-> 0]

(* As many more for the elements of S. *)
Plus(f, S) == [x \in DOMAIN f |-> IF x \in S THEN f[x] + 1 ELSE f[x]]
Minus(f, x) == [f EXCEPT ![x] = @ - 1]

-----------------------------------------------------------------------------
(* An I/O thread receives call c (handle_function_call).  emplace keeps the
   address that the cache already has for a key. *)
ReceiveCall(c) ==
  /\ stage[c] = "away"
  /\ stage' = [stage EXCEPT ![c] = "received"]
  /\ cache' = [k \in Keys |-> IF k \in Args[c] /\ cache[k] = NoAddr THEN Addr[c][k] ELSE cache[k]]
  /\ UNCHANGED <<here, missing, waiting, asked, readers, queued, sent, data, arrived, runs, answered>>

(* Only the first missing argument is requested. *)
MutOneRequest(c) ==
  LET need == Args[c] \ here
      new  == {k \in need : waiting[k] = {}}
  IN  /\ stage[c] = "received"
      /\ stage' = [stage EXCEPT ![c] = "taken"]
      /\ missing' = [missing EXCEPT ![c] = need]
      /\ waiting' = [k \in Keys |-> IF k \in need THEN waiting[k] \cup {c} ELSE waiting[k]]
      /\ queued' = IF new = {} THEN queued ELSE Plus(queued, {CHOOSE k \in new : TRUE})
      /\ runs' = IF need = {} THEN Plus(runs, {c}) ELSE runs
      /\ UNCHANGED <<here, cache, asked, readers, sent, data, arrived, answered>>

(* The loop takes a received call.  Its arguments that are not on the node are
   requested unless some call waits for them already. *)
TakeCall(c) ==
  LET need == Args[c] \ here
  IN  /\ stage[c] = "received"
      /\ stage' = [stage EXCEPT ![c] = "taken"]
      /\ missing' = [missing EXCEPT ![c] = need]
      /\ waiting' = [k \in Keys |-> IF k \in need THEN waiting[k] \cup {c} ELSE waiting[k]]
      /\ queued' = Plus(queued, {k \in need : waiting[k] = {}})
      /\ runs' = IF need = {} THEN Plus(runs, {c}) ELSE runs
      /\ UNCHANGED <<here, cache, asked, readers, sent, data, arrived, answered>>

(* A get request of a function (from_ephe_store). *)
TakeGet(g) ==
  LET k == GetKey[g]
  IN  /\ g \notin asked
      /\ asked' = asked \cup {g}
      /\ IF k \in here
         THEN /\ answered' = Plus(answered, {g})
              /\ UNCHANGED <<readers, queued>>
         ELSE /\ readers' = [readers EXCEPT ![k] = @ \cup {g}]
              /\ queued' = Plus(queued, {k})
              /\ UNCHANGED answered
      /\ UNCHANGED <<here, cache, stage, missing, waiting, sent, data, arrived, runs>>

(* An I/O thread sends a data request; without an address it is dropped. *)
SendDataReq(k) ==
  /\ queued[k] > 0
  /\ queued' = Minus(queued, k)
  /\ sent' = [n \in Others |-> IF n = cache[k] THEN Plus(sent[n], {k}) ELSE sent[n]]
  /\ UNCHANGED <<here, cache, stage, missing, waiting, asked, readers, data, arrived, runs, answered>>

(* Another node answers a data request, or logs that it has no such object. *)
HandleDataReq(n, k) ==
  /\ sent[n][k] > 0
  /\ sent' = [sent EXCEPT ![n] = Minus(@, k)]
  /\ data' = IF k \in Holds[n] THEN Plus(data, {k}) ELSE data
  /\ UNCHANGED <<here, cache, stage, missing, waiting, asked, readers, queued, arrived, runs, answered>>

(* An I/O thread receives an object. *)
ReceiveData(k) ==
  /\ data[k] > 0
  /\ data' = Minus(data, k)
  /\ arrived' = Plus(arrived, {k})
  /\ UNCHANGED <<here, cache, stage, missing, waiting, asked, readers, queued, sent, runs, answered>>

(* Every call that waits for the object is run. *)
MutReady(k) == waiting[k]

(* The calls that wait for key k alone. *)
Ready(k) == {c \in waiting[k] : missing[c] \subseteq {k}}

(* The waiting gets left in the map. *)
MutTakeData(k) ==
  /\ arrived[k] > 0
  /\ arrived' = Minus(arrived, k)
  /\ here' = here \cup {k}
  /\ answered' = Plus(answered, readers[k])
  /\ missing' = [c \in Calls |-> IF c \in waiting[k] THEN missing[c] \ {k} ELSE missing[c]]
  /\ runs' = Plus(runs, Ready(k))
  /\ waiting' = [waiting EXCEPT ![k] = {}]
  /\ UNCHANGED <<cache, stage, asked, readers, queued, sent, data>>

(* The loop takes a received object: the gets that wait for it are answered,
   and the calls that waited for nothing else are scheduled. *)
TakeData(k) ==
  /\ arrived[k] > 0
  /\ arrived' = Minus(arrived, k)
  /\ here' = here \cup {k}
  /\ answered' = Plus(answered, readers[k])
  /\ readers' = [readers EXCEPT ![k] = {}]
  /\ missing' = [c \in Calls |-> IF c \in waiting[k] THEN missing[c] \ {k} ELSE missing[c]]
  /\ runs' = Plus(runs, Ready(k))
  /\ waiting' = [waiting EXCEPT ![k] = {}]
  /\ UNCHANGED <<cache, stage, asked, queued, sent, data>>

Next ==
  \/ \E c \in Calls : ReceiveCall(c) \/ TakeCall(c)
  \/ \E g \in Gets : TakeGet(g)
  \/ \E k \in Keys : \/ SendDataReq(k) \/ ReceiveData(k) \/ TakeData(k)
                     \/ \E n \in Others : HandleDataReq(n, k)

Spec == Init /\ [][Next]_vars

(* All threads of all nodes loop for ever; functions may or may not read. *)
Fairness ==
  /\ \A c \in Calls : WF_vars(ReceiveCall(c)) /\ WF_vars(TakeCall(c))
  /\ \A k \in Keys : /\ WF_vars(SendDataReq(k)) /\ WF_vars(ReceiveData(k)) /\ WF_vars(TakeData(k))
                     /\ \A n \in Others : WF_vars(HandleDataReq(n, k))
FairSpec == Spec /\ Fairness

-----------------------------------------------------------------------------
(* Type invariant. *)
TypeOK ==
  /\ here \in SUBSET Keys
  /\ cache \in [Keys -> Others \cup {NoAddr}]
  /\ stage \in [Calls -> {"away", "received", "taken"}]
  /\ missing \in [Calls -> SUBSET Keys]
  /\ waiting \in [Keys -> SUBSET Calls]
  /\ asked \in SUBSET Gets
  /\ readers \in [Keys -> SUBSET Gets]
  /\ queued \in [Keys -> Nat]
  /\ sent \in [Others -> [Keys -> Nat]]
  /\ data \in [Keys -> Nat]
  /\ arrived \in [Keys -> Nat]
  /\ runs \in [Calls -> Nat]
  /\ answered \in [Gets -> Nat]

(* The two maps of waiting calls agree: a call is listed under exactly the
   arguments that are not on the node yet, so that no answer finds a call that is gone (operator[]
   would make an empty one and schedule it). *)
MapsAgree ==
  /\ \A k \in Keys : waiting[k] = {c \in Calls : k \in missing[c]}
  /\ \A c \in Calls : missing[c] = IF stage[c] = "taken" THEN Args[c] \ here ELSE {}

(* A call is scheduled once, when its last argument has come, however many
   answers come for the keys it shares with other calls and gets. *)
RunsWhenComplete ==
  \A c \in Calls : runs[c] = IF stage[c] = "taken" /\ Args[c] \subseteq here THEN 1 ELSE 0

(* A get is answered once, as soon as the object is on the node. *)
GetsAnsweredOnce ==
  \A g \in Gets :
    /\ answered[g] = IF g \in asked /\ GetKey[g] \in here THEN 1 ELSE 0
    /\ \A k \in Keys : g \in readers[k] <=> g \in asked /\ k = GetKey[g] /\ k \notin here

(* Every call whose arguments are where it says is scheduled in the end. *)
CallsStart == \A c \in Calls : <>(runs[c] = 1)
=============================================================================
