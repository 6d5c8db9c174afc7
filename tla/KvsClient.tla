------------------------------ MODULE KvsClient ------------------------------
(***************************************************************************)
(* Reading and writing the durable store: a function calls get_object or   *)
(* send_object (function_lib.hpp), the scheduler notes the request and     *)
(* hands it to an I/O thread (scheduler_server.cpp, comm_helper.hpp), and  *)
(* the thread's client of the Anna key-value store (kvs_client.hpp) finds  *)
(* out which server holds the key, sends the request, retries it when the  *)
(* server moved the key or does not answer, and returns what arrived.      *)
(*                                                                         *)
(* Anna itself, external, is a routing tier that knows the owners of a key *)
(* and servers that hold the last value written.  Messages are lost and    *)
(* overtake each other.  An operation's number stands for the value it     *)
(* writes; `issued` lists the puts by timestamp.  Request ids of the client *)
(* are fresh (the counter grows by two and wraps after 2^31 of them), and  *)
(* io_thread_count is above one, so that the I/O threads do the work.  A   *)
(* worker is a node of Anna: the client compares the IP of an address.     *)
(***************************************************************************)
EXTENDS Naturals, Sequences, SequencesExt, FiniteSets, Bags, BagsExt, TLC

CONSTANTS Execs, Keys, Workers,
          Placements,   \* the sets of workers that may own a key
          IoThreads,    \* I/O threads, the scheduler's own included
          IdMod,        \* request ids of an executor: 0..IdMod-1 (100)
          MaxOps,       \* how many operations the functions issue
          MaxFaults,    \* how often a message is lost, a key moves, the client
                        \* or an executor gives up on what is under way
          None

ASSUME KvsAssumption ==
  /\ IoThreads \in Nat \ {0, 1}
  /\ IdMod \in Nat \ {0}
  /\ Placements \subseteq SUBSET Workers /\ None \notin Workers

VARIABLES
    pc, rid, cur, got,   \* executor: where it is, its id counter, its operation, the answer to it
    chan,                \* answers on the way to an executor
    key_remote_get_map, key_ksv_put_map,  \* scheduler: requests in flight
    tasks, resps,        \* queues to and from the I/O threads
    client,              \* the KvsClient of each thread
    copy,                \* the shared-memory object a key's value is copied to
    net,                 \* messages on the network (a bag)
    owners, store,       \* Anna
    count,               \* how much of each bound is used up
    issued, need, missing, overlap, acked \* history (see the properties)

executors == <<pc, rid, cur, got, chan>>
scheduler == <<key_remote_get_map, key_ksv_put_map>>
iothreads == <<tasks, resps, client, copy>>
anna == <<owners, store>>
history == <<issued, need, missing, overlap, acked>>
vars == <<executors, scheduler, iothreads, net, anna, count, history>>

Threads == 1..(IoThreads - 1)
Request == [type : {"GET", "PUT"}, key : Keys, op : 0..MaxOps]
GetReq(k) == [type |-> "GET", key |-> k, op |-> 0]
Rands(n) == [1..n -> 0..(Cardinality(Workers) - 1)]

-----------------------------------------------------------------------------
(* KvsClient, as functions of its state c and of the message it sends,      *)
(* c.out.  rand[i] is what rand_r returns for the i-th message.             *)

NewClient ==
  [cache |-> [k \in Keys |-> {}], requests |-> [k \in Keys |-> <<>>],
   gets |-> [k \in Keys |-> None], puts |-> {}, out |-> <<>>]

get_worker_thread(addresses, r) ==
  SetToSeq(addresses)[(r % Cardinality(addresses)) + 1]

query_routing_async(c, k) ==
  [c EXCEPT !.out = Append(@, [kind |-> "query", key |-> k])]

(* get_all_worker_threads asks the routing tier unless it has been asked;   *)
(* the request then waits for the answer.                                   *)
AwaitAddress(c, req) ==
  LET asked == IF c.requests[req.key] = <<>>
               THEN query_routing_async(c, req.key) ELSE c
  IN  [asked EXCEPT !.requests[req.key] = Append(@, req)]

SendTo(c, req, w) ==
  LET sent == [c EXCEPT !.out = Append(@,
                 [kind |-> "request", to |-> w, req |-> req,
                  known |-> Cardinality(c.cache[req.key])])]
  IN  IF req.type = "GET"
      THEN [sent EXCEPT !.gets[req.key] = w]
      ELSE [sent EXCEPT !.puts = {p \in @ : p.req # req}
                                   \cup {[req |-> req, worker |-> w]}]

try_request(c, req, rand) ==
  IF c.cache[req.key] = {}
  THEN AwaitAddress(c, req)
  ELSE SendTo(c, req, get_worker_thread(c.cache[req.key], rand[Len(c.out) + 1]))

get_async(c, k, rand) ==
  IF c.gets[k] = None THEN try_request(c, GetReq(k), rand) ELSE c

put_async(c, req, rand) == try_request(c, req, rand)

TryAll(c, reqs, rand) ==
  FoldLeft(LAMBDA d, r : try_request(d, r, rand), c, reqs)

(* A mutant: an answer without servers is taken like any other. *)
MutOnAddress(c, m, rand) ==
  IF c.requests[m.key] = <<>> THEN c
  ELSE LET known == [c EXCEPT !.cache[m.key] = @ \cup m.addresses]
       IN  [TryAll(known, c.requests[m.key], rand) EXCEPT !.requests[m.key] = <<>>]

(* receive_async, first part: an answer of the routing tier. *)
OnAddress(c, m, rand) ==
  IF c.requests[m.key] = <<>> THEN c
  ELSE IF m.addresses = {} THEN query_routing_async(c, m.key)
  ELSE LET known == [c EXCEPT !.cache[m.key] = @ \cup m.addresses]
       IN  [TryAll(known, c.requests[m.key], rand) EXCEPT !.requests[m.key] = <<>>]

invalidate_cache_for_key(c, k) == [c EXCEPT !.cache[k] = {}]

(* check_tuple: error 2 and the invalidate flag both empty the cache. *)
check_tuple(c, m) ==
  IF m.error = 2 \/ m.invalidate THEN invalidate_cache_for_key(c, m.req.key) ELSE c

Awaited(c, req) ==
  IF req.type = "GET" THEN c.gets[req.key] # None
  ELSE \E p \in c.puts : p.req = req

Done(c, req) ==
  IF req.type = "GET" THEN [c EXCEPT !.gets[req.key] = None]
  ELSE [c EXCEPT !.puts = {p \in @ : p.req # req}]

(* Second part: an answer of a server.  Answers to GET are told apart by    *)
(* their key only.                                                          *)
OnResponse(c, m, rand) ==
  IF ~Awaited(c, m.req) THEN c
  ELSE IF m.error = 2 THEN try_request(check_tuple(c, m), m.req, rand)
  ELSE Done(check_tuple(c, m), m.req)

(* Third part: the requests R whose query expired and the GETs G and PUTs P *)
(* whose server did not answer in time are given up.                        *)
invalidate_cache_for_worker(c, ws) ==
  [c EXCEPT !.cache = [k \in Keys |-> IF @[k] \cap ws = {} THEN @[k] ELSE {}]]

GiveUp(c, R, G, P) ==
  LET d == invalidate_cache_for_worker(c, {c.gets[k] : k \in G}
                                            \cup {p.worker : p \in P})
  IN  [d EXCEPT !.requests = [k \in Keys |-> IF k \in R THEN <<>> ELSE @[k]],
                !.gets = [k \in Keys |-> IF k \in G THEN None ELSE @[k]],
                !.puts = @ \ P]

(* get_kvs_responses of comm_helper.hpp: a GET that was given up is issued  *)
(* again, a PUT is not.                                                     *)
Expired(c, R, G) ==
  LET reqs == FoldLeft(\o, <<>>, [i \in 1..Cardinality(R) |-> c.requests[SetToSeq(R)[i]]])
  IN  SelectSeq(reqs, LAMBDA r : r.type = "GET")
        \o [i \in 1..Cardinality(G) |-> GetReq(SetToSeq(G)[i])]

Reissue(c, reqs, rand) ==
  FoldLeft(LAMBDA d, r : get_async(d, r.key, rand), c, reqs)

-----------------------------------------------------------------------------
Init ==
  /\ pc = [e \in Execs |-> "main"] /\ rid = [e \in Execs |-> 0]
  /\ cur = [e \in Execs |-> None] /\ got = [e \in Execs |-> None]
  /\ chan = [e \in Execs |-> <<>>]
  /\ key_remote_get_map = [k \in Keys |-> <<>>]
  /\ key_ksv_put_map = [k \in Keys |-> <<>>]
  /\ tasks = [t \in Threads |-> <<>>] /\ resps = [t \in Threads |-> <<>>]
  /\ client = [t \in Threads |-> NewClient]
  /\ copy = [k \in Keys |-> 0]
  /\ net = EmptyBag
  /\ owners \in [Keys -> Placements] /\ store = [k \in Keys |-> 0]
  /\ count = [ops |-> 0, faults |-> 0]
  /\ issued = <<>> /\ need = [e \in Execs |-> 0]
  /\ missing = {} /\ overlap = {} /\ acked = {}

Spend(what, bound) ==
  /\ count[what] < bound
  /\ count' = [count EXCEPT ![what] = @ + 1]

(* What a thread does to its client.  The messages it puts out join those   *)
(* on the network, b.                                                       *)
Step(t, c, b) ==
  /\ client' = [client EXCEPT ![t] = [c EXCEPT !.out = <<>>]]
  /\ net' = FoldLeft(LAMBDA n, m : BagAdd(n, [from |-> t] @@ m), b, c.out)

(* Where the work of a key's GET or PUT is: a task, a request that waits    *)
(* for an address, a request a server has to answer, an answer the          *)
(* scheduler has to take, and a message that may still arrive.              *)
TaskOps(type, k) ==
  UNION {{r.op : r \in {q \in ToSet(tasks[t]) : q.type = type /\ q.key = k}} : t \in Threads}
WaitingOps(type, k) ==
  UNION {{r.op : r \in {q \in ToSet(client[t].requests[k]) : q.type = type}} : t \in Threads}
SentOps(type, k) ==
  IF type = "GET"
  THEN {0 : t \in {u \in Threads : client[u].gets[k] # None}}
  ELSE UNION {{p.req.op : p \in {q \in client[t].puts : q.req.key = k}} : t \in Threads}
RespOps(type, k) ==
  UNION {{r.op : r \in {q \in ToSet(resps[t]) : q.type = type /\ q.key = k}} : t \in Threads}
Working(type, k) ==
  TaskOps(type, k) \cup WaitingOps(type, k) \cup SentOps(type, k) \cup RespOps(type, k)
OnNet(type, k) ==
  \E m \in BagToSet(net) :
     m.kind \in {"request", "response"} /\ m.req.type = type /\ m.req.key = k

-----------------------------------------------------------------------------
(* The executor.  Its main loop drops answers that came too late, and runs  *)
(* a function when no message is ahead of the call.                         *)

Finish(e) ==
  /\ pc[e] = "function"
  /\ pc' = [pc EXCEPT ![e] = "main"]
  /\ cur' = [cur EXCEPT ![e] = None] /\ got' = [got EXCEPT ![e] = None]
  /\ need' = [need EXCEPT ![e] = 0]
  /\ UNCHANGED <<rid, chan, scheduler, iothreads, net, anna, count,
                 issued, missing, overlap, acked>>

Ignore(e) ==
  /\ pc[e] = "main" /\ chan[e] # <<>>
  /\ chan' = [chan EXCEPT ![e] = Tail(@)]
  /\ UNCHANGED <<pc, rid, cur, got, scheduler, iothreads, net, anna, count, history>>

get_request_id(id) == IF (id + 1) % IdMod = 0 THEN 0 ELSE id + 1

(* A request of a function and the scheduler's handling of it: a task for   *)
(* one of the I/O threads (every use of get_io_thread_id advances the turn, *)
(* requests of other kinds too, so it may be any) and an entry in the table *)
(* of requests in flight.                                                   *)
Issue(e, type, k) ==
  /\ pc[e] = "function" \/ (pc[e] = "main" /\ chan[e] = <<>>)
  /\ Spend("ops", MaxOps)
  /\ rid' = [rid EXCEPT ![e] = get_request_id(@)]
  /\ cur' = [cur EXCEPT ![e] = [type |-> type, key |-> k, op |-> count'.ops]]
  /\ got' = [got EXCEPT ![e] = None]
  /\ pc' = [pc EXCEPT ![e] = "wait"]
  /\ \E t \in Threads : tasks' = [tasks EXCEPT ![t] = Append(@,
       [type |-> type, key |-> k, op |-> IF type = "GET" THEN 0 ELSE count'.ops])]
  /\ UNCHANGED <<chan, resps, client, copy, net, anna, issued, acked>>

InflightIORequest(e) == [executor_id |-> e, req_id |-> rid'[e], op |-> cur'[e].op]

(* The scheduler notes who waits for the key. *)
TakeGet(e, k) ==
  /\ key_remote_get_map' = [key_remote_get_map EXCEPT ![k] = Append(@, InflightIORequest(e))]
  /\ UNCHANGED key_ksv_put_map

TakePut(e, k) ==
  /\ key_ksv_put_map' = [key_ksv_put_map EXCEPT ![k] = Append(@, InflightIORequest(e))]
  /\ UNCHANGED key_remote_get_map

get_object(e, k) ==
  /\ Issue(e, "GET", k)
  /\ TakeGet(e, k)
  /\ need' = [need EXCEPT ![e] = IF Working("GET", k) = {} /\ ~OnNet("GET", k)
                                 THEN store[k] ELSE 0]
  /\ missing' = missing \ {k}
  /\ UNCHANGED overlap

send_object(e, k) ==
  LET others == Working("PUT", k) \cup {r.op : r \in ToSet(key_ksv_put_map[k])}
  IN  /\ Issue(e, "PUT", k)
      /\ TakePut(e, k)
      /\ overlap' = IF others = {} THEN overlap ELSE overlap \cup others \cup {count'.ops}
      /\ UNCHANGED <<need, missing>>

(* A mutant: the request id is not looked at. *)
MutReply(e) ==
  /\ pc[e] = "wait" /\ chan[e] # <<>>
  /\ chan' = [chan EXCEPT ![e] = Tail(@)]
  /\ pc' = [pc EXCEPT ![e] = "function"]
  /\ got' = [got EXCEPT ![e] = [op |-> Head(chan[e]).op, value |-> copy[cur[e].key]]]
  /\ UNCHANGED <<rid, cur, scheduler, iothreads, net, anna, count, history>>

(* The answer.  get_object checks its request id and returns nothing when   *)
(* it is another's; send_object reports the difference and returns.         *)
Reply(e) ==
  /\ pc[e] = "wait" /\ chan[e] # <<>>
  /\ chan' = [chan EXCEPT ![e] = Tail(@)]
  /\ pc' = [pc EXCEPT ![e] = "function"]
  /\ LET m == Head(chan[e])
     IN  IF m.req_id = rid[e]
         THEN /\ got' = [got EXCEPT ![e] = [op |-> m.op, value |-> copy[cur[e].key]]]
              /\ acked' = IF cur[e].type = "PUT" /\ m.op = cur[e].op
                         THEN acked \cup {cur[e]} ELSE acked
         ELSE UNCHANGED <<got, acked>>
  /\ UNCHANGED <<rid, cur, scheduler, iothreads, net, anna, count,
                 issued, need, missing, overlap>>

(* Thirty seconds without an answer.  get_object returns nothing;           *)
(* send_object reads through the null pointer, and the signal handler       *)
(* returns to the same instruction.                                         *)
WaitTimeout(e) ==
  /\ pc[e] = "wait" /\ chan[e] = <<>>
  /\ Spend("faults", MaxFaults)
  /\ pc' = [pc EXCEPT ![e] = IF cur[e].type = "GET" THEN "function" ELSE "stuck"]
  /\ UNCHANGED <<rid, cur, got, chan, scheduler, iothreads, net, anna, history>>

-----------------------------------------------------------------------------
(* The I/O threads. *)

(* get_kvs_async_base, put_kvs_async_base: the timestamp is taken here. *)
RunTask(t) ==
  /\ tasks[t] # <<>>
  /\ tasks' = [tasks EXCEPT ![t] = Tail(@)]
  /\ LET r == Head(tasks[t])
     IN  /\ \E c \in {IF r.type = "GET" THEN get_async(client[t], r.key, rand)
                       ELSE put_async(client[t], r, rand) : rand \in Rands(1)} :
              Step(t, c, net)
         /\ issued' = IF r.type = "PUT" THEN Append(issued, r.op) ELSE issued
  /\ UNCHANGED <<executors, scheduler, resps, copy, anna, count,
                 need, missing, overlap, acked>>

RecvAddress(t, k) ==
  \E m \in BagToSet(net) :
    /\ m.kind = "address" /\ m.from = t /\ m.key = k
    /\ \E c \in {OnAddress(client[t], m, rand) :
                   rand \in Rands(Len(client[t].requests[k]))} :
         Step(t, c, BagRemove(net, m))
    /\ UNCHANGED <<executors, scheduler, tasks, resps, copy, anna, count, history>>

(* A mutant: a value is announced that is not copied. *)
MutRecvResponse(t, k) ==
  \E m \in BagToSet(net) :
    /\ m.kind = "response" /\ m.from = t /\ m.req.key = k
    /\ \E c \in {OnResponse(client[t], m, rand) : rand \in Rands(1)} :
         Step(t, c, BagRemove(net, m))
    /\ resps' = IF Awaited(client[t], m.req) /\ m.error = 0
                THEN [resps EXCEPT ![t] = Append(@, m.req)] ELSE resps
    /\ UNCHANGED <<executors, scheduler, tasks, copy, anna, count, history>>

(* get_kvs_responses: a value is copied to shared memory and announced to   *)
(* the scheduler; "no such key" (error 1) is dropped.                       *)
RecvResponse(t, k) ==
  \E m \in BagToSet(net) :
    /\ m.kind = "response" /\ m.from = t /\ m.req.key = k
    /\ \E c \in {OnResponse(client[t], m, rand) : rand \in Rands(1)} :
         Step(t, c, BagRemove(net, m))
    /\ LET answered == Awaited(client[t], m.req) /\ m.error # 2
           found == answered /\ m.error = 0
       IN  /\ resps' = IF found THEN [resps EXCEPT ![t] = Append(@, m.req)] ELSE resps
           /\ copy' = IF found /\ m.req.type = "GET"
                      THEN [copy EXCEPT ![k] = m.value] ELSE copy
           /\ missing' = IF answered /\ ~found THEN missing \cup {k} ELSE missing
    /\ UNCHANGED <<executors, scheduler, tasks, anna, count, issued, need, overlap, acked>>

(* Thirty seconds of the client: of any of what it waits for.  Only what is *)
(* not on its way any more (Lost) expires without being counted as early.   *)
QueryOnNet(t, k) ==
  \E m \in BagToSet(net) : m.kind \in {"query", "address"} /\ m.from = t /\ m.key = k
ReqOnNet(t, req) ==
  \E m \in BagToSet(net) : m.kind \in {"request", "response"} /\ m.from = t /\ m.req = req
Lost(t, R, G, P) ==
  /\ \A k \in R : ~QueryOnNet(t, k)
  /\ \A k \in G : ~ReqOnNet(t, GetReq(k))
  /\ \A p \in P : ~ReqOnNet(t, p.req)

(* A mutant: a PUT that timed out is announced like one that was answered. *)
MutExpire(t, R, G, P) ==
  /\ R \cup G # {} \/ P # {}
  /\ LET again == Expired(client[t], R, G)
     IN  \E c \in {Reissue(GiveUp(client[t], R, G, P), again, rand) :
                      rand \in Rands(Len(again))} :
           Step(t, c, net)
  /\ resps' = [resps EXCEPT ![t] = @ \o SetToSeq({p.req : p \in P})]
  /\ UNCHANGED <<executors, scheduler, tasks, copy, anna, history>>

Expire(t, R, G, P) ==
  /\ R \cup G # {} \/ P # {}
  /\ LET again == Expired(client[t], R, G)
     IN  \E c \in {Reissue(GiveUp(client[t], R, G, P), again, rand) :
                      rand \in Rands(Len(again))} :
           Step(t, c, net)
  /\ UNCHANGED <<executors, scheduler, tasks, resps, copy, anna, history>>

(* A mutant: the GETs a server does not answer are not collected. *)
MutWaiting(t) ==
  (SUBSET {k \in Keys : client[t].requests[k] # <<>>}) \X {{}} \X (SUBSET client[t].puts)

Waiting(t) ==
  (SUBSET {k \in Keys : client[t].requests[k] # <<>>})
    \X (SUBSET {k \in Keys : client[t].gets[k] # None}) \X (SUBSET client[t].puts)

ExpireLost(t) ==
  \E w \in Waiting(t) :
     Lost(t, w[1], w[2], w[3]) /\ Expire(t, w[1], w[2], w[3]) /\ UNCHANGED count

ExpireEarly(t) ==
  \E w \in Waiting(t) :
     ~Lost(t, w[1], w[2], w[3]) /\ Expire(t, w[1], w[2], w[3]) /\ Spend("faults", MaxFaults)

(* The scheduler takes an answer and passes it on to everyone in the table. *)
Answer(ch, r) == [ch EXCEPT ![r.executor_id] = Append(@, [req_id |-> r.req_id, op |-> r.op])]

HandleResp(t) ==
  /\ resps[t] # <<>>
  /\ resps' = [resps EXCEPT ![t] = Tail(@)]
  /\ LET r == Head(resps[t])
     IN  IF r.type = "GET"
         THEN /\ chan' = FoldLeft(Answer, chan, key_remote_get_map[r.key])
              /\ key_remote_get_map' = [key_remote_get_map EXCEPT ![r.key] = <<>>]
              /\ UNCHANGED key_ksv_put_map
         ELSE /\ chan' = FoldLeft(Answer, chan, key_ksv_put_map[r.key])
              /\ key_ksv_put_map' = [key_ksv_put_map EXCEPT ![r.key] = <<>>]
              /\ UNCHANGED key_remote_get_map
  /\ UNCHANGED <<pc, rid, cur, got, tasks, client, copy, net, anna, count, history>>

-----------------------------------------------------------------------------
(* Anna, external: the routing tier, the servers, and a key that moves.     *)

Route(t, k) ==
  \E m \in BagToSet(net) :
    /\ m.kind = "query" /\ m.from = t /\ m.key = k
    /\ net' = BagAdd(BagRemove(net, m),
                     [kind |-> "address", from |-> t, key |-> k, addresses |-> owners[k]])
    /\ UNCHANGED <<executors, scheduler, iothreads, anna, count, history>>

Position(op) == SelectInSeq(issued, LAMBDA o : o = op)

(* A server that does not own the key answers with error 2.  One that does  *)
(* says whether the client's number of addresses is out of date.            *)
Serve(t, k) ==
  \E m \in BagToSet(net) :
    /\ m.kind = "request" /\ m.from = t /\ m.req.key = k
    /\ LET mine == m.to \in owners[k]
           error == CASE ~mine -> 2
                      [] mine /\ m.req.type = "GET" /\ store[k] = 0 -> 1
                      [] OTHER -> 0
       IN  /\ net' = BagAdd(BagRemove(net, m),
                 [kind |-> "response", from |-> t, req |-> m.req, error |-> error,
                  invalidate |-> mine /\ m.known # Cardinality(owners[k]),
                  value |-> IF m.req.type = "GET" /\ error = 0 THEN store[k] ELSE 0])
           /\ store' = IF mine /\ m.req.type = "PUT" /\ Position(m.req.op) > Position(store[k])
                       THEN [store EXCEPT ![k] = m.req.op] ELSE store
    /\ UNCHANGED <<executors, scheduler, iothreads, owners, count, history>>

Move(k) ==
  /\ Spend("faults", MaxFaults)
  /\ \E ws \in Placements \ {owners[k]} : owners' = [owners EXCEPT ![k] = ws]
  /\ UNCHANGED <<executors, scheduler, iothreads, net, store, history>>

Lose ==
  /\ Spend("faults", MaxFaults)
  /\ \E m \in BagToSet(net) : net' = BagRemove(net, m)
  /\ UNCHANGED <<executors, scheduler, iothreads, anna, history>>

(* A turn of an I/O thread and of the scheduler that takes its answers, and *)
(* the messages about a key.                                                *)
Turn(t) == RunTask(t) \/ HandleResp(t) \/ ExpireLost(t)
Deliver(t, k) == Route(t, k) \/ Serve(t, k) \/ RecvAddress(t, k) \/ RecvResponse(t, k)

Next ==
  \/ \E e \in Execs :
       \/ Finish(e) \/ Ignore(e) \/ Reply(e) \/ WaitTimeout(e)
       \/ \E k \in Keys : get_object(e, k) \/ send_object(e, k)
  \/ \E t \in Threads : Turn(t) \/ ExpireEarly(t) \/ \E k \in Keys : Deliver(t, k)
  \/ \E k \in Keys : Move(k)
  \/ Lose

Spec == Init /\ [][Next]_vars

(* The I/O threads and the scheduler poll for ever, the network and Anna    *)
(* work, and what is lost expires.                                          *)
Fairness ==
  \A t \in Threads : WF_vars(Turn(t)) /\ \A k \in Keys : WF_vars(Deliver(t, k))

FairSpec == Spec /\ Fairness

-----------------------------------------------------------------------------
Messages ==
       [kind : {"query"}, from : Threads, key : Keys]
  \cup [kind : {"address"}, from : Threads, key : Keys, addresses : Placements]
  \cup [kind : {"request"}, from : Threads, to : Workers, req : Request,
        known : 1..Cardinality(Workers)]
  \cup [kind : {"response"}, from : Threads, req : Request, error : 0..2,
        invalidate : BOOLEAN, value : 0..MaxOps]

(* Every value is of its type: request ids below their modulus, one GET of  *)
(* a key at a server, known addresses only where no request waits for one.  *)
TypeOK ==
  /\ pc \in [Execs -> {"main", "function", "wait", "stuck"}]
  /\ rid \in [Execs -> 0..(IdMod - 1)]
  /\ \A t \in Threads :
       /\ ToSet(tasks[t]) \cup ToSet(resps[t]) \subseteq Request
       /\ client[t].cache \in [Keys -> SUBSET Workers]
       /\ client[t].gets \in [Keys -> Workers \cup {None}]
       /\ client[t].puts \subseteq [req : Request, worker : Workers]
       /\ client[t].out = <<>>
       /\ \A k \in Keys : /\ ToSet(client[t].requests[k]) \subseteq Request
                          /\ client[t].requests[k] # <<>> => client[t].cache[k] = {}
  /\ BagToSet(net) \subseteq Messages
  /\ owners \in [Keys -> Placements]
  /\ store \in [Keys -> 0..MaxOps] /\ copy \in [Keys -> 0..MaxOps]
  /\ missing \subseteq Keys

(* An operation takes an answer as its own only when it is, or when IdMod   *)
(* operations have been issued meanwhile: the request id tells it from the  *)
(* late answers to gets of the executor that gave up (function_lib.hpp).    *)
RightAnswer ==
  \A e \in Execs :
    got[e] # None => got[e].op = cur[e].op \/ cur[e].op - got[e].op >= IdMod

(* A get reads a value at least as new as the store held when the function  *)
(* asked, unless a GET of the key was under way then: the client and the    *)
(* scheduler tell answers apart by their key only, so such a get may be     *)
(* answered by the older request.                                           *)
FreshReads ==
  \A e \in Execs :
    got[e] # None /\ cur[e].type = "GET" => Position(got[e].value) >= Position(need[e])

(* While a function's get is in key_remote_get_map, some I/O thread works   *)
(* on the key, whatever was lost, moved or given up; the store having no    *)
(* such key is the only way out (comm_helper.hpp drops that answer).  The   *)
(* variables have their types.                                              *)
GetsKept ==
  /\ TypeOK
  /\ \A k \in Keys :
       key_remote_get_map[k] # <<>> => Working("GET", k) # {} \/ k \in missing

(* A put that was acknowledged, by an answer of its own (RightAnswer), is   *)
(* in the store, or a later one is, unless it overlapped with another put   *)
(* of the key: one answer acknowledges all the puts of a key                *)
(* (scheduler_server.cpp).  A put that timed out is never acknowledged.     *)
AckedPutsStored ==
  \A a \in acked :
    a.op \notin overlap => Position(store[a.key]) >= Position(a.op)

(* A get in the table is answered or found missing, in spite of losses,     *)
(* moves and timeouts, while the key has a server.                          *)
GetsAnswered ==
  \A k \in Keys :
    key_remote_get_map[k] # <<>>
      ~> key_remote_get_map[k] = <<>> \/ k \in missing \/ owners[k] = {}

=============================================================================
