---------------------------- MODULE CallRouting ----------------------------
(***************************************************************************)
(* How calls find executors: the coordinator's func_call_handler, the      *)
(* status messages it decides by, and the nodes, which run what they can   *)
(* and forward the rest to the coordinator.                                *)
(*                                                                         *)
(* A node is what LocalScheduler makes of it, seen from outside: some free *)
(* executors, no delayed calls (schedDelayTime 0, rejectExtraReq off) and  *)
(* executors shared by all functions.  Nodes are numbered in the order of  *)
(* their addresses, in which node_status_map is traversed.                 *)
(*                                                                         *)
(* A call message holds its requests, the node that forwards it, the       *)
(* session, and the client to answer.  The calls on their way are a set:   *)
(* they travel over many sockets.                                          *)
(***************************************************************************)
EXTENDS Integers, Sequences, FiniteSets, SequencesExt

CONSTANTS
  NumNodes, Executors,   \* nodes, executors per node
  Requests,              \* requests to run a function
  External,              \* calls of clients: [reqs, client] records
  Deps,                  \* request -> requests its function makes directly
  Caller,                \* request -> client on whose behalf it is made
  NoNode, NoSession, NoClient, NoReport

Nodes == 1..NumNodes
Clients == {x.client : x \in External}

ASSUME CountsNat == NumNodes \in Nat /\ Executors \in Nat \ {0}
ASSUME RequestFields ==
  /\ \A x \in External : x.reqs \in Seq(Requests) /\ x.reqs # <<>>
  /\ Deps \in [Requests -> Seq(Requests)]
  /\ Caller \in [Requests -> Clients]

VARIABLES
  known,     \* node -> executors it reported free (node_status_map)
  toCoord,   \* calls on their way to the coordinator
  inbox,     \* node -> calls on their way to it
  running,   \* node -> requests running, with their sessions
  invoked,   \* requests whose function has made its direct calls
  client,    \* node -> session -> client (session_client_addr_map)
  report,    \* node -> status message on its way
  outcome,   \* history: what became of each request
  answers    \* history: the client each finished request was answered to

vars == <<known, toCoord, inbox, running, invoked, client, report, outcome, answers>>

(* A random session id, which no other call has: named after a request. *)
Sessions == Requests \cup {NoSession}
GenSession(reqs) == Head(reqs)

Msg(reqs, source, session, cl) ==
  [reqs |-> reqs, source |-> source, session |-> session, client |-> cl]

Init ==
  /\ known = <<>>
  /\ toCoord = {Msg(x.reqs, NoNode, NoSession, x.client) : x \in External}
  /\ inbox = [n \in Nodes |-> {}]
  /\ running = [n \in Nodes |-> {}]
  /\ invoked = {}
  /\ client = [n \in Nodes |-> [s \in Sessions |-> NoClient]]
  /\ report = [n \in Nodes |-> NoReport]
  /\ outcome = [r \in Requests |-> "none"]
  /\ answers = {}

-----------------------------------------------------------------------------
(* The nodes a call may go to by their load: not the one that forwards it. *)
Candidates(m) == DOMAIN known \ {m.source}

MostFree(m) ==
  {n \in Candidates(m) : known[n] > 0 /\ \A x \in Candidates(m) : known[x] <= known[n]}

(* avail_nodes *)
AvailNodes(m) ==
  SetToSortSeq({n \in Candidates(m) : known[n] > 0}, LAMBDA x, y : x < y)

(* Nodes without an executor left not passed over. *)
MutNodeLoads(avail, k) ==
  [j \in DOMAIN avail |-> Cardinality({i \in 1..k : (i - 1) % Len(avail) = j - 1})]

(* node_loads: the requests are dealt out one by one, round robin, to the
   nodes that have an executor left.  `at' is node_idx. *)
NodeLoads(avail, k) ==
  LET size == Len(avail)
      deal(s, i) ==
        LET pos(d)  == 1 + ((s.at + d) % size)
            left(d) == known[avail[pos(d)]] - s.load[pos(d)]
            skip    == CHOOSE d \in 0..(size - 1) :
                         left(d) > 0 /\ \A x \in 0..(d - 1) : left(x) <= 0
        IN  [load |-> [s.load EXCEPT ![pos(skip)] = @ + 1], at |-> pos(skip) % size]
  IN  FoldLeft(deal, [load |-> [j \in 1..size |-> 0], at |-> 0], [i \in 1..k |-> i]).load

(* The parts of a call that is split: a part is complete when it has as many
   requests as its node's load.  The routed calls carry neither the session
   nor the source of the call. *)
SplitCall(m) ==
  LET avail == AvailNodes(m)
      loads == NodeLoads(avail, Len(m.reqs))
      add(s, r) ==
        LET part == Append(s.part, r)
        IN  IF Len(part) = loads[Len(s.done) + 1]
            THEN [part |-> <<>>, done |-> Append(s.done, part)]
            ELSE [s EXCEPT !.part = part]
      parts == FoldLeft(add, [part |-> <<>>, done |-> <<>>], m.reqs).done
  IN  [n \in {avail[i] : i \in DOMAIN parts} |->
         Msg(parts[CHOOSE i \in DOMAIN parts : avail[i] = n], NoNode, NoSession, m.client)]

Total(m) == FoldLeft(LAMBDA s, n : s + known[n], 0, AvailNodes(m))

(* The whole call, which now has a session, to node n. *)
ToNode(m, n) ==
  [x \in {n} |->
     IF m.session = NoSession THEN [m EXCEPT !.session = GenSession(m.reqs)] ELSE m]

(* The possible values of scheduled_node_msg: a batch goes to one node, or in
   parts to several, or nowhere; a single request goes to some node, if it
   must be to one without executors. *)
Scheduled(m) ==
  LET k     == Len(m.reqs)
      whole == {n \in MostFree(m) : known[n] >= k}
  IN  IF k > 1
      THEN IF whole # {} THEN {ToNode(m, n) : n \in whole}
           ELSE IF Total(m) >= k THEN {SplitCall(m)} ELSE {<<>>}
      ELSE IF MostFree(m) # {} THEN {ToNode(m, n) : n \in MostFree(m)}
           ELSE IF DOMAIN known # {} THEN {ToNode(m, n) : n \in DOMAIN known} ELSE {<<>>}

(* func_call_handler.  A call without a worker is answered with an error. *)
HandleCall(m) ==
  /\ m \in toCoord
  /\ toCoord' = toCoord \ {m}
  /\ \E sched \in Scheduled(m) :
       /\ inbox' = [n \in Nodes |-> IF n \in DOMAIN sched THEN inbox[n] \cup {sched[n]} ELSE inbox[n]]
       /\ outcome' = [r \in Requests |->
                        IF DOMAIN sched = {} /\ r \in ToSet(m.reqs) THEN "refused" ELSE outcome[r]]
  /\ UNCHANGED <<known, running, invoked, client, report, answers>>

(* A status message, which replaces what is known of the node. *)
HandleStatus(n) ==
  /\ report[n] # NoReport
  /\ known' = [x \in DOMAIN known \cup {n} |-> IF x = n THEN report[n] ELSE known[x]]
  /\ report' = [report EXCEPT ![n] = NoReport]
  /\ UNCHANGED <<toCoord, inbox, running, invoked, client, outcome, answers>>

-----------------------------------------------------------------------------
Free(n) == Executors - Cardinality(running[n])

(* As many of the requests L as find an executor are run on node n. *)
Share(n, L) == IF Len(L) <= Free(n) THEN Len(L) ELSE Free(n)
Run(n, L, session) ==
  running' = [running EXCEPT ![n] = @ \cup {[req |-> L[i], session |-> session] : i \in 1..Share(n, L)}]

(* A full node drops the requests it cannot run. *)
MutTakeCall(n, m) ==
  /\ m \in inbox[n]
  /\ inbox' = [inbox EXCEPT ![n] = @ \ {m}]
  /\ client' = [client EXCEPT ![n][m.session] = m.client]
  /\ Run(n, m.reqs, m.session)
  /\ UNCHANGED <<known, toCoord, invoked, report, outcome, answers>>

(* Node n takes a call.  schedule_func_call forwards, one by one, the requests
   that find no executor. *)
TakeCall(n, m) ==
  /\ m \in inbox[n]
  /\ inbox' = [inbox EXCEPT ![n] = @ \ {m}]
  /\ client' = [client EXCEPT ![n][m.session] = m.client]
  /\ Run(n, m.reqs, m.session)
  /\ toCoord' = toCoord \cup
       {Msg(<<m.reqs[i]>>, n, m.session, m.client) : i \in (Share(n, m.reqs) + 1)..Len(m.reqs)}
  /\ UNCHANGED <<known, invoked, report, outcome, answers>>

(* The extra calls forwarded and run. *)
MutInvoke(n, j) ==
  LET L == Deps[j.req]
  IN  /\ j \in running[n] /\ L # <<>> /\ j.req \notin invoked
      /\ invoked' = invoked \cup {j.req}
      /\ Run(n, L, j.session)
      /\ toCoord' = IF Share(n, L) = Len(L) THEN toCoord
                    ELSE toCoord \cup {Msg(L, n, j.session, client[n][j.session])}
      /\ UNCHANGED <<known, inbox, client, report, outcome, answers>>

(* A function passes an object on to its direct dependencies: the calls that
   find no executor are forwarded together. *)
Invoke(n, j) ==
  LET L == Deps[j.req]
      k == Share(n, L)
  IN  /\ j \in running[n] /\ L # <<>> /\ j.req \notin invoked
      /\ invoked' = invoked \cup {j.req}
      /\ Run(n, L, j.session)
      /\ toCoord' = IF k = Len(L) THEN toCoord
                    ELSE toCoord \cup {Msg(SubSeq(L, k + 1, Len(L)), n, j.session,
                                          client[n][j.session])}
      /\ UNCHANGED <<known, inbox, client, report, outcome, answers>>

(* The answer to the client of any call the node has taken. *)
MutFinish(n, j) ==
  /\ j \in running[n] /\ (Deps[j.req] = <<>> \/ j.req \in invoked)
  /\ running' = [running EXCEPT ![n] = @ \ {j}]
  /\ outcome' = [outcome EXCEPT ![j.req] = "done"]
  /\ \E s \in Sessions : client[n][s] # NoClient /\
       answers' = answers \cup {[req |-> j.req, client |-> client[n][s]]}
  /\ UNCHANGED <<known, toCoord, inbox, invoked, client, report>>

(* A function answers the client of its session and returns. *)
Finish(n, j) ==
  /\ j \in running[n] /\ (Deps[j.req] = <<>> \/ j.req \in invoked)
  /\ running' = [running EXCEPT ![n] = @ \ {j}]
  /\ outcome' = [outcome EXCEPT ![j.req] = "done"]
  /\ answers' = answers \cup {[req |-> j.req, client |-> client[n][j.session]]}
  /\ UNCHANGED <<known, toCoord, inbox, invoked, client, report>>

(* update_status, every schedTimerThreshold; one message is on its way at a
   time. *)
Report(n) ==
  /\ report[n] = NoReport
  /\ report' = [report EXCEPT ![n] = Free(n)]
  /\ UNCHANGED <<known, toCoord, inbox, running, invoked, client, outcome, answers>>

Next ==
  \/ \E m \in toCoord : HandleCall(m)
  \/ \E n \in Nodes :
       \/ HandleStatus(n) \/ Report(n)
       \/ \E m \in inbox[n] : TakeCall(n, m)
       \/ \E j \in running[n] : Invoke(n, j) \/ Finish(n, j)

Spec == Init /\ [][Next]_vars

(* Every socket is polled again and again, functions return, and nodes report
   by a timer. *)
Fairness ==
  /\ \A r \in Requests : WF_vars(\E m \in toCoord : r \in ToSet(m.reqs) /\ HandleCall(m))
  /\ \A n \in Nodes :
       /\ WF_vars(HandleStatus(n)) /\ WF_vars(Report(n))
       /\ \A r \in Requests :
            /\ WF_vars(\E m \in inbox[n] : r \in ToSet(m.reqs) /\ TakeCall(n, m))
            /\ WF_vars(\E j \in running[n] : j.req = r /\ (Invoke(n, j) \/ Finish(n, j)))
FairSpec == Spec /\ Fairness

-----------------------------------------------------------------------------
CallMsg ==
  [reqs : Seq(Requests), source : Nodes \cup {NoNode}, session : Sessions,
   client : Clients \cup {NoClient}]

(* Type invariant; in particular no node runs more requests than it has
   executors. *)
TypeOK ==
  /\ DOMAIN known \subseteq Nodes /\ \A n \in DOMAIN known : known[n] \in 0..Executors
  /\ \A m \in toCoord : m \in CallMsg
  /\ \A n \in Nodes : \A m \in inbox[n] : m \in CallMsg
  /\ \A n \in Nodes : /\ running[n] \subseteq [req : Requests, session : Sessions]
                      /\ Cardinality(running[n]) <= Executors
  /\ client \in [Nodes -> [Sessions -> Clients \cup {NoClient}]]
  /\ report \in [Nodes -> 0..Executors \cup {NoReport}]
  /\ invoked \subseteq Requests
  /\ outcome \in [Requests -> {"none", "done", "refused"}]

(* The places at which request r is found. *)
Positions(m, r) == {i \in DOMAIN m.reqs : m.reqs[i] = r}
Places(r) ==
  LET in(place, msgs) == UNION {{<<place, m, i>> : i \in Positions(m, r)} : m \in msgs}
      at(n) == {<<n, j>> : j \in {x \in running[n] : x.req = r}}
  IN  in(NoNode, toCoord) \cup UNION {in(n, inbox[n]) \cup at(n) : n \in Nodes}
      \cup ({<<outcome[r]>>} \ {<<"none">>})

(* Has request r been made? *)
Made(r) == \/ \E x \in External : r \in ToSet(x.reqs)
           \/ \E p \in invoked : r \in ToSet(Deps[p])

(* Splitting, forwarding and refusing neither lose nor duplicate a request:
   once made it is at one place only.  The variables have their types. *)
EachRequestOnce ==
  TypeOK /\ \A r \in Requests : Cardinality(Places(r)) = IF Made(r) THEN 1 ELSE 0

(* The round robin of func_call_handler deals out all requests of a batch, no
   node gets more than it has executors, and a node that has an executor left
   has at most one request less than any other. *)
SplitIsFair ==
  \A src \in Nodes \cup {NoNode} :
    LET m     == Msg(<<>>, src, NoSession, NoClient)
        avail == AvailNodes(m)
    IN  \A k \in 1..Total(m) :
          LET load == NodeLoads(avail, k)
          IN  /\ FoldLeft(+, 0, load) = k
              /\ \A i \in DOMAIN avail :
                   /\ load[i] <= known[avail[i]]
                   /\ load[i] < known[avail[i]] => \A j \in DOMAIN avail : load[j] <= load[i] + 1

(* The client that a function's answer goes to is the one that made the call,
   through every forwarding ("the client address, used for synchronous
   requests", operation.proto). *)
AnswersReachCaller == \A a \in answers : a.client = Caller[a.req]

(* Requests do not travel for ever between coordinator and full nodes: each
   one that is made runs or is refused. *)
RequestsSettle == \A r \in Requests : Made(r) ~> outcome[r] # "none"
=============================================================================
