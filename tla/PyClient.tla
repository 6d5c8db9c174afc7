------------------------------ MODULE PyClient ------------------------------
(***************************************************************************)
(* The Python clients: AnnaTcpClient (requests to the key-value store) and *)
(* PheromoneClient (metadata requests, application calls).  A client is    *)
(* sequential: it sends requests, and takes from one socket per kind of    *)
(* answer whatever has come there, also what an earlier operation did not  *)
(* wait for.  An operation is a function of the client's state and of the  *)
(* order in which the answers come.                                        *)
(***************************************************************************)
EXTENDS Integers, Sequences, SequencesExt, FiniteSetsExt, TLC

None == 0

MapPut(f, x, v) == [y \in DOMAIN f \cup {x} |-> IF y = x THEN v ELSE f[y]]
MapDel(f, x) == [y \in DOMAIN f \ {x} |-> f[y]]

-----------------------------------------------------------------------------
(* Answers *)

\* Answers to other requests are dropped until there are as many as requests.
\* The mail has an answer to each of them when this is called.
recv_response(req_ids, mail) ==
    LET mine == {i \in DOMAIN mail : mail[i].id \in ToSet(req_ids)}
        last == IF req_ids = <<>> THEN 0
                ELSE CHOOSE i \in mine : Cardinality({j \in mine : j <= i}) = Len(req_ids)
    IN  [responses |-> SelectSeq(SubSeq(mail, 1, last), LAMBDA m : m.id \in ToSet(req_ids)),
         rest |-> SubSeq(mail, last + 1, Len(mail))]

-----------------------------------------------------------------------------
(* AnnaTcpClient.  rid: next request id; cache: address_cache; sent: requests *)
(* of the current operation; mail: what will come to response_puller.         *)

RequestIds == 10000

NewClient(rid) == [rid |-> rid, cache |-> <<>>, sent |-> <<>>, mail |-> <<>>]

AfterRequestId(c) == [c EXCEPT !.rid = (@ + 1) % RequestIds]

\* Synchronous, with a request id of its own; routes: key -> addresses.
_query_routing(c, key, routes) ==
    [AfterRequestId(c) EXCEPT !.cache = MapPut(@, key, routes[key])]

Known(c, key) == key \in DOMAIN c.cache /\ c.cache[key] # {}

_get_worker_address(c, key, routes) ==
    IF Known(c, key) THEN c ELSE _query_routing(c, key, routes)

\* Sends a request of operation op for one key.
_prepare_data_request(c, key, op) ==
    [AfterRequestId(c) EXCEPT !.sent = Append(@, [id |-> c.rid, key |-> key, op |-> op])]

_invalidate_cache(cache, key) == MapDel(cache, key)

\* get first looks up every key, then sends a request for each that has an
\* address; keys are those of a dictionary.
GetRequests(c, keys, routes, op) ==
    LET Look(d, k) == _get_worker_address(d, k, routes)
        Ask(d, k)  == IF Known(d, k) THEN _prepare_data_request(d, k, op) ELSE d
        order      == SetToSeq(ToSet(keys))
    IN  FoldLeft(Ask, FoldLeft(Look, [c EXCEPT !.sent = <<>>], order), order)

\* put looks up and sends key by key, and gives up at the first key without an
\* address, with the earlier requests on their way.
PutRequests(c, keys, routes, op) ==
    LET Step(s, k) ==
            IF s.failed THEN s
            ELSE LET d == _get_worker_address(s.c, k, routes)
                 IN  IF Known(d, k)
                     THEN [c |-> _prepare_data_request(d, k, op), failed |-> FALSE]
                     ELSE [c |-> d, failed |-> TRUE]
    IN  FoldLeft(Step, [c |-> [c EXCEPT !.sent = <<>>], failed |-> FALSE], keys)

Ids(c) == [i \in DOMAIN c.sent |-> c.sent[i].id]

\* The answers are applied one after the other: invalidated addresses leave
\* the cache, where del raises if they are not in it, and results are kept by
\* key, by get only those without error.  A result names the operation whose
\* answer it is.
ApplyAnswers(c, responses, keepErrors) ==
    LET Step(s, r) ==
            IF s.raised \/ (r.invalidate /\ r.key \notin DOMAIN s.cache)
            THEN [s EXCEPT !.raised = TRUE]
            ELSE [s EXCEPT !.cache = IF r.invalidate THEN _invalidate_cache(@, r.key) ELSE @,
                           !.result = IF keepErrors \/ ~r.error THEN MapPut(@, r.key, r.op) ELSE @]
    IN  FoldLeft(Step, [cache |-> c.cache, result |-> <<>>, raised |-> FALSE], responses)

get(c, mail) == ApplyAnswers(c, recv_response(Ids(c), mail).responses, FALSE)

put(c, mail) == ApplyAnswers(c, recv_response(Ids(c), mail).responses, TRUE)

-----------------------------------------------------------------------------
(* call_app: a history of calls.  got: what each call returned, the number of *)
(* the call that was answered or None; due: answers still to come, in the     *)
(* order of the sends; retry: how often the current call may be sent again.   *)

MutSend(s, call, n) == [s EXCEPT !.due = @ \o [i \in 1 .. call.outputs |-> n]]

\* Only a synchronous call carries the address for answers; it gets one for each
\* output of its functions.
Send(s, call, n) ==
    IF call.synchronous THEN [s EXCEPT !.due = @ \o [i \in 1 .. call.outputs |-> n]] ELSE s

StartCall(s, calls, n) ==
    IF n > Len(calls) THEN [s EXCEPT !.now = n]
    ELSE Send([s EXCEPT !.now = n, !.retry = calls[n].retry], calls[n], n)

EndCall(s, calls, answer) ==
    StartCall([s EXCEPT !.got = Append(@, answer)], calls, s.now + 1)

\* The socket gives the due answer of number event, whatever call it is for, or
\* with event 0 nothing in time: the call is sent again or given up.
call_app(s, calls, event) ==
    IF s.now > Len(calls) THEN s
    ELSE IF ~calls[s.now].synchronous THEN EndCall(s, calls, None)
    ELSE IF event > Len(s.due) THEN s
    ELSE IF event > 0 THEN EndCall([s EXCEPT !.due = RemoveAt(@, event)], calls, s.due[event])
    ELSE IF s.retry > 0
         THEN Send([s EXCEPT !.retry = @ - 1, !.late = @ \cup {s.now}], calls[s.now], s.now)
    ELSE EndCall([s EXCEPT !.late = @ \cup {s.now}], calls, None)

History(calls, events) ==
    FoldLeft(LAMBDA s, e : call_app(s, calls, e),
             StartCall([now |-> 1, retry |-> 0, due |-> <<>>, got |-> <<>>, late |-> {}], calls, 1),
             events)

-----------------------------------------------------------------------------
(* Metadata operations.  A request is given the next number of this client,   *)
(* which starts again at one when the client does; mail: what will come to    *)
(* bucket_op_puller and trigger_op_puller; done: what the operations returned. *)

default_rerun_timeout == 3000

NewMetadataClient(mail) == [rid |-> 0, mail |-> mail, done |-> <<>>]

_prepare_request(c) == [c EXCEPT !.rid = @ + 1]

\* The coordinator answers each request once, after whatever is in the mail.
\* The operation succeeds if the answer says so.
BucketOperation(c, socket, success) ==
    LET d == _prepare_request(c)
        r == recv_response(<<d.rid>>, Append(d.mail[socket], [id |-> d.rid, success |-> success]))
    IN  [d EXCEPT !.mail[socket] = r.rest, !.done = Append(@, r.responses[1].success)]

create_bucket(c, success) == BucketOperation(c, "bucket", success)
delete_bucket(c, success) == BucketOperation(c, "bucket", success)
delete_trigger(c, success) == BucketOperation(c, "trigger", success)

\* A hint is a function, a key or None, and, if it is long enough, a timeout.
parse_hints(hint) ==
    [source_function |-> hint[1], source_key |-> IF hint[2] = "None" THEN "" ELSE hint[2],
     timeout |-> IF Len(hint) > 2 THEN hint[3] ELSE default_rerun_timeout]

RequestHints(form, hints) ==
    CASE form = "tuple" -> <<parse_hints(hints)>>
      [] form = "list"  -> [i \in DOMAIN hints |-> parse_hints(hints[i])]
      [] OTHER -> <<>>

\* With hints of another form the request is given up unsent.
AddTriggerRequest(c, form, success) ==
    IF form \in {"None", "tuple", "list"} THEN BucketOperation(c, "trigger", success)
    ELSE [_prepare_request(c) EXCEPT !.done = Append(@, FALSE)]

MetadataOperation(c, o) ==
    CASE o.op = "create_bucket"  -> create_bucket(c, o.success)
      [] o.op = "delete_bucket"  -> delete_bucket(c, o.success)
      [] o.op = "delete_trigger" -> delete_trigger(c, o.success)
      [] o.op = "add_trigger"    -> AddTriggerRequest(c, o.form, o.success)

-----------------------------------------------------------------------------
(* Triggers as the client asks for them and as the coordinator makes them *)

\* add_trigger: the parameters in the serialized primitive.
add_trigger(type, prm) ==
    CASE type = "REDUNDANT" -> [prm EXCEPT !.n = prm.k, !.k = prm.n]
      [] OTHER -> prm

\* register_app: the description is text, "k,n" or a number.
register_app(type, prm) ==
    CASE type = "REDUNDANT" -> <<prm.k, prm.n>>
      [] type = "BY_TIME" -> <<prm.time_window>>

\* RedundantTrigger(k, n): fires with the k-th object of n.
gen_trigger_pointer(type, prm) ==
    CASE type = "REDUNDANT" -> [k |-> prm.k, n |-> prm.n]
      [] OTHER -> prm

TriggerOfDependency(type, metadata) ==
    CASE type = "REDUNDANT" -> [k |-> metadata[1], n |-> metadata[2]]
      [] type = "BY_TIME" -> [time_window |-> metadata[1]]

-----------------------------------------------------------------------------
(* Properties *)

Permutation(seq) == {[i \in DOMAIN seq |-> seq[p[i]]] : p \in Permutations(DOMAIN seq)}

Answer(req, error, invalidate) ==
    [id |-> req.id, key |-> req.key, op |-> req.op, error |-> error, invalidate |-> invalidate]

KeyLists == {<<"k">>, <<"l">>, <<"k", "l">>, <<"k", "k">>}
Routes   == [{"k", "l"} -> {{}, {"a"}}]

\* Two operations in a row, the second with the answers the first left unread.
\* Each result is of the operation that returns it, near the wrap of the
\* request ids too; an operation raises exactly if a key it put twice was
\* invalidated by both answers.
OwnAnswers ==
    \A keys1, keys2 \in KeyLists, r1, r2 \in Routes, rid \in {0, RequestIds - 2},
       isGet \in BOOLEAN, invalid, error \in BOOLEAN :
        LET first == PutRequests(NewClient(rid), keys1, r1, 1)
            left  == IF first.failed THEN first.c.sent ELSE <<>>
            second == IF isGet THEN [c |-> GetRequests(first.c, keys2, r2, 2), failed |-> FALSE]
                      ELSE PutRequests(first.c, keys2, r2, 2)
            asked == second.c.sent
        IN  second.failed \/
            \A mail \in Permutation([i \in 1 .. Len(left \o asked) |->
                                        Answer((left \o asked)[i], error, invalid)]) :
                LET end == IF isGet THEN get(second.c, mail) ELSE put(second.c, mail)
                IN  /\ \A k \in DOMAIN end.result : end.result[k] = 2
                    /\ end.raised <=> ~isGet /\ keys2 = <<"k", "k">> /\ invalid
                    /\ ~end.raised /\ ~error => DOMAIN end.result = {asked[i].key : i \in DOMAIN asked}

Calls == [synchronous : {TRUE}, retry : 0 .. 1, outputs : 1 .. 2]
         \cup [synchronous : {FALSE}, retry : {0}, outputs : {1}]

\* A synchronous call returns its own answer, or nothing, unless an earlier
\* call was given up, was sent again or has several outputs; then it can return
\* an answer to an earlier call.
OwnCallAnswers ==
    /\ \A calls \in [1 .. 3 -> Calls], events \in [1 .. 4 -> 0 .. 2] :
          LET s == History(calls, events)
          IN  \A i \in DOMAIN s.got :
                 \/ s.got[i] \in {None, i}
                 \/ \E j \in 1 .. s.got[i] : j < i /\ (j \in s.late \/ calls[j].outputs > 1)
    /\ \E calls \in [1 .. 2 -> Calls], events \in [1 .. 2 -> 0 .. 2] :
          History(calls, events).got = <<None, 1>>

Primitives ==
    [type : {"REDUNDANT"}, prm : [k : 1 .. 3, n : 1 .. 3]]
    \cup [type : {"BY_TIME"}, prm : [time_window : {100}]]
    \cup [type : {"BY_BATCH_SIZE"}, prm : [count : 1 .. 2]]
    \cup [type : {"BY_SET"}, prm : [key_set : SUBSET {"k", "l"}]]

\* A trigger is made as it was asked for: by register_app always, by
\* add_trigger unless it is a k-out-of-n trigger with k different from n.
TriggersAsAsked ==
    \A p \in Primitives :
        /\ (gen_trigger_pointer(p.type, add_trigger(p.type, p.prm)) = p.prm)
           <=> (p.type = "REDUNDANT" => p.prm.k = p.prm.n)
        /\ p.type \in {"REDUNDANT", "BY_TIME"} =>
              TriggerOfDependency(p.type, register_app(p.type, p.prm)) = p.prm

Operations == [op : {"create_bucket", "delete_bucket", "delete_trigger"}, success : BOOLEAN]
              \cup [op : {"add_trigger"}, success : BOOLEAN, form : {"list", "None", "text"}]
SocketOf(o) == IF o.op \in {"create_bucket", "delete_bucket"} THEN "bucket" ELSE "trigger"
Sent(o) == o.op = "add_trigger" => o.form # "text"

\* Metadata operations return what the coordinator answered to them, unless
\* the socket still gets answers to an earlier client on its address, whose
\* requests had the same numbers: the first of them is then taken.
OwnMetadataAnswers ==
    \A ops \in [1 .. 3 -> Operations], socket \in {"bucket", "trigger"},
       left \in BoundedSeq([id : 1 .. 3, success : {TRUE}], 2) :
        LET mail == [x \in {"bucket", "trigger"} |-> IF x = socket THEN left ELSE <<>>]
            end == FoldLeft(MetadataOperation, NewMetadataClient(mail), ops)
            onSocket == {i \in DOMAIN ops : Sent(ops[i]) /\ SocketOf(ops[i]) = socket}
            same == {i \in onSocket : \E j \in DOMAIN left : left[j].id = i}
        IN  /\ \A i \in DOMAIN ops \ onSocket : end.done[i] = (ops[i].success /\ Sent(ops[i]))
            /\ same = {} => \A i \in onSocket : end.done[i] = ops[i].success
            /\ onSocket # {} => LET i == Min(onSocket)
                                IN  i \in same => end.done[i]

\* The hints of a trigger are those asked for, with a default timeout.
HintsAsAsked ==
    \A h \in ({"f"} \X {"k", "None"}) \cup ({"f"} \X {"k", "None"} \X {1}),
       form \in {"tuple", "list"} :
        LET asked == RequestHints(form, IF form = "tuple" THEN h ELSE <<h, h>>)
        IN  \A i \in DOMAIN asked :
               /\ asked[i].source_function = "f"
               /\ asked[i].source_key = "k" <=> h[2] = "k"
               /\ asked[i].timeout = IF Len(h) = 3 THEN h[3] ELSE default_rerun_timeout

\* What the Python clients return and ask for is what the operation is about:
\* answers are matched with requests by AnnaTcpClient, by PheromoneClient only
\* as long as no call is late or has several outputs and no earlier client has
\* left answers behind, and triggers are made as asked but for one kind.
ClientRules ==
    /\ OwnAnswers /\ OwnCallAnswers /\ OwnMetadataAnswers
    /\ TriggersAsAsked /\ HintsAsAsked
=============================================================================
