------------------------------ MODULE CallArgs ------------------------------
(***************************************************************************)
(* How objects and arguments travel: the names of objects, the messages    *)
(* between executors and scheduler, the arguments of a triggered, direct   *)
(* or forwarded call, and what the executor hands to the function.         *)
(*                                                                         *)
(* All of it is text with '|' between the fields, read back by split.  A   *)
(* string is a sequence of tokens: kDelimiter, NUL, or a piece that holds  *)
(* neither (a name, a number, a part of a value).  Only the length of a    *)
(* piece matters, and where a value has a '|' or a zero byte in it.        *)
(***************************************************************************)
EXTENDS Integers, Sequences, SequencesExt, FiniteSetsExt, TLC

kDelimiter == "|"
NUL == "NUL"
Bar == <<kDelimiter>>
Throws == -1
Garbage == <<"garbage">>

-----------------------------------------------------------------------------
(* Strings *)

\* Sessions have 16 characters (func_call_handler.cpp:26).  "big" is above the
\* packing threshold of messages, "huge" above that of forwarded calls.
Bytes(t) ==
    CASE t \in {"s", "t"} -> 16
      [] t = "long" -> 300
      [] t = "big" -> 2098
      [] t = "huge" -> 20000
      [] OTHER -> 1

Size(str) == FoldLeft(LAMBDA n, t : n + Bytes(t), 0, str)

msgDataPackingThreshold == 1024
forwardDataPackingThreshold == 10240

\* A message read through a char pointer ends at its first zero byte.
CStr(str) ==
    LET zeros == {i \in DOMAIN str : str[i] = NUL}
    IN  IF zeros = {} THEN str ELSE SubSeq(str, 1, Min(zeros) - 1)

\* getline yields no field for what follows a last delimiter if that is empty.
split(str) ==
    LET Step(acc, t) == IF t = kDelimiter
                        THEN <<Append(acc[1], acc[2]), <<>>>>
                        ELSE <<acc[1], Append(acc[2], t)>>
        end == FoldLeft(Step, <<<<>>, <<>>>>, str)
    IN  IF end[2] = <<>> THEN end[1] ELSE Append(end[1], end[2])

Join(fields) == FoldLeft(LAMBDA str, f : str \o Bar \o f, Head(fields), Tail(fields))

to_string(n) == <<ToString(n)>>

Sizes == 0 .. 20 \cup {2098, 2099, 2100, 20000}

stoi(str) ==
    LET fits == {n \in Sizes : str = to_string(n)}
    IN  IF fits = {} THEN Throws ELSE CHOOSE n \in fits : TRUE

\* str += n appends the character whose code is n modulo 256.
AsCharacter(n) ==
    IF n % 256 \in 48 .. 57 THEN to_string((n % 256) - 48)
    ELSE IF n % 256 = 0 THEN <<NUL>> ELSE <<"character">>

-----------------------------------------------------------------------------
(* Names of objects *)

get_key_session_name(key, session) == key \o session

get_local_object_name(bucket, key, session) ==
    bucket \o Bar \o get_key_session_name(key, session)

\* The last 16 characters are the session; a shorter name leaves both empty.
BucketKey(bucket, session_key) ==
    IF Size(session_key) > 16
    THEN [bucket |-> bucket, key |-> Front(session_key), session |-> <<Last(session_key)>>]
    ELSE [bucket |-> bucket, key |-> <<>>, session |-> <<>>]

shm_key_name(bk) == get_local_object_name(bk.bucket, bk.key, bk.session)

get_bucket_key_from_string(name) ==
    LET i == Min({j \in DOMAIN name : name[j] = kDelimiter})
    IN  BucketKey(SubSeq(name, 1, i - 1), SubSeq(name, i + 1, Len(name)))

EpheObjectImpl(bucket, key, session, target, value) ==
    [name |-> get_local_object_name(bucket, key, session), target |-> target, value |-> value]

\* The dots of the address are removed: 1.11 and 11.1 give the same digits.
UserLibrary(ip, thread_id, function, session, object_id) ==
    [ip_number |-> FlattenSeq(ip), chan |-> thread_id + 1, function |-> function,
     session |-> session, object_id |-> object_id]

gen_unique_key(lib) == <<ToString(<<lib.ip_number, lib.chan, lib.object_id>>)>>

\* create_object with a bucket and a key, with neither, and with a function.
create_object(lib, how, name, value) ==
    CASE how = "key" -> EpheObjectImpl(<<"b">>, name, lib.session, <<>>, value)
      [] how = "direct" ->
            EpheObjectImpl(<<"direct_invoc">>, <<ToString(<<lib.chan, lib.object_id>>)>>,
                           lib.session, <<>>, value)
      [] how = "function" ->
            EpheObjectImpl(<<"b_">> \o name, <<"k_">> \o lib.function, lib.session, name, value)
      [] how = "unique" ->
            EpheObjectImpl(<<"b_">> \o name, gen_unique_key(lib), lib.session, <<>>, value)

-----------------------------------------------------------------------------
(* A node: its shared memory, key_val_map and key_len_map *)

EmptyNode == [shm |-> <<>>, val |-> <<>>, len |-> <<>>]

Put(f, x, v) == [y \in DOMAIN f \cup {x} |-> IF y = x THEN v ELSE f[y]]

copy_to_shm_obj(node, name, value) == [node EXCEPT !.shm = Put(node.shm, name, value)]

\* A read with a length that is not the object's gives something else.
ReadShm(node, name, n) ==
    IF name \in DOMAIN node.shm /\ n = Size(node.shm[name]) THEN node.shm[name] ELSE Garbage

LenOf(node, name) == IF name \in DOMAIN node.len THEN node.len[name] ELSE 0

get_shm_obj(node, name) ==
    IF name \in DOMAIN node.len THEN ReadShm(node, name, node.len[name]) ELSE Garbage

\* send_object: the fields, and the value itself if it is small.
send_object(lib, obj) ==
    LET packing == Size(obj.value) <= msgDataPackingThreshold
    IN  [packing |-> packing,
         params |-> Join(<<lib.session, lib.function, obj.target, obj.name,
                           IF packing THEN obj.value ELSE to_string(Size(obj.value))>>)]

\* What the scheduler unpacks: a message with fewer than six fields is dropped.
Infos(msg) == split(CStr(msg.params))

Dropped(msg) == Len(Infos(msg)) < 6

NameIn(msg) == Infos(msg)[4] \o Bar \o Infos(msg)[5]

\* The function has written the value to shared memory; the scheduler stores
\* the length, and the value if the message has it.
StoreObject(node, lib, obj) ==
    LET msg  == send_object(lib, obj)
        name == NameIn(msg)
        here == copy_to_shm_obj(node, obj.name, obj.value)
    IN  IF Dropped(msg) THEN here
        ELSE IF msg.packing
        THEN [here EXCEPT !.val = Put(here.val, name, Infos(msg)[6]),
                          !.len = Put(here.len, name, Size(Infos(msg)[6]))]
        ELSE [here EXCEPT !.len = Put(here.len, name, stoi(Infos(msg)[6]))]

\* Output for the client, or for the store when nobody waits for it.
OutputData(node, lib, obj) ==
    LET msg == send_object(lib, obj)
    IN  IF Dropped(msg) THEN Garbage
        ELSE IF msg.packing THEN Infos(msg)[6]
        ELSE ReadShm(node, NameIn(msg), stoi(Infos(msg)[6]))

-----------------------------------------------------------------------------
(* Calls *)

\* Arguments of the actions of one trigger.  arg_flag (0: values, 1: names to
\* be read, 2: names and values) is set once, outside the loop over actions.
check_object_arrival(node, bucket, option, actions) ==
    LET Name(sk)   == get_local_object_name(bucket, sk[2], sk[1])
        Cached(a)  == \A i \in DOMAIN a : Name(a[i]) \in DOMAIN node.val
        Values(a)  == [i \in DOMAIN a |-> node.val[Name(a[i])]]
        Names(a)   == FlattenSeq([i \in DOMAIN a |->
                          <<Name(a[i]), to_string(LenOf(node, Name(a[i])))>>])
        Step(calls, a) ==
            LET flag == IF Cached(a) THEN 0
                        ELSE IF calls = <<>> THEN option + 1 ELSE Last(calls).flag
            IN  Append(calls, [args |-> IF Cached(a) THEN Values(a) ELSE Names(a), flag |-> flag])
    IN  FoldLeft(Step, <<>>, actions)

\* Direct invocation: the one object a function has sent.
DirectCall(lib, obj) ==
    LET msg == send_object(lib, obj)
    IN  IF msg.packing THEN [args |-> <<Infos(msg)[6]>>, flag |-> 0]
        ELSE [args |-> <<NameIn(msg), Infos(msg)[6]>>, flag |-> 1]

\* The message of schedule_func_call to an executor.
CallMsg(session, function, call) ==
    [flag |-> call.flag + 1, body |-> Join(<<session, function>> \o call.args)]

\* What the executor gives to the function; <<Garbage>> if it refuses the call.
ParseArgs(node, msg) ==
    LET fields == Tail(Tail(split(CStr(msg.body))))
        flag   == msg.flag - 1
        Read(i) == LET name == fields[i] \o Bar \o fields[i + 1]
                       data == ReadShm(node, name, stoi(fields[i + 2]))
                   IN  IF flag = 1 THEN <<data>> ELSE <<fields[i + 1], data>>
    IN  IF flag = 0 THEN fields
        ELSE IF Len(fields) % 3 # 0 THEN <<Garbage>>
        ELSE FlattenSeq([j \in 1 .. Len(fields) \div 3 |-> Read(3 * j - 2)])

\* schedule_func_call splits the names of a call it forwards at once; a batch
\* and a call that waited are forwarded with their names whole.
Flatten(call) ==
    IF call.flag > 0 /\ kDelimiter \in ToSet(call.args[1])
    THEN [call EXCEPT !.args = FlattenSeq([i \in DOMAIN call.args |->
                                   IF kDelimiter \in ToSet(call.args[i])
                                   THEN split(call.args[i]) ELSE <<call.args[i]>>])]
    ELSE call

Triples(call) == {i \in DOMAIN call.args : i % 3 = 1}

NameAt(call, i) == call.args[i] \o Bar \o call.args[i + 1]

\* The loops over a flagged call take its arguments by threes: a read past the
\* end, or a name where a size is expected, ends the scheduler.
TriplesFail(call) ==
    call.flag > 0 /\ \E i \in Triples(call) :
        i + 2 > Len(call.args) \/ stoi(call.args[i + 2]) = Throws

Mutforward_call_via_helper(node, call) ==
    LET total   == MapThenSumSet(LAMBDA i : stoi(call.args[i + 2]), Triples(call))
        Data(i) == ReadShm(node, NameAt(call, i), LenOf(node, NameAt(call, i)))
    IN  IF call.flag > 0 /\ total < forwardDataPackingThreshold
        THEN [args |-> [j \in 1 .. Len(call.args) \div 3 |-> Data(3 * j - 2)], flag |-> 0]
        ELSE call

\* Small objects go with the call, in place of their names.
forward_call_via_helper(node, call) ==
    LET total   == MapThenSumSet(LAMBDA i : stoi(call.args[i + 2]), Triples(call))
        Data(i) == ReadShm(node, NameAt(call, i), LenOf(node, NameAt(call, i)))
        Real(j) == LET i == 3 * j - 2
                   IN  IF call.flag = 1 THEN <<Data(i)>> ELSE <<call.args[i + 1], Data(i)>>
    IN  IF call.flag > 0 /\ total < forwardDataPackingThreshold
        THEN [args |-> FlattenSeq([j \in 1 .. Len(call.args) \div 3 |-> Real(j)]), flag |-> 0]
        ELSE call

\* The arguments of the forwarded request: names joined again, or values.
forward_func_call(call) ==
    IF call.flag = 0 THEN call
    ELSE [call EXCEPT !.args = [j \in 1 .. Len(call.args) \div 3 |-> NameAt(call, 3 * j - 2)]]

\* handle_function_call: a request without arguments has no flag.
handle_function_call(call) == IF call.args = <<>> THEN [call EXCEPT !.flag = 0] ELSE call

\* The other node fetches the objects it does not have, from the first node,
\* and passes names and lengths on.  An object it has by that name is used.
FetchArgs(node, other, call) ==
    LET Fetch(o, name) ==
            IF name \in DOMAIN o.len THEN o
            ELSE LET data == get_shm_obj(node, name)
                 IN  [copy_to_shm_obj(o, name, data) EXCEPT !.len = Put(o.len, name, Size(data))]
    IN  IF call.flag = 0 THEN other ELSE FoldLeft(Fetch, other, call.args)

FullArgs(other, call) ==
    IF call.flag = 0 THEN call
    ELSE [call EXCEPT !.args = FlattenSeq([i \in DOMAIN call.args |->
                                   <<call.args[i], to_string(other.len[call.args[i]])>>])]

\* A call run here, and a call forwarded to a node with the objects other has.
RunHere(node, session, call) == ParseArgs(node, CallMsg(session, <<"g">>, call))

RunThere(node, other, session, call) ==
    LET sent == handle_function_call(forward_func_call(forward_call_via_helper(node, call)))
        then == FetchArgs(node, other, sent)
    IN  RunHere(then, session, FullArgs(then, sent))

-----------------------------------------------------------------------------
(* get_object *)

\* The length of the name is sent in one byte.
GetReqName(name) == IF Size(name) < 256 THEN name ELSE <<"part of the name">>

\* The size in the answer: as a number if the object is on the node, and as a
\* character once it has come from another.
SizeReply(local, n) == IF local THEN to_string(n) ELSE AsCharacter(n)

get_object(node, local, name) ==
    LET asked == GetReqName(name)
        size  == stoi(CStr(SizeReply(local, LenOf(node, asked))))
    IN  ReadShm(node, name, size)

-----------------------------------------------------------------------------
(* The I/O thread whose data server is named as the place of an object *)

get_io_thread_id(last, count, exclude_main_thread) ==
    IF (last + 1) % count = 0 THEN IF exclude_main_thread THEN 1 ELSE 0 ELSE last + 1

\* notify_put names a thread other than the scheduler's own, forward_func_call any.
ThreadsNamed(count, uses) ==
    FoldLeft(LAMBDA ids, exclude : Append(ids, get_io_thread_id(Last(ids), count, exclude)),
             <<0>>, uses)

-----------------------------------------------------------------------------
(* Inputs *)

Plain   == {<<"v">>, <<"v", "w">>, <<"big">>, <<"huge">>}
Special == {<<"v", kDelimiter, "w">>, <<"v", NUL, "w">>, <<"big", kDelimiter, "w">>}
KeyNames == {<<"k">>, <<"l">>}
Ips     == {<<<<1>>, <<1, 1>>>>, <<<<1, 1>>, <<1>>>>, <<<<2>>, <<1>>>>}
Libs    == {UserLibrary(ip, thread, <<f>>, <<s>>, id) :
               ip \in Ips, thread \in 0 .. 1, f \in {"f", "h"}, s \in {"s", "t"}, id \in 0 .. 1}
ALib    == UserLibrary(<<<<1>>, <<1, 1>>>>, 0, <<"f">>, <<"s">>, 0)
Hows    == {"key", "direct", "function", "unique"}

Obj(key, value) == create_object(ALib, "key", key, value)

\* The node after a function has sent an object for each key.
NodeWith(values) ==
    FoldLeft(LAMBDA node, k : StoreObject(node, ALib, Obj(k, values[k])), EmptyNode,
             SetToSeq(DOMAIN values))

-----------------------------------------------------------------------------
(* Properties *)

\* Names tell objects apart, except where two executors make one name: objects
\* for a function by runs of one function in one session, direct objects by
\* executors of one number on two nodes, and unique keys on nodes whose
\* addresses have the same digits.
NamesTellApart ==
    \A l1, l2 \in Libs : \A h \in Hows \ {"key"} :
        create_object(l1, h, <<"g">>, <<>>).name = create_object(l2, h, <<"g">>, <<>>).name
        <=> /\ l1.session = l2.session
            /\ h = "function" => l1.function = l2.function
            /\ h \in {"direct", "unique"} => l1.chan = l2.chan /\ l1.object_id = l2.object_id
            /\ h = "unique" => l1.ip_number = l2.ip_number

\* An object's name is the same after it was taken apart and put together, as
\* long as it has a session.
NamesSurvive ==
    \A k \in KeyNames, s \in {<<>>, <<"s">>} :
        LET name == get_local_object_name(<<"b">>, k, s)
        IN  (shm_key_name(get_bucket_key_from_string(name)) = name) <=> (s # <<>>)

\* What a triggered function is promised: the values of its objects, with
\* their names if the trigger asks for them (trigger.hpp:35).
Promised(values, option, action) ==
    FlattenSeq([i \in DOMAIN action |->
        IF option = 0 THEN <<values[action[i][2]]>>
        ELSE <<get_key_session_name(action[i][2], action[i][1]), values[action[i][2]]>>])

Small(v) == Size(v) <= msgDataPackingThreshold

Actions == {<<<<<<"s">>, <<"k">>>>>>, <<<<<<"s">>, <<"k">>>>, <<<<"s">>, <<"l">>>>>>}

\* The actions of a trigger, run on the node where it fired, get what they were
\* promised: exactly if none that needs names (an object is large, or the
\* trigger asks for names) has only small objects or follows one that has.
TriggeredCallsHere ==
    \A values \in [KeyNames -> Plain], option \in 0 .. 1, a1, a2 \in Actions :
        LET node  == NodeWith(values)
            calls == check_object_arrival(node, <<"b">>, option, <<a1, a2>>)
            Given(a, c) == RunHere(node, <<"s">>, c) = Promised(values, option, a)
            Inlined(a) == \A i \in DOMAIN a : Small(values[a[i][2]])
        IN  /\ Given(a1, calls[1]) <=> ~(option = 1 /\ Inlined(a1))
            /\ Given(a2, calls[2]) <=> ~(option = 1 /\ Inlined(a2)) /\ (Inlined(a1) => Inlined(a2))

\* A call forwarded to a node that has no other object of these names gets
\* there with what it was promised, if it is forwarded at once; one that was
\* delayed or is part of a batch ends the scheduler exactly if it has names.
ForwardedCalls ==
    \A values \in [KeyNames -> Plain], option \in 0 .. 1, a \in Actions :
        LET node == NodeWith(values)
            call == check_object_arrival(node, <<"b">>, option, <<a>>)[1]
        IN  /\ TriplesFail(call) <=> call.flag > 0
            /\ ~TriplesFail(Flatten(call))
            /\ call.flag > 0 \/ option = 0 =>
                  RunThere(node, EmptyNode, <<"s">>, Flatten(call)) = Promised(values, option, a)

\* A directly invoked function gets the object, here or on another node; there
\* it gets another one if that node has an object of the name.
DirectCalls ==
    \A v \in Plain, w \in Plain \cup {<<>>} :
        LET obj   == create_object(ALib, "direct", <<>>, v)
            node  == StoreObject(EmptyNode, ALib, obj)
            other == IF w = <<>> THEN EmptyNode
                     ELSE StoreObject(EmptyNode, ALib, [obj EXCEPT !.value = w])
            call  == DirectCall(ALib, obj)
        IN  /\ RunHere(node, <<"s">>, call) = <<v>>
            /\ RunThere(node, other, <<"s">>, Flatten(call)) = <<v>>
               <=> w \in {<<>>, v} \/ Size(v) < forwardDataPackingThreshold

\* Output reaches the client or the store as it was written if it is large or
\* has no '|' and no zero byte in it; an empty object is dropped.
OutputsArrive ==
    /\ \A v \in Plain \cup Special :
          (OutputData(NodeWith([k \in {<<"k">>} |-> v]), ALib, Obj(<<"k">>, v)) = v)
          <=> v \in Plain \/ ~Small(v)
    /\ Dropped(send_object(ALib, Obj(<<"k">>, <<>>)))

\* get_object reads an object of its own node, and never one whose size came
\* as a character or whose name is longer than a byte can count.
GetsRead ==
    \A v \in Plain, k \in {<<"k">>, <<"long">>}, local \in BOOLEAN :
        (get_object(NodeWith([x \in {k} |-> v]), local, Obj(k, v).name) = v)
        <=> local /\ k = <<"k">>

MaxIoThreads == 4
MaxUses == 5

\* The thread named has a data server, and is not the scheduler's own where that
\* is asked for; but with a single I/O thread notify_put names one that is not
\* there.
PlacesAnswer ==
    \A count \in 1 .. MaxIoThreads, uses \in [1 .. MaxUses -> BOOLEAN], i \in 1 .. MaxUses :
        LET id == ThreadsNamed(count, uses)[i + 1]
        IN  /\ (id \in 0 .. count - 1) <=> ~(count = 1 /\ uses[i])
            /\ uses[i] => id # 0

\* Objects and arguments arrive: names tell objects apart and survive their
\* conversions, and what functions send reaches the functions, clients and
\* readers it is meant for, but for the cases the parts state.
ArgumentsKept ==
    /\ NamesTellApart /\ NamesSurvive
    /\ TriggeredCallsHere /\ ForwardedCalls /\ DirectCalls
    /\ OutputsArrive /\ GetsRead /\ PlacesAnswer
=============================================================================
