--------------------------- MODULE LocalScheduler ---------------------------
(***************************************************************************)
(* A node's local scheduler (scheduler_server.cpp) and its executors       *)
(* (executor_server.cpp, function_lib.hpp).                                *)
(*                                                                         *)
(* The scheduler is one thread.  Each round of its loop takes at most one  *)
(* message of the executors from the shared channel, then the calls that   *)
(* other machines sent (pc = "comm"), then looks at the delayed calls      *)
(* (pc = "delay").  It knows its executors only through the status it      *)
(* keeps for them: 0 empty, 1 available, 2 await, 3 busy.                  *)
(*                                                                         *)
(* An executor is a process with a channel of its own.  It reports busy    *)
(* when it takes a call and available when it is done, and besides reports *)
(* available about every second when it passes the end of its loop.  While *)
(* a function waits for an object the executor reads the same channel.     *)
(*                                                                         *)
(* Channels are the shm-ipc ring buffers, taken to be FIFO without loss:   *)
(* update_status and get_object retry until a send succeeds.               *)
(***************************************************************************)
EXTENDS Integers, Sequences, FiniteSets

CONSTANTS
  NumExecutors,
  Calls,        \* the calls of functions that may ever be made
  Functions, Func,  \* call -> function
  Roots,        \* calls that arrive from the coordinator
  Deps,         \* call -> calls it makes by direct invocation (direct_deps_)
  Named,        \* calls that name their target; the others invoke all of Deps
  Reading,      \* calls that read an object with get_object
  Broken,       \* calls whose library cannot be loaded or arguments parsed
  DelayOn,      \* schedDelayTime > 0
  Shared,       \* sharedExecutor
  RejectExtra,  \* rejectExtraReq
  MaxReports,   \* bound: periodic reports of one executor
  NoCall

Executors == 1..NumExecutors

ASSUME SizesNat == NumExecutors \in Nat /\ MaxReports \in Nat
ASSUME SwitchesBool == {DelayOn, Shared, RejectExtra} \subseteq BOOLEAN
ASSUME CallFields ==
  /\ Func \in [Calls -> Functions] /\ Deps \in [Calls -> Seq(Calls)]
  /\ Roots \subseteq Calls /\ NoCall \notin Calls
(* A call is made once: by the coordinator or by one call, at one position. *)
ASSUME MadeOnce ==
  /\ \A c \in Calls : \A i \in DOMAIN Deps[c] : Deps[c][i] \notin Roots
  /\ \A c, d \in Calls : \A i \in DOMAIN Deps[c], j \in DOMAIN Deps[d] :
       Deps[c][i] = Deps[d][j] => c = d /\ i = j

VARIABLES
  pc,        \* part of the loop the scheduler is in
  work,      \* calls the handler at hand has yet to pass to schedule_func_call
  budget,    \* cur_avail_executors of the delay loop
  status,    \* executor_status_map
  warm,      \* function -> executors (function_executor_map)
  delayQ,    \* delay_call_queue; late: waiting for more than schedDelayTime
  toExec,    \* executor -> messages in its channel
  toSched,   \* messages in the shared channel
  exec,      \* executor -> what it does; todo: what the function has yet to do
  reports,   \* executor -> periodic reports so far
  pending,   \* calls the coordinator has yet to send
  outcome    \* history: what became of each call

schedVars == <<pc, work, budget, status, warm, delayQ>>
vars == <<schedVars, toExec, toSched, exec, reports, pending, outcome>>

CallMsg(c) == [type |-> "call", call |-> c]
RespMsg == [type |-> "resp", call |-> NoCall]
Msg(e, type, calls) == [from |-> e, type |-> type, calls |-> calls]

Idle == [pc |-> "idle", call |-> NoCall, todo |-> {}]

Init ==
  /\ pc = "recv" /\ work = <<>> /\ budget = 0
  /\ status = [e \in Executors |-> 2]
  /\ warm = [f \in Functions |-> {}]
  /\ delayQ = <<>>
  /\ toExec = [e \in Executors |-> <<>>]
  /\ toSched = <<>>
  /\ exec = [e \in Executors |-> Idle]
  /\ reports = [e \in Executors |-> 0]
  /\ pending = Roots
  /\ outcome = [c \in Calls |-> "none"]

-----------------------------------------------------------------------------
(* get_avail_executor_num *)
AvailNum == Cardinality({e \in Executors : status[e] \in {0, 1}})

(* Available executors not used for another function, shared or not. *)
MutSuitable(c) ==
  LET warmOnes == {e \in Executors : status[e] = 1 /\ e \in warm[Func[c]]}
  IN  IF warmOnes # {} THEN warmOnes ELSE {e \in Executors : status[e] = 0}

(* The executors that schedule_func_call may pick for call c: the first warm
   one, else any cold one. *)
Suitable(c) ==
  LET warmOnes == {e \in Executors : status[e] = 1 /\ e \in warm[Func[c]]}
  IN  IF warmOnes # {}
      THEN {e \in warmOnes : \A x \in warmOnes : e <= x}
      ELSE {e \in Executors : status[e] = 0 \/ (Shared /\ status[e] = 1)}

(* Calls the node does not take: forwarded to the coordinator, or dropped. *)
GiveUp(S) ==
  outcome' = [c \in Calls |-> IF c \in S
                              THEN IF RejectExtra THEN "rejected" ELSE "forwarded"
                              ELSE outcome[c]]

(* schedule_func_call for c, with q the delayed calls. *)
Schedule(c, q) ==
  \/ \E e \in Suitable(c) :
       /\ toExec' = [toExec EXCEPT ![e] = Append(@, CallMsg(c))]
       /\ status' = [status EXCEPT ![e] = 2]
       /\ warm' = [warm EXCEPT ![Func[c]] = @ \cup {e}]
       /\ delayQ' = q
       /\ UNCHANGED outcome
  \/ /\ Suitable(c) = {}
     /\ IF DelayOn
        THEN delayQ' = Append(q, [call |-> c, late |-> FALSE]) /\ UNCHANGED outcome
        ELSE delayQ' = q /\ GiveUp({c})
     /\ UNCHANGED <<toExec, status, warm>>

(* The next call of the handler at hand. *)
ScheduleWork ==
  /\ work # <<>>
  /\ Schedule(Head(work), delayQ)
  /\ work' = Tail(work)
  /\ UNCHANGED <<pc, budget, toSched, exec, reports, pending>>

(* shared_chan.recv(0): the next message of an executor, if there is one. *)
TakeMessage(type) ==
  /\ pc = "recv" /\ work = <<>>
  /\ toSched # <<>> /\ Head(toSched).type = type
  /\ toSched' = Tail(toSched)
  /\ pc' = "comm"
  /\ UNCHANGED <<budget, warm, delayQ, exec, reports, pending>>

RecvNothing ==
  /\ pc = "recv" /\ work = <<>> /\ toSched = <<>>
  /\ pc' = "comm"
  /\ UNCHANGED <<work, budget, status, warm, delayQ, toExec, toSched, exec, reports,
                 pending, outcome>>

RecvBusy ==
  /\ TakeMessage("busy")
  /\ status' = [status EXCEPT ![Head(toSched).from] = 3]
  /\ UNCHANGED <<work, toExec, outcome>>

(* A busy executor stays busy. *)
MutAvailStatus(s) == IF s \in {0, 2} THEN 0 ELSE s

(* The status after the available flag. *)
AvailStatus(s) == IF s \in {0, 2} THEN 0 ELSE 1

RecvAvail ==
  /\ TakeMessage("avail")
  /\ LET e == Head(toSched).from IN status' = [status EXCEPT ![e] = AvailStatus(@)]
  /\ UNCHANGED <<work, toExec, outcome>>

(* A get request for an object of this node. *)
RecvGet ==
  /\ TakeMessage("get")
  /\ toExec' = [toExec EXCEPT ![Head(toSched).from] = Append(@, RespMsg)]
  /\ UNCHANGED <<work, status, outcome>>

(* How many of the calls L of one object are scheduled here: with a named
   target the one call, else as many as there are executors available. *)
LocalShare(named, L) == IF named \/ Len(L) <= AvailNum THEN Len(L) ELSE AvailNum

(* An object sent along direct dependencies: the calls beyond the executors
   available are given up at once. *)
RecvSend(named) ==
  /\ TakeMessage(IF named THEN "invoke" ELSE "batch")
  /\ LET L == Head(toSched).calls
         n == LocalShare(named, L)
     IN  /\ work' = SubSeq(L, 1, n)
         /\ GiveUp({L[i] : i \in (n + 1)..Len(L)})
  /\ UNCHANGED <<status, toExec>>

(* A call of the coordinator among the messages of try_recv_msg. *)
CommCall(c) ==
  /\ pc = "comm" /\ work = <<>>
  /\ c \in pending
  /\ pending' = pending \ {c}
  /\ work' = <<c>>
  /\ UNCHANGED <<pc, budget, status, warm, delayQ, toExec, toSched, exec, reports, outcome>>

CommDone ==
  /\ pc = "comm" /\ work = <<>>
  /\ pc' = "delay"
  /\ budget' = AvailNum
  /\ UNCHANGED <<work, status, warm, delayQ, toExec, toSched, exec, reports, pending, outcome>>

(* The call scheduled but not popped. *)
MutDelayNoPop ==
  /\ pc = "delay" /\ budget > 0 /\ delayQ # <<>>
  /\ Schedule(Head(delayQ).call, delayQ)
  /\ budget' = budget - 1
  /\ UNCHANGED <<pc, work, toSched, exec, reports, pending>>

(* The first loop over the delayed calls.  The call at the front is passed to
   schedule_func_call, which may queue it anew, and is then popped. *)
DelayRetry ==
  /\ pc = "delay" /\ budget > 0 /\ delayQ # <<>>
  /\ Schedule(Head(delayQ).call, Tail(delayQ))
  /\ budget' = budget - 1
  /\ UNCHANGED <<pc, work, toSched, exec, reports, pending>>

(* The second loop, over the calls delayed for too long. *)
DelayExpire ==
  /\ pc = "delay" /\ budget = 0 /\ delayQ # <<>> /\ Head(delayQ).late
  /\ delayQ' = Tail(delayQ)
  /\ GiveUp({Head(delayQ).call})
  /\ UNCHANGED <<pc, work, budget, status, warm, toExec, toSched, exec, reports, pending>>

DelayDone ==
  /\ pc = "delay"
  /\ delayQ # <<>> => budget = 0 /\ ~Head(delayQ).late
  /\ pc' = "recv" /\ budget' = 0
  /\ UNCHANGED <<work, status, warm, delayQ, toExec, toSched, exec, reports, pending, outcome>>

Scheduler ==
  \/ ScheduleWork
  \/ RecvNothing \/ RecvBusy \/ RecvAvail \/ RecvGet
  \/ \E named \in BOOLEAN : RecvSend(named)
  \/ \E c \in Calls : CommCall(c)
  \/ CommDone \/ DelayRetry \/ DelayExpire \/ DelayDone

(* schedDelayTime passes. *)
Tick ==
  /\ \E i \in DOMAIN delayQ : ~delayQ[i].late
  /\ delayQ' = [i \in DOMAIN delayQ |-> [delayQ[i] EXCEPT !.late = TRUE]]
  /\ UNCHANGED <<pc, work, budget, status, warm, toExec, toSched, exec, reports, pending,
                 outcome>>

-----------------------------------------------------------------------------
(* What the function of call c does besides computing. *)
Todo(c) == IF c \in Broken THEN {}
           ELSE (IF c \in Reading THEN {"get"} ELSE {})
                \cup (IF Deps[c] # <<>> THEN {"send"} ELSE {})

(* The executor takes the next message of its channel in its main loop.  A
   call is run; anything else is ignored. *)
ExecCall(e) ==
  /\ exec[e].pc = "idle" /\ toExec[e] # <<>> /\ Head(toExec[e]).type = "call"
  /\ LET c == Head(toExec[e]).call
     IN  exec' = [exec EXCEPT ![e] = [pc |-> "run", call |-> c, todo |-> Todo(c)]]
  /\ toExec' = [toExec EXCEPT ![e] = Tail(@)]
  /\ toSched' = Append(toSched, Msg(e, "busy", <<>>))
  /\ UNCHANGED <<schedVars, reports, pending, outcome>>

ExecIgnore(e) ==
  /\ exec[e].pc = "idle" /\ toExec[e] # <<>> /\ Head(toExec[e]).type # "call"
  /\ toExec' = [toExec EXCEPT ![e] = Tail(@)]
  /\ UNCHANGED <<schedVars, toSched, exec, reports, pending, outcome>>

(* get_object sends its request and waits for the answer. *)
Get(e) ==
  /\ exec[e].pc = "run" /\ "get" \in exec[e].todo
  /\ exec' = [exec EXCEPT ![e].pc = "wait", ![e].todo = @ \ {"get"}]
  /\ toSched' = Append(toSched, Msg(e, "get", <<>>))
  /\ UNCHANGED <<schedVars, toExec, reports, pending, outcome>>

(* ... which is whatever comes next on the channel.  A call taken for the
   answer is "incorrect message type": get_object returns nullptr, and nothing
   is left of the call. *)
GetReturn(e) ==
  /\ exec[e].pc = "wait" /\ toExec[e] # <<>>
  /\ toExec' = [toExec EXCEPT ![e] = Tail(@)]
  /\ exec' = [exec EXCEPT ![e].pc = "run"]
  /\ outcome' = [c \in Calls |-> IF c = Head(toExec[e]).call THEN "swallowed"
                                 ELSE outcome[c]]
  /\ UNCHANGED <<schedVars, toSched, reports, pending>>

(* No answer within 30 seconds. *)
GetTimeout(e) ==
  /\ exec[e].pc = "wait" /\ toExec[e] = <<>>
  /\ exec' = [exec EXCEPT ![e].pc = "run"]
  /\ UNCHANGED <<schedVars, toExec, toSched, reports, pending, outcome>>

(* send_object of an object that direct dependencies pass on. *)
Send(e) ==
  LET c == exec[e].call
  IN  /\ exec[e].pc = "run" /\ exec[e].todo = {"send"}
      /\ exec' = [exec EXCEPT ![e].todo = {}]
      /\ toSched' = Append(toSched, Msg(e, IF c \in Named THEN "invoke" ELSE "batch", Deps[c]))
      /\ UNCHANGED <<schedVars, toExec, reports, pending, outcome>>

(* The function has returned, or was never run. *)
Finish(e) ==
  /\ exec[e].pc = "run" /\ exec[e].todo = {}
  /\ exec' = [exec EXCEPT ![e] = Idle]
  /\ toSched' = Append(toSched, Msg(e, "avail", <<>>))
  /\ outcome' = [outcome EXCEPT ![exec[e].call] =
                   IF exec[e].call \in Broken THEN "failed" ELSE "done"]
  /\ UNCHANGED <<schedVars, toExec, reports, pending>>

(* The report at the end of a loop round, every ExecutorTimerThreshold. *)
Report(e) ==
  /\ exec[e].pc = "idle" /\ reports[e] < MaxReports
  /\ reports' = [reports EXCEPT ![e] = @ + 1]
  /\ toSched' = Append(toSched, Msg(e, "avail", <<>>))
  /\ UNCHANGED <<schedVars, toExec, exec, pending, outcome>>

Executor(e) ==
  \/ ExecCall(e) \/ ExecIgnore(e) \/ Get(e) \/ GetReturn(e) \/ GetTimeout(e)
  \/ Send(e) \/ Finish(e)

Next == Scheduler \/ Tick \/ \E e \in Executors : Executor(e) \/ Report(e)

Spec == Init /\ [][Next]_vars

(* The scheduler and the executors never stop looping, functions return, and
   time passes. *)
Fairness ==
  /\ WF_vars(Scheduler) /\ WF_vars(Tick)
  /\ \A e \in Executors : WF_vars(Executor(e)) /\ WF_vars(Report(e))
FairSpec == Spec /\ Fairness

-----------------------------------------------------------------------------
Outcomes == {"none", "done", "failed", "forwarded", "rejected", "swallowed"}
SchedMsg == [from : Executors, type : {"busy", "avail", "get", "invoke", "batch"},
             calls : Seq(Calls)]
ExecMsg == {CallMsg(c) : c \in Calls} \cup {RespMsg}
Job == {Idle} \cup [pc : {"run", "wait"}, call : Calls, todo : SUBSET {"get", "send"}]

(* Type invariant; in particular the scheduler only ever counts down as many
   delayed calls as it found executors. *)
TypeOK ==
  /\ pc \in {"recv", "comm", "delay"}
  /\ work \in Seq(Calls)
  /\ budget \in 0..NumExecutors
  /\ status \in [Executors -> 0..3]
  /\ warm \in [Functions -> SUBSET Executors]
  /\ delayQ \in Seq([call : Calls, late : BOOLEAN])
  /\ toExec \in [Executors -> Seq(ExecMsg)]
  /\ toSched \in Seq(SchedMsg)
  /\ exec \in [Executors -> Job]
  /\ reports \in [Executors -> 0..MaxReports]
  /\ pending \in SUBSET Calls
  /\ outcome \in [Calls -> Outcomes]

(* Executor e has a call: in its channel or running. *)
CallWaits(e) == \E i \in DOMAIN toExec[e] : toExec[e][i].type = "call"
Occupied(e) == CallWaits(e) \/ exec[e].pc # "idle"
AvailComing(e) ==
  \E i \in DOMAIN toSched : toSched[i].from = e /\ toSched[i].type = "avail"

(* No executor is leaked: one that the scheduler takes for occupied, after its
   first report, is occupied or has an available flag on its way.  Stale flags
   and calls taken for answers never leave an idle executor unused. *)
NoExecutorLeak ==
  \A e \in Executors :
    status[e] \in {2, 3} /\ reports[e] > 0 => Occupied(e) \/ AvailComing(e)

(* What makes NoExecutorLeak inductive: a busy flag on its way is followed by
   an available flag, unless its executor is still occupied. *)
BusyFollowed ==
  \A i \in DOMAIN toSched :
    toSched[i].type = "busy" =>
      \/ exec[toSched[i].from].pc # "idle"
      \/ \E j \in DOMAIN toSched :
           j > i /\ toSched[j].from = toSched[i].from /\ toSched[j].type = "avail"

(* How often call c is found on the node. *)
Copies(c) ==
  LET places ==
        {<<"work", i, 0>> : i \in {j \in DOMAIN work : work[j] = c}}
        \cup {<<"delay", i, 0>> : i \in {j \in DOMAIN delayQ : delayQ[j].call = c}}
        \cup {<<"running", e, 0>> : e \in {x \in Executors : exec[x].call = c}}
        \cup UNION {{<<"channel", e, i>> : i \in {j \in DOMAIN toExec[e] : toExec[e][j].call = c}} :
                     e \in Executors}
        \cup UNION {{<<"sent", i, j>> : j \in {k \in DOMAIN toSched[i].calls :
                                              toSched[i].calls[k] = c}} :
                     i \in DOMAIN toSched}
        \cup {<<"outcome", 0, 0>> : x \in {outcome[c]} \ {"none"}}
  IN  Cardinality(places)

(* A call is neither lost nor duplicated, whatever way it takes through the
   delay queue: it comes up once, and every step that takes it from a queue
   puts it in another, runs it or gives it an outcome. *)
NoCallVanishes ==
  [][\A c \in Calls : Copies(c) <= 1 /\ Copies(c)' \in {Copies(c), 1}]_vars

(* Every call that reaches the node is run, given up or forwarded in the end. *)
CallsSettle == \A c \in Calls : Copies(c) = 1 ~> outcome[c] # "none"
=============================================================================
