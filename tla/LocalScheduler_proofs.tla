----------------------- MODULE LocalScheduler_proofs -----------------------
(***************************************************************************)
(* Proofs about LocalScheduler, for any number of executors, calls and     *)
(* reports: type correctness, and that no executor is leaked.              *)
(***************************************************************************)
EXTENDS LocalScheduler, FiniteSetTheorems, TLAPS

(* get_avail_executor_num counts at most all executors. *)
LEMMA AvailBound == AvailNum \in 0..NumExecutors
<1> DEFINE S == {e \in Executors : status[e] \in {0, 1}}
<1>1. IsFiniteSet(Executors) /\ Cardinality(Executors) = NumExecutors
  BY FS_Interval, SizesNat DEF Executors
<1>2. S \subseteq Executors
  BY Zenon
<1>3. IsFiniteSet(S) /\ Cardinality(S) <= NumExecutors
  BY <1>1, <1>2, FS_Subset, Zenon
<1>4. Cardinality(S) \in Nat
  BY <1>3, FS_CardinalityType, Zenon
<1> QED
  BY <1>3, <1>4, SizesNat DEF AvailNum

(* schedule_func_call picks executors of the node. *)
LEMMA SuitableType == \A c : Suitable(c) \subseteq Executors
BY Zenon DEF Suitable

(* Giving up calls keeps the history well formed. *)
LEMMA GiveUpType == \A S : outcome \in [Calls -> Outcomes] /\ GiveUp(S) =>
                             outcome' \in [Calls -> Outcomes]
BY Zenon DEF GiveUp, Outcomes

(* schedule_func_call keeps the types. *)
LEMMA ScheduleType ==
  ASSUME TypeOK, NEW c \in Calls, NEW q \in Seq([call : Calls, late : BOOLEAN]),
         Schedule(c, q)
  PROVE  /\ toExec' \in [Executors -> Seq(ExecMsg)]
         /\ status' \in [Executors -> 0..3]
         /\ warm' \in [Functions -> SUBSET Executors]
         /\ delayQ' \in Seq([call : Calls, late : BOOLEAN])
         /\ outcome' \in [Calls -> Outcomes]
<1>1. CASE \E e \in Suitable(c) :
             /\ toExec' = [toExec EXCEPT ![e] = Append(@, CallMsg(c))]
             /\ status' = [status EXCEPT ![e] = 2]
             /\ warm' = [warm EXCEPT ![Func[c]] = @ \cup {e}]
             /\ delayQ' = q
             /\ UNCHANGED outcome
  <2>1. PICK e \in Executors :
             /\ toExec' = [toExec EXCEPT ![e] = Append(@, CallMsg(c))]
             /\ status' = [status EXCEPT ![e] = 2]
             /\ warm' = [warm EXCEPT ![Func[c]] = @ \cup {e}]
             /\ delayQ' = q
             /\ UNCHANGED outcome
    BY <1>1, SuitableType, Zenon
  <2>2. CallMsg(c) \in ExecMsg
    BY Zenon DEF CallMsg, ExecMsg
  <2>3. Func[c] \in Functions
    BY CallFields, Zenon
  <2>4. Append(toExec[e], CallMsg(c)) \in Seq(ExecMsg)
    BY <2>2 DEF TypeOK
  <2> QED
    BY <2>1, <2>3, <2>4 DEF TypeOK
<1>2. CASE /\ Suitable(c) = {}
           /\ IF DelayOn
              THEN delayQ' = Append(q, [call |-> c, late |-> FALSE]) /\ UNCHANGED outcome
              ELSE delayQ' = q /\ GiveUp({c})
           /\ UNCHANGED <<toExec, status, warm>>
  <2>1. [call |-> c, late |-> FALSE] \in [call : Calls, late : BOOLEAN]
    BY Zenon
  <2>2. Append(q, [call |-> c, late |-> FALSE]) \in Seq([call : Calls, late : BOOLEAN])
    BY <2>1
  <2> QED
    BY <1>2, <2>2, GiveUpType, Zenon DEF TypeOK
<1> QED
  BY <1>1, <1>2, Zenon DEF Schedule

(* The messages of the channels are well formed. *)
LEMMA MsgTypes ==
  ASSUME NEW e \in Executors
  PROVE  /\ Msg(e, "busy", <<>>) \in SchedMsg
         /\ Msg(e, "avail", <<>>) \in SchedMsg
         /\ Msg(e, "get", <<>>) \in SchedMsg
         /\ RespMsg \in ExecMsg
<1>1. <<>> \in Seq(Calls)
  OBVIOUS
<1> QED
  BY <1>1, Zenon DEF Msg, SchedMsg, RespMsg, ExecMsg

(* The parts of a non-empty channel or queue. *)
LEMMA HeadTail ==
  ASSUME NEW S, NEW q \in Seq(S), q # <<>>
  PROVE  Head(q) \in S /\ Tail(q) \in Seq(S)
OBVIOUS

(* The elements of a sequence. *)
LEMMA ElementType ==
  ASSUME NEW S, NEW q \in Seq(S), NEW i \in DOMAIN q
  PROVE  q[i] \in S
OBVIOUS

(* A function on 1..n is a sequence. *)
LEMMA FunctionSeq ==
  ASSUME NEW S, NEW n \in Nat, NEW h \in [1..n -> S]
  PROVE  h \in Seq(S)
OBVIOUS

(* Every step of the scheduler keeps the types. *)
LEMMA SchedulerType == TypeOK /\ Scheduler => TypeOK'
<1> SUFFICES ASSUME TypeOK, Scheduler PROVE TypeOK'
  BY Zenon
<1> DEFINE Delayed == [call : Calls, late : BOOLEAN]
<1>0. /\ toSched # <<>> => Head(toSched) \in SchedMsg /\ Tail(toSched) \in Seq(SchedMsg)
      /\ work # <<>> => Head(work) \in Calls /\ Tail(work) \in Seq(Calls)
      /\ delayQ # <<>> => Head(delayQ) \in Delayed /\ Tail(delayQ) \in Seq(Delayed)
  <2>1. toSched \in Seq(SchedMsg) /\ work \in Seq(Calls) /\ delayQ \in Seq(Delayed)
    BY Zenon DEF TypeOK
  <2> HIDE DEF Delayed
  <2> QED
    BY <2>1, HeadTail, Zenon
<1>1. CASE ScheduleWork
  <2>1. /\ Schedule(Head(work), delayQ) /\ Head(work) \in Calls
        /\ delayQ \in Seq(Delayed) /\ Tail(work) \in Seq(Calls)
    BY <1>1, <1>0, Zenon DEF ScheduleWork, TypeOK
  <2>2. /\ toExec' \in [Executors -> Seq(ExecMsg)] /\ status' \in [Executors -> 0..3]
        /\ warm' \in [Functions -> SUBSET Executors] /\ delayQ' \in Seq(Delayed)
        /\ outcome' \in [Calls -> Outcomes]
    BY <2>1, ScheduleType, Zenon
  <2> QED
    BY <1>1, <2>1, <2>2, Zenon DEF ScheduleWork, TypeOK
<1>2. CASE RecvNothing
  BY <1>2, Zenon DEF RecvNothing, TypeOK
<1>3. CASE RecvBusy
  <2>1. Head(toSched).from \in Executors
    BY <1>3, <1>0, Zenon DEF RecvBusy, TakeMessage, SchedMsg
  <2> QED
    BY <1>3, <1>0, <2>1 DEF RecvBusy, TakeMessage, TypeOK
<1>4. CASE RecvAvail
  <2>1. Head(toSched).from \in Executors
    BY <1>4, <1>0, Zenon DEF RecvAvail, TakeMessage, SchedMsg
  <2>2. AvailStatus(status[Head(toSched).from]) \in 0..3
    BY DEF AvailStatus
  <2> QED
    BY <1>4, <1>0, <2>1, <2>2, Zenon DEF RecvAvail, TakeMessage, TypeOK
<1>5. CASE RecvGet
  <2>1. PICK e \in Executors : e = Head(toSched).from
    BY <1>5, <1>0, Zenon DEF RecvGet, TakeMessage, SchedMsg
  <2>2. Append(toExec[e], RespMsg) \in Seq(ExecMsg)
    BY MsgTypes, <2>1 DEF TypeOK
  <2> QED
    BY <1>5, <1>0, <2>1, <2>2, Zenon DEF RecvGet, TakeMessage, TypeOK
<1>6. ASSUME NEW named \in BOOLEAN, RecvSend(named) PROVE TypeOK'
  <2>1. PICK L \in Seq(Calls) : L = Head(toSched).calls
    BY <1>6, <1>0, Zenon DEF RecvSend, TakeMessage, SchedMsg
  <2>2. LocalShare(named, L) \in 0..Len(L)
    BY AvailBound, SizesNat DEF LocalShare
  <2>3. PICK n \in 0..Len(L) : n = LocalShare(named, L)
    BY <2>2, Zenon
  <2>4. SubSeq(L, 1, n) \in Seq(Calls)
    <3>1. \A i \in 1..n : L[i] \in Calls
      OBVIOUS
    <3> QED
      BY <3>1
  <2>5. /\ work' = SubSeq(L, 1, n)
        /\ GiveUp({L[i] : i \in (n + 1)..Len(L)})
    BY <1>6, <2>1, <2>3, Zenon DEF RecvSend
  <2>6. outcome' \in [Calls -> Outcomes]
    BY <2>5, GiveUpType, Zenon DEF TypeOK
  <2> QED
    BY <1>6, <1>0, <2>4, <2>5, <2>6, Zenon DEF RecvSend, TakeMessage, TypeOK
<1>7. ASSUME NEW c \in Calls, CommCall(c) PROVE TypeOK'
  BY <1>7 DEF CommCall, TypeOK
<1>8. CASE CommDone
  BY <1>8, AvailBound, Zenon DEF CommDone, TypeOK
<1>9. CASE DelayRetry
  <2>1. PICK c \in Calls : c = Head(delayQ).call
    BY <1>9, <1>0, Zenon DEF DelayRetry
  <2>2. PICK q \in Seq(Delayed) : q = Tail(delayQ)
    BY <1>9, <1>0, Zenon DEF DelayRetry
  <2>3. Schedule(c, q)
    BY <1>9, <2>1, <2>2, Zenon DEF DelayRetry
  <2>4. /\ toExec' \in [Executors -> Seq(ExecMsg)] /\ status' \in [Executors -> 0..3]
        /\ warm' \in [Functions -> SUBSET Executors] /\ delayQ' \in Seq(Delayed)
        /\ outcome' \in [Calls -> Outcomes]
    BY <2>3, ScheduleType, Zenon
  <2> QED
    BY <1>9, <2>4, SizesNat DEF DelayRetry, TypeOK
<1>10. CASE DelayExpire
  <2>1. outcome' \in [Calls -> Outcomes]
    BY <1>10, GiveUpType, Zenon DEF DelayExpire, TypeOK
  <2> QED
    BY <1>10, <1>0, <2>1, Zenon DEF DelayExpire, TypeOK
<1>11. CASE DelayDone
  BY <1>11, SizesNat DEF DelayDone, TypeOK
<1> QED
  BY <1>1, <1>2, <1>3, <1>4, <1>5, <1>6, <1>7, <1>8, <1>9, <1>10, <1>11, Zenon DEF Scheduler

(* Every step of an executor keeps the types. *)
LEMMA ExecutorType ==
  ASSUME TypeOK, NEW e \in Executors, Executor(e) \/ Report(e)
  PROVE  TypeOK'
<1>0. /\ toExec[e] # <<>> => Head(toExec[e]) \in ExecMsg /\ Tail(toExec[e]) \in Seq(ExecMsg)
      /\ exec[e] \in Job /\ Idle \in Job
  BY DEF TypeOK, Job
<1>r. exec[e].pc # "idle" => exec[e] \in [pc : {"run", "wait"}, call : Calls, todo : SUBSET {"get", "send"}]
  BY <1>0 DEF Job, Idle
<1>1. CASE ExecCall(e)
  <2>2. PICK c \in Calls : c = Head(toExec[e]).call
    BY <1>1, <1>0 DEF ExecCall, ExecMsg, CallMsg, RespMsg
  <2>3. [pc |-> "run", call |-> c, todo |-> Todo(c)] \in Job
    BY Zenon DEF Todo, Job
  <2>4. exec' = [exec EXCEPT ![e] = [pc |-> "run", call |-> c, todo |-> Todo(c)]]
    BY <1>1, <2>2, Zenon DEF ExecCall
  <2> QED
    BY <1>1, <1>0, <2>3, <2>4, MsgTypes DEF ExecCall, TypeOK, schedVars
<1>2. CASE ExecIgnore(e)
  BY <1>2, <1>0, Zenon DEF ExecIgnore, TypeOK, schedVars
<1>3. CASE Get(e)
  <2>1. [exec[e] EXCEPT !.pc = "wait", !.todo = @ \ {"get"}] \in Job
    BY <1>3, <1>r, Zenon DEF Get, Job
  <2> QED
    BY <1>3, <2>1, MsgTypes DEF Get, TypeOK, schedVars
<1>4. CASE GetReturn(e)
  <2>1. outcome' \in [Calls -> Outcomes]
    BY <1>4, Zenon DEF GetReturn, TypeOK, Outcomes
  <2>2. [exec[e] EXCEPT !.pc = "run"] \in Job
    BY <1>4, <1>r, Zenon DEF GetReturn, Job
  <2> QED
    BY <1>4, <1>0, <2>1, <2>2, Zenon DEF GetReturn, TypeOK, schedVars
<1>5. CASE GetTimeout(e)
  <2>1. [exec[e] EXCEPT !.pc = "run"] \in Job
    BY <1>5, <1>r, Zenon DEF GetTimeout, Job
  <2> QED
    BY <1>5, <2>1, Zenon DEF GetTimeout, TypeOK, schedVars
<1>6. CASE Send(e)
  <2> DEFINE m == Msg(e, IF exec[e].call \in Named THEN "invoke" ELSE "batch", Deps[exec[e].call])
  <2>1. exec[e].call \in Calls
    BY <1>6, <1>r, Zenon DEF Send
  <2>2. m \in SchedMsg
    BY <2>1, CallFields, Zenon DEF Msg, SchedMsg
  <2>3. [exec[e] EXCEPT !.todo = {}] \in Job
    BY <1>6, <1>r, Zenon DEF Send, Job
  <2> QED
    BY <1>6, <2>2, <2>3 DEF Send, TypeOK, schedVars
<1>7. CASE Finish(e)
  <2>1. outcome' \in [Calls -> Outcomes]
    BY <1>7, Zenon DEF Finish, TypeOK, Outcomes
  <2> QED
    BY <1>7, <1>0, <2>1, MsgTypes DEF Finish, TypeOK, schedVars
<1>8. CASE Report(e)
  BY <1>8, MsgTypes, SizesNat DEF Report, TypeOK, schedVars
<1> QED
  BY <1>1, <1>2, <1>3, <1>4, <1>5, <1>6, <1>7, <1>8, Zenon DEF Executor

(* The state of the node is well typed in every reachable state. *)
THEOREM TypeCorrect == Spec => []TypeOK
<1>1. Init => TypeOK
  <2>1. /\ <<>> \in Seq(Calls) /\ <<>> \in Seq(SchedMsg) /\ <<>> \in Seq(ExecMsg)
        /\ <<>> \in Seq([call : Calls, late : BOOLEAN])
    OBVIOUS
  <2> QED
    BY <2>1, SizesNat, CallFields DEF Init, TypeOK, Job, Outcomes
<1>2. TypeOK /\ [Next]_vars => TypeOK'
  <2> SUFFICES ASSUME TypeOK, [Next]_vars PROVE TypeOK'
    BY Zenon
  <2>1. CASE Tick
    <3> DEFINE D == [call : Calls, late : BOOLEAN]
    <3>1. delayQ \in Seq(D)
      BY Zenon DEF TypeOK
    <3>2. ASSUME NEW i \in DOMAIN delayQ PROVE [delayQ[i] EXCEPT !.late = TRUE] \in D
      <4>1. delayQ[i] \in D
        <5> HIDE DEF D
        <5> QED
          BY <3>1, ElementType, Zenon
      <4>2. PICK d \in D : d = delayQ[i]
        BY <4>1, Zenon
      <4> QED
        BY <4>2, Zenon
    <3>3. [i \in DOMAIN delayQ |-> [delayQ[i] EXCEPT !.late = TRUE]] \in Seq(D)
      <4> DEFINE h == [i \in DOMAIN delayQ |-> [delayQ[i] EXCEPT !.late = TRUE]]
      <4>1. DOMAIN delayQ = 1..Len(delayQ) /\ Len(delayQ) \in Nat
        BY <3>1
      <4>2. h \in [1..Len(delayQ) -> D]
        BY <4>1, <3>2, Zenon
      <4> HIDE DEF h, D
      <4>3. h \in Seq(D)
        BY <4>1, <4>2, FunctionSeq, Zenon
      <4> QED
        BY <4>3, Zenon DEF h
    <3> QED
      BY <2>1, <3>3, Zenon DEF Tick, TypeOK
  <2>2. CASE UNCHANGED vars
    BY <2>2, Zenon DEF vars, schedVars, TypeOK
  <2> QED
    BY <2>1, <2>2, SchedulerType, ExecutorType, Zenon DEF Next
<1> QED
  BY <1>1, <1>2, PTL DEF Spec

-----------------------------------------------------------------------------
LeakInv == NoExecutorLeak /\ BusyFollowed

(* Indices of a channel after a send ... *)
LEMMA AppendFacts ==
  ASSUME NEW S, NEW q \in Seq(S), NEW m \in S
  PROVE  /\ DOMAIN q = 1..Len(q) /\ Len(q) \in Nat
         /\ DOMAIN Append(q, m) = 1..(Len(q) + 1)
         /\ \A i \in DOMAIN q : Append(q, m)[i] = q[i]
         /\ Append(q, m)[Len(q) + 1] = m
OBVIOUS

(* ... and after a receive. *)
LEMMA TailFacts ==
  ASSUME NEW S, NEW q \in Seq(S), q # <<>>
  PROVE  /\ DOMAIN q = 1..Len(q) /\ Len(q) \in Nat /\ Len(q) > 0
         /\ DOMAIN Tail(q) = 1..(Len(q) - 1)
         /\ \A i \in DOMAIN Tail(q) : Tail(q)[i] = q[i + 1]
         /\ Head(q) = q[1]
OBVIOUS

(* A send leaves the available flags of every executor in the channel. *)
LEMMA SendKeepsAvail ==
  ASSUME TypeOK, NEW m \in SchedMsg, toSched' = Append(toSched, m), NEW x \in Executors
  PROVE  AvailComing(x) => AvailComing(x)'
<1>1. toSched \in Seq(SchedMsg)
  BY Zenon DEF TypeOK
<1> QED
  BY <1>1, AppendFacts DEF AvailComing

(* A receive leaves them too, other than one of the message received. *)
LEMMA TakeKeepsAvail ==
  ASSUME TypeOK, toSched # <<>>, toSched' = Tail(toSched), NEW x \in Executors,
         Head(toSched).type # "avail" \/ Head(toSched).from # x
  PROVE  AvailComing(x) => AvailComing(x)'
<1>1. toSched \in Seq(SchedMsg)
  BY Zenon DEF TypeOK
<1> SUFFICES ASSUME AvailComing(x) PROVE AvailComing(x)'
  BY Zenon
<1>2. PICK i \in DOMAIN toSched : toSched[i].from = x /\ toSched[i].type = "avail"
  BY Zenon DEF AvailComing
<1>3. i # 1
  BY <1>1, <1>2, TailFacts, Zenon
<1>4. i - 1 \in DOMAIN Tail(toSched) /\ Tail(toSched)[i - 1] = toSched[i]
  BY <1>1, <1>3, TailFacts
<1> QED
  BY <1>2, <1>4, Zenon DEF AvailComing

(* A receive keeps what follows each busy flag. *)
LEMMA TakeKeepsFollowed ==
  ASSUME TypeOK, BusyFollowed, toSched # <<>>, toSched' = Tail(toSched), exec' = exec
  PROVE  BusyFollowed'
<1>1. toSched \in Seq(SchedMsg)
  BY Zenon DEF TypeOK
<1> SUFFICES ASSUME NEW i \in DOMAIN Tail(toSched), Tail(toSched)[i].type = "busy",
                    exec[Tail(toSched)[i].from].pc = "idle"
             PROVE  \E j \in DOMAIN Tail(toSched) :
                       /\ j > i /\ Tail(toSched)[j].from = Tail(toSched)[i].from
                       /\ Tail(toSched)[j].type = "avail"
  BY DEF BusyFollowed
<1>2. i + 1 \in DOMAIN toSched /\ toSched[i + 1] = Tail(toSched)[i]
  BY <1>1, TailFacts
<1>3. PICK j \in DOMAIN toSched :
         j > i + 1 /\ toSched[j].from = toSched[i + 1].from /\ toSched[j].type = "avail"
  BY <1>2, Zenon DEF BusyFollowed
<1>4. j - 1 \in DOMAIN Tail(toSched) /\ Tail(toSched)[j - 1] = toSched[j] /\ j - 1 > i
  BY <1>1, <1>3, TailFacts
<1> QED
  BY <1>2, <1>3, <1>4, Zenon

(* A send of executor e that is not idle afterwards keeps it, and so does the
   available flag. *)
LEMMA SendKeepsFollowed ==
  ASSUME TypeOK, BusyFollowed, NEW e \in Executors, NEW m \in SchedMsg, m.from = e,
         toSched' = Append(toSched, m),
         \A x \in Executors : x # e => exec'[x] = exec[x],
         exec'[e].pc # "idle" \/ m.type = "avail"
  PROVE  BusyFollowed'
<1>1. toSched \in Seq(SchedMsg)
  BY Zenon DEF TypeOK
<1> DEFINE q == Append(toSched, m)
<1> SUFFICES ASSUME NEW i \in DOMAIN q, q[i].type = "busy", exec'[q[i].from].pc = "idle"
             PROVE  \E j \in DOMAIN q : j > i /\ q[j].from = q[i].from /\ q[j].type = "avail"
  BY DEF BusyFollowed
<1>2. i \in DOMAIN toSched /\ q[i] = toSched[i]
  <2>1. q[Len(toSched) + 1] = m
    BY <1>1, AppendFacts
  <2>2. i # Len(toSched) + 1
    BY <2>1, Zenon
  <2> QED
    BY <2>2, <1>1, AppendFacts
<1>3. CASE q[i].from = e
  <2>1. /\ Len(toSched) + 1 \in DOMAIN q /\ q[Len(toSched) + 1] = m
        /\ Len(toSched) + 1 > i
    BY <1>1, <1>2, AppendFacts
  <2> QED
    BY <1>3, <2>1, Zenon
<1>4. CASE q[i].from # e
  <2>0. toSched[i] \in SchedMsg
    BY <1>1, <1>2, ElementType, Zenon
  <2>1. toSched[i].from \in Executors
    BY <2>0, Zenon DEF SchedMsg
  <2>2. PICK j \in DOMAIN toSched :
          j > i /\ toSched[j].from = toSched[i].from /\ toSched[j].type = "avail"
    BY <1>2, <1>4, <2>1 DEF BusyFollowed
  <2>3. j \in DOMAIN q /\ q[j] = toSched[j]
    BY <1>1, AppendFacts
  <2> QED
    BY <1>2, <2>2, <2>3, Zenon
<1> QED
  BY <1>3, <1>4, Zenon

(* Schedule gives the executor it takes a call, and touches no other. *)
LEMMA ScheduleLeak ==
  ASSUME TypeOK, NEW c \in Calls, NEW q, Schedule(c, q), toSched' = toSched, exec' = exec,
         reports' = reports, NoExecutorLeak
  PROVE  NoExecutorLeak'
<1>1. CASE UNCHANGED <<toExec, status, warm>>
  BY <1>1, Zenon DEF NoExecutorLeak, Occupied, CallWaits, AvailComing
<1>2. CASE \E e \in Suitable(c) :
             /\ toExec' = [toExec EXCEPT ![e] = Append(@, CallMsg(c))]
             /\ status' = [status EXCEPT ![e] = 2]
  <2>1. PICK e \in Executors :
             /\ toExec' = [toExec EXCEPT ![e] = Append(@, CallMsg(c))]
             /\ status' = [status EXCEPT ![e] = 2]
    BY <1>2, SuitableType, Zenon
  <2>2. CallMsg(c) \in ExecMsg /\ toExec[e] \in Seq(ExecMsg) /\ CallMsg(c).type = "call"
    BY Zenon DEF CallMsg, ExecMsg, TypeOK
  <2>3. CallWaits(e)'
    <3>1. toExec'[e] = Append(toExec[e], CallMsg(c))
      BY <2>1, Zenon DEF TypeOK
    <3> QED
      BY <2>2, <3>1, AppendFacts DEF CallWaits
  <2>4. ASSUME NEW x \in Executors, x # e
        PROVE  status'[x] = status[x] /\ toExec'[x] = toExec[x]
    BY <2>1, <2>4, Zenon DEF TypeOK
  <2> QED
    BY <2>3, <2>4 DEF NoExecutorLeak, Occupied, CallWaits, AvailComing
<1> QED
  BY <1>1, <1>2, Zenon DEF Schedule

(* Taking a message other than an available flag leaks no executor, if at
   worst the sender of a busy flag changes its status. *)
LEMMA TakeLeak ==
  ASSUME TypeOK, LeakInv, toSched # <<>>, toSched' = Tail(toSched), exec' = exec,
         reports' = reports, Head(toSched).type # "avail",
         \A x \in Executors : CallWaits(x) => CallWaits(x)',
         \/ status' = status
         \/ /\ Head(toSched).type = "busy"
            /\ status' = [status EXCEPT ![Head(toSched).from] = 3]
  PROVE  LeakInv'
<1>1. BusyFollowed'
  BY TakeKeepsFollowed, Zenon DEF LeakInv
<1>2. ASSUME NEW x \in Executors, status'[x] \in {2, 3}, reports[x] > 0
      PROVE  Occupied(x)' \/ AvailComing(x)'
  <2>1. AvailComing(x) => AvailComing(x)'
    BY TakeKeepsAvail, Zenon
  <2>2. Occupied(x) => Occupied(x)'
    BY Zenon DEF Occupied
  <2>3. CASE status'[x] = status[x]
    BY <1>2, <2>1, <2>2, <2>3, Zenon DEF LeakInv, NoExecutorLeak
  <2>4. CASE status'[x] # status[x]
    <3>1. toSched \in Seq(SchedMsg)
      BY Zenon DEF TypeOK
    <3>2. toSched[1].type = "busy" /\ toSched[1].from = x /\ 1 \in DOMAIN toSched
      BY <2>4, <3>1, TailFacts DEF TypeOK
    <3>3. exec[x].pc # "idle" \/ AvailComing(x)
      BY <3>2, Zenon DEF LeakInv, BusyFollowed, AvailComing
    <3> QED
      BY <3>3, <2>1, Zenon DEF Occupied
  <2> QED
    BY <2>3, <2>4, Zenon
<1> QED
  BY <1>1, <1>2, Zenon DEF LeakInv, NoExecutorLeak

(* A send by executor e leaks no executor, if e is occupied afterwards or
   sends the available flag. *)
LEMMA SendLeak ==
  ASSUME TypeOK, LeakInv, NEW e \in Executors, NEW m \in SchedMsg, m.from = e,
         toSched' = Append(toSched, m), status' = status,
         \A x \in Executors : x # e => /\ exec'[x] = exec[x] /\ toExec'[x] = toExec[x]
                                       /\ reports'[x] = reports[x],
         exec'[e].pc # "idle" \/ m.type = "avail"
  PROVE  LeakInv'
<1>1. BusyFollowed'
  BY SendKeepsFollowed, Zenon DEF LeakInv
<1>2. ASSUME NEW x \in Executors, status[x] \in {2, 3}, reports'[x] > 0
      PROVE  Occupied(x)' \/ AvailComing(x)'
  <2>1. AvailComing(x) => AvailComing(x)'
    BY SendKeepsAvail, Zenon
  <2>2. CASE x = e
    <3>1. toSched \in Seq(SchedMsg)
      BY Zenon DEF TypeOK
    <3>2. m.type = "avail" => AvailComing(e)'
      BY <3>1, AppendFacts DEF AvailComing
    <3> QED
      BY <2>2, <3>2, Zenon DEF Occupied
  <2>3. CASE x # e
    BY <1>2, <2>1, <2>3 DEF LeakInv, NoExecutorLeak, Occupied, CallWaits
  <2> QED
    BY <2>2, <2>3, Zenon
<1> QED
  BY <1>1, <1>2, Zenon DEF LeakInv, NoExecutorLeak

(* Steps that leave the channels, the status and the executors alone. *)
LEMMA QuietLeak ==
  ASSUME LeakInv, UNCHANGED <<status, toExec, toSched, exec, reports>>
  PROVE  LeakInv'
BY DEF LeakInv, NoExecutorLeak, BusyFollowed, Occupied, CallWaits, AvailComing

(* Every step of the scheduler keeps the invariant. *)
LEMMA SchedulerLeak ==
  ASSUME TypeOK, LeakInv, Scheduler
  PROVE  LeakInv'
<1>0. /\ toSched # <<>> => Head(toSched) \in SchedMsg
      /\ work # <<>> => Head(work) \in Calls
      /\ delayQ # <<>> => Head(delayQ).call \in Calls
  <2> DEFINE D == [call : Calls, late : BOOLEAN]
  <2>1. toSched \in Seq(SchedMsg) /\ work \in Seq(Calls) /\ delayQ \in Seq(D)
    BY Zenon DEF TypeOK
  <2>2. delayQ # <<>> => Head(delayQ) \in D
    <3> HIDE DEF D
    <3> QED
      BY <2>1, HeadTail, Zenon
  <2>3. delayQ # <<>> => Head(delayQ).call \in Calls
    BY <2>2, Zenon
  <2> QED
    BY <2>1, <2>3, HeadTail, Zenon
<1>s. ASSUME NEW c \in Calls, NEW q, Schedule(c, q), toSched' = toSched, exec' = exec,
             reports' = reports
      PROVE  LeakInv'
  BY <1>s, ScheduleLeak, Zenon DEF LeakInv, BusyFollowed
<1>1. CASE ScheduleWork
  BY <1>1, <1>0, <1>s, Zenon DEF ScheduleWork
<1>2. CASE RecvNothing
  BY <1>2, QuietLeak, Zenon DEF RecvNothing
<1>3. CASE RecvBusy
  <2>1. \A x \in Executors : CallWaits(x) => CallWaits(x)'
    BY <1>3, Zenon DEF RecvBusy, CallWaits
  <2> QED
    BY <1>3, <2>1, TakeLeak, Zenon DEF RecvBusy, TakeMessage
<1>4. CASE RecvAvail
  <2>1. PICK e \in Executors : e = Head(toSched).from
    BY <1>4, <1>0, Zenon DEF RecvAvail, TakeMessage, SchedMsg
  <2>2. /\ toSched # <<>> /\ toSched' = Tail(toSched) /\ exec' = exec /\ reports' = reports
        /\ toExec' = toExec /\ status' = [status EXCEPT ![e] = AvailStatus(@)]
    BY <1>4, <2>1, Zenon DEF RecvAvail, TakeMessage
  <2>3. BusyFollowed'
    BY <2>2, TakeKeepsFollowed, Zenon DEF LeakInv
  <2>4. status'[e] \notin {2, 3}
    BY <2>2 DEF AvailStatus, TypeOK
  <2>5. ASSUME NEW x \in Executors, x # e, status'[x] \in {2, 3}, reports[x] > 0
        PROVE  Occupied(x)' \/ AvailComing(x)'
    <3>1. status'[x] = status[x]
      BY <2>2, <2>5, Zenon DEF TypeOK
    <3>2. Occupied(x) => Occupied(x)'
      BY <2>2, Zenon DEF Occupied, CallWaits
    <3>3. AvailComing(x) => AvailComing(x)'
      BY <2>1, <2>2, <2>5, TakeKeepsAvail, Zenon
    <3> QED
      BY <2>5, <3>1, <3>2, <3>3, Zenon DEF LeakInv, NoExecutorLeak
  <2> QED
    BY <2>2, <2>3, <2>4, <2>5, Zenon DEF LeakInv, NoExecutorLeak
<1>5. CASE RecvGet
  <2>1. PICK e \in Executors : e = Head(toSched).from
    BY <1>5, <1>0, Zenon DEF RecvGet, TakeMessage, SchedMsg
  <2>2. toExec' = [toExec EXCEPT ![e] = Append(@, RespMsg)]
    BY <1>5, <2>1, Zenon DEF RecvGet
  <2>3. ASSUME NEW x \in Executors, CallWaits(x) PROVE CallWaits(x)'
    <3>1. CASE x = e
      <4>1. /\ toExec[e] \in Seq(ExecMsg) /\ RespMsg \in ExecMsg
            /\ toExec'[e] = Append(toExec[e], RespMsg)
        BY <2>2, Zenon DEF TypeOK, ExecMsg
      <4> QED
        BY <2>3, <3>1, <4>1, AppendFacts DEF CallWaits
    <3>2. CASE x # e
      BY <2>2, <2>3, <3>2, Zenon DEF TypeOK, CallWaits
    <3> QED
      BY <3>1, <3>2, Zenon
  <2> QED
    BY <1>5, <2>3, TakeLeak, Zenon DEF RecvGet, TakeMessage
<1>6. ASSUME NEW named \in BOOLEAN, RecvSend(named) PROVE LeakInv'
  <2>1. \A x \in Executors : CallWaits(x) => CallWaits(x)'
    BY <1>6, Zenon DEF RecvSend, CallWaits
  <2>2. Head(toSched).type # "avail"
    BY <1>6, Zenon DEF RecvSend, TakeMessage
  <2>3. /\ toSched # <<>> /\ toSched' = Tail(toSched) /\ exec' = exec /\ reports' = reports
        /\ status' = status
    BY <1>6, Zenon DEF RecvSend, TakeMessage
  <2> QED
    BY <2>1, <2>2, <2>3, TakeLeak, Zenon
<1>7. ASSUME NEW c \in Calls, CommCall(c) PROVE LeakInv'
  BY <1>7, QuietLeak, Zenon DEF CommCall
<1>8. CASE CommDone
  BY <1>8, QuietLeak, Zenon DEF CommDone
<1>9. CASE DelayRetry
  BY <1>9, <1>0, <1>s, Zenon DEF DelayRetry
<1>10. CASE DelayExpire
  BY <1>10, QuietLeak, Zenon DEF DelayExpire
<1>11. CASE DelayDone
  BY <1>11, QuietLeak, Zenon DEF DelayDone
<1> QED
  BY <1>1, <1>2, <1>3, <1>4, <1>5, <1>6, <1>7, <1>8, <1>9, <1>10, <1>11, Zenon DEF Scheduler

(* Executor e reads a message while it stays occupied, or drops one that is
   not a call. *)
LEMMA ReadLeak ==
  ASSUME TypeOK, LeakInv, NEW e \in Executors, UNCHANGED <<status, toSched, reports>>,
         \A x \in Executors : x # e => exec'[x] = exec[x] /\ toExec'[x] = toExec[x],
         exec[e].pc # "idle" => exec'[e].pc # "idle",
         CallWaits(e) => CallWaits(e)' \/ exec'[e].pc # "idle"
  PROVE  LeakInv'
<1>1. \A x \in Executors : exec[x].pc # "idle" => exec'[x].pc # "idle"
  BY Zenon
<1>2. BusyFollowed'
  <2>1. \A i \in DOMAIN toSched : toSched[i].from \in Executors
    <3>1. toSched \in Seq(SchedMsg)
      BY Zenon DEF TypeOK
    <3>2. \A i \in DOMAIN toSched : toSched[i] \in SchedMsg
      BY <3>1, ElementType, Zenon
    <3> QED
      BY <3>2, Zenon DEF SchedMsg
  <2> QED
    BY <1>1, <2>1, Zenon DEF LeakInv, BusyFollowed
<1>3. \A x \in Executors : Occupied(x) => Occupied(x)'
  BY <1>1, Zenon DEF Occupied, CallWaits
<1>4. \A x \in Executors : AvailComing(x) => AvailComing(x)'
  BY Zenon DEF AvailComing
<1> QED
  BY <1>2, <1>3, <1>4, Zenon DEF LeakInv, NoExecutorLeak

(* Every step of an executor keeps the invariant. *)
LEMMA ExecutorLeak ==
  ASSUME TypeOK, LeakInv, NEW e \in Executors, Executor(e) \/ Report(e)
  PROVE  LeakInv'
<1>1. CASE ExecCall(e)
  <2>1. /\ Msg(e, "busy", <<>>) \in SchedMsg /\ Msg(e, "busy", <<>>).from = e
        /\ toSched' = Append(toSched, Msg(e, "busy", <<>>)) /\ status' = status
        /\ exec'[e].pc # "idle"
        /\ \A x \in Executors : x # e => /\ exec'[x] = exec[x] /\ toExec'[x] = toExec[x]
                                         /\ reports'[x] = reports[x]
    BY <1>1, MsgTypes, Zenon DEF ExecCall, Msg, TypeOK, schedVars
  <2> QED
    BY <2>1, SendLeak, Zenon
<1>2. CASE ExecIgnore(e)
  <2>1. /\ toExec[e] \in Seq(ExecMsg) /\ toExec[e] # <<>> /\ toExec'[e] = Tail(toExec[e])
        /\ Head(toExec[e]).type # "call"
    BY <1>2, Zenon DEF ExecIgnore, TypeOK
  <2>2. ASSUME CallWaits(e) PROVE CallWaits(e)'
    <3>1. PICK i \in DOMAIN toExec[e] : toExec[e][i].type = "call"
      BY <2>2, Zenon DEF CallWaits
    <3>2. i - 1 \in DOMAIN Tail(toExec[e]) /\ Tail(toExec[e])[i - 1] = toExec[e][i]
      BY <2>1, <3>1, TailFacts
    <3> QED
      BY <2>1, <3>1, <3>2, Zenon DEF CallWaits
  <2>3. /\ UNCHANGED <<status, toSched, reports>> /\ exec' = exec
        /\ \A x \in Executors : x # e => toExec'[x] = toExec[x]
    BY <1>2, Zenon DEF ExecIgnore, TypeOK, schedVars
  <2> QED
    BY <2>2, <2>3, ReadLeak, Zenon
<1>3. CASE Get(e)
  <2>1. /\ Msg(e, "get", <<>>) \in SchedMsg /\ Msg(e, "get", <<>>).from = e
        /\ toSched' = Append(toSched, Msg(e, "get", <<>>)) /\ status' = status
        /\ \A x \in Executors : x # e => /\ exec'[x] = exec[x] /\ toExec'[x] = toExec[x]
                                         /\ reports'[x] = reports[x]
    BY <1>3, MsgTypes, Zenon DEF Get, Msg, TypeOK, schedVars
  <2>2. exec'[e].pc = "wait"
    BY <1>3 DEF Get, TypeOK, Job
  <2> QED
    BY <2>1, <2>2, SendLeak, Zenon
<1>4. CASE GetReturn(e) \/ GetTimeout(e)
  <2>1. /\ UNCHANGED <<status, toSched, reports>>
        /\ \A x \in Executors : x # e => exec'[x] = exec[x] /\ toExec'[x] = toExec[x]
    BY <1>4, Zenon DEF GetReturn, GetTimeout, TypeOK, schedVars
  <2>0. exec[e] \in [pc : {"run", "wait"}, call : Calls, todo : SUBSET {"get", "send"}]
    BY <1>4 DEF GetReturn, GetTimeout, TypeOK, Job, Idle
  <2>2. exec'[e].pc = "run"
    BY <1>4, <2>0 DEF GetReturn, GetTimeout, TypeOK
  <2> QED
    BY <2>1, <2>2, ReadLeak, Zenon
<1>5. CASE Send(e)
  <2> DEFINE m == Msg(e, IF exec[e].call \in Named THEN "invoke" ELSE "batch", Deps[exec[e].call])
  <2>1. exec[e] \in [pc : {"run", "wait"}, call : Calls, todo : SUBSET {"get", "send"}]
    BY <1>5 DEF Send, TypeOK, Job, Idle
  <2>0. exec[e].call \in Calls
    BY <2>1, Zenon
  <2>2. m \in SchedMsg /\ m.from = e
    BY <2>0, CallFields, Zenon DEF Msg, SchedMsg
  <2>3. /\ toSched' = Append(toSched, m) /\ status' = status
        /\ \A x \in Executors : x # e => /\ exec'[x] = exec[x] /\ toExec'[x] = toExec[x]
                                         /\ reports'[x] = reports[x]
    BY <1>5, Zenon DEF Send, TypeOK, schedVars
  <2>4. exec'[e].pc = "run"
    BY <1>5, <2>1, Zenon DEF Send, TypeOK
  <2> HIDE DEF m
  <2> QED
    BY <2>2, <2>3, <2>4, SendLeak, Zenon
<1>6. CASE Finish(e) \/ Report(e)
  <2>1. /\ Msg(e, "avail", <<>>) \in SchedMsg /\ Msg(e, "avail", <<>>).from = e
        /\ Msg(e, "avail", <<>>).type = "avail"
    BY MsgTypes, Zenon DEF Msg
  <2>2. /\ toSched' = Append(toSched, Msg(e, "avail", <<>>)) /\ status' = status
        /\ \A x \in Executors : x # e => /\ exec'[x] = exec[x] /\ toExec'[x] = toExec[x]
                                         /\ reports'[x] = reports[x]
    BY <1>6, Zenon DEF Finish, Report, TypeOK, schedVars
  <2> QED
    BY <2>1, <2>2, SendLeak, Zenon
<1> QED
  BY <1>1, <1>2, <1>3, <1>4, <1>5, <1>6, Zenon DEF Executor

(* No executor is leaked: after its first report, an executor that the
   scheduler believes taken has a call or has an available flag under way. *)
THEOREM NeverLeaked == Spec => []NoExecutorLeak
<1>1. Init => LeakInv
  BY DEF Init, LeakInv, NoExecutorLeak, BusyFollowed
<1>2. TypeOK /\ LeakInv /\ [Next]_vars => LeakInv'
  <2> SUFFICES ASSUME TypeOK, LeakInv, [Next]_vars PROVE LeakInv'
    BY Zenon
  <2>1. CASE Tick
    BY <2>1, QuietLeak, Zenon DEF Tick
  <2>2. CASE UNCHANGED vars
    BY <2>2, QuietLeak, Zenon DEF vars, schedVars
  <2> QED
    BY <2>1, <2>2, SchedulerLeak, ExecutorLeak, Zenon DEF Next
<1>3. LeakInv => NoExecutorLeak
  BY Zenon DEF LeakInv
<1> QED
  BY <1>1, <1>2, <1>3, TypeCorrect, PTL DEF Spec
=============================================================================
