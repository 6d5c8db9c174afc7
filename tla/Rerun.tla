------------------------------- MODULE Rerun -------------------------------
(***************************************************************************)
(* Function re-execution: a node's trigger remembers the calls of its      *)
(* source functions whose object has not come (session_status_cache_), and *)
(* the local scheduler's timer runs them again after the timeout of the    *)
(* hint they were registered with.  One trigger and one session of it.     *)
(*                                                                         *)
(* A trigger is its type, the keys of a by-set trigger and its hints, each *)
(* a source function, the key it produces and its timeout.  The state:     *)
(*                                                                         *)
(*   cache  session_status_cache_ of the session, a set of <<slot, func>>  *)
(*   queue  rerun_check_queue: the times of the checks                     *)
(*   now    the time, in periods of the scheduler's timer                  *)
(*   again  what the last event ran again                                  *)
(*                                                                         *)
(* A call's arguments are those of the call it repeats and are left out.   *)
(***************************************************************************)
EXTENDS Naturals, Sequences, SequencesExt, FiniteSets

Hint(f, k, t) == [func |-> f, key |-> k, timeout |-> t]
NoStatus == [cache |-> {}, queue |-> <<>>, now |-> 0, again |-> {}]

(* func_trigger_timeout_map[f]: one entry for each hint of the function. *)
HintsOf(tr, f) == SelectSeq(tr.hints, LAMBDA h : h.func = f)

(* func_key_map_[f]: a later hint of the function replaces an earlier one. *)
set_rerun_metadata(tr, f) == Last(HintsOf(tr, f)).key

(* The entry of session_status_cache_ that a call of f has: one for each   *)
(* key in a by-set trigger, one for the session in the others.             *)
Slot(tr, f) == IF tr.type = "BY_SET" THEN set_rerun_metadata(tr, f)
                                     ELSE "session"

notify_source_func(tr, cache, f) ==
  {e \in cache : e[1] # Slot(tr, f)} \cup {<<Slot(tr, f), f>>}

action_for_rerun(tr, cache) ==
  {e[2] : e \in {e \in cache : tr.type = "BY_SET" => e[1] \in tr.keys}}

(* The end of schedule_func_call once an executor has taken the call. *)
schedule_func_call(tr, st, f) ==
  [st EXCEPT
     !.cache = IF HintsOf(tr, f) = <<>> THEN @ ELSE notify_source_func(tr, @, f),
     !.queue = @ \o [i \in DOMAIN HintsOf(tr, f) |->
                       st.now + HintsOf(tr, f)[i].timeout]]

(* An object of the session with key k reaches the trigger. *)
MutErase(tr, cache, k) == IF tr.type = "BY_SET" THEN cache ELSE {}
Erase(tr, cache, k) ==
  IF tr.type = "BY_SET" THEN {e \in cache : ~(e[1] = k /\ k \in tr.keys)} ELSE {}

(* The coordinator's clear message.  A by-set trigger erases the entry     *)
(* named after the session alone, which it never makes.                    *)
ClearStatus(tr, cache) == IF tr.type = "BY_BATCH_SIZE" THEN {} ELSE cache

(* One due check: every call the trigger misses is scheduled again, and    *)
(* the check is taken off.  Without an idle executor the calls are handed  *)
(* on and this node does not check them again.                             *)
RerunCheck(tr, st, free) ==
  LET fs == action_for_rerun(tr, st.cache)
  IN  [IF free THEN FoldLeft(LAMBDA s, f : schedule_func_call(tr, s, f), st,
                             SetToSeq(fs))
               ELSE st
       EXCEPT !.again = @ \cup fs]

(* The scheduler's timer: the checks whose time has come. *)
RerunTimer(tr, st, free) ==
  LET due == SelectSeq(st.queue, LAMBDA t : t <= st.now + 1)
      rest == SelectSeq(st.queue, LAMBDA t : t > st.now + 1)
  IN  FoldLeft(LAMBDA s, t : RerunCheck(tr, s, free),
               [st EXCEPT !.queue = rest, !.now = @ + 1, !.again = {}], due)

After(tr, st, e) ==
  CASE e.op = "call"   -> schedule_func_call(tr, [st EXCEPT !.again = {}], e.func)
    [] e.op = "object" -> [st EXCEPT !.cache = Erase(tr, @, e.key), !.again = {}]
    [] e.op = "clear"  -> [st EXCEPT !.cache = ClearStatus(tr, @), !.again = {}]
    [] e.op = "timer"  -> RerunTimer(tr, st, e.free)
StatusAfter(tr, h) == FoldLeft(LAMBDA st, e : After(tr, st, e), NoStatus, h)

-----------------------------------------------------------------------------
(* The triggers and the histories examined.  MaxRerunEvents bounds what    *)
(* comes before the timer a history ends with.                             *)
MaxRerunEvents == 4
RerunHints == {<<Hint("f", "k", 1)>>,
               <<Hint("f", "k", 1), Hint("g", "l", 2)>>,
               <<Hint("f", "k", 2), Hint("f", "l", 1)>>,
               <<Hint("f", "z", 1), Hint("g", "l", 1)>>}
RerunTriggers == [type : {"IMMEDIATE", "BY_NAME", "BY_BATCH_SIZE", "BY_SET"},
                  keys : {{"k", "l"}}, hints : RerunHints]
RerunTimers == [op : {"timer"}, free : BOOLEAN]
RerunEvents == [op : {"call"}, func : {"f", "g"}] \cup [op : {"clear"}]
                 \cup [op : {"object"}, key : {"k", "l", "z"}] \cup RerunTimers
RerunHistories == {Append(h, e) : h \in BoundedSeq(RerunEvents, MaxRerunEvents),
                                  e \in RerunTimers}

TimeAt(h, i) == Cardinality({j \in 1..i : h[j].op = "timer"})
CallsIn(h) == {i \in DOMAIN h : h[i].op = "call"}
HintedCalls(tr, h) == {i \in CallsIn(h) : HintsOf(tr, h[i].func) # <<>>}

(* The call at i is one that the trigger has reason to miss: nothing has   *)
(* come since that counts for its object, and, but in a by-set trigger,    *)
(* no other call of the session was made after it.                         *)
Missed(tr, h, i) ==
  /\ tr.type = "BY_SET" => set_rerun_metadata(tr, h[i].func) \in tr.keys
  /\ \A j \in DOMAIN h : j > i =>
       CASE h[j].op = "object" -> /\ tr.type = "BY_SET"
                                  /\ h[j].key # set_rerun_metadata(tr, h[i].func)
         [] h[j].op = "clear"  -> tr.type # "BY_BATCH_SIZE"
         [] h[j].op = "call"   -> \/ tr.type = "BY_SET"
                                  \/ h[j].func = h[i].func
                                  \/ HintsOf(tr, h[j].func) = <<>>
         [] OTHER              -> TRUE
MissedCalls(tr, h) == {i \in HintedCalls(tr, h) : Missed(tr, h, i)}

(* The timer runs a source function again only when its object is missing, *)
(* and does so for each call that is missed when its timeout is over.      *)
RerunExactly ==
  \A tr \in RerunTriggers, h \in RerunHistories :
    LET again == StatusAfter(tr, h).again
    IN  /\ again \subseteq {h[i].func : i \in MissedCalls(tr, h)}
        /\ \A i \in MissedCalls(tr, h) :
             (\E d \in ToSet(HintsOf(tr, h[i].func)) :
                 TimeAt(h, i) + d.timeout = TimeAt(h, Len(h)))
               => h[i].func \in again

(* As long as a check finds at most one hint to serve, re-execution keeps  *)
(* no more checks than calls were made.                                    *)
OneHintPerCheck(tr) ==
  /\ \A i, j \in DOMAIN tr.hints : tr.hints[i].func = tr.hints[j].func => i = j
  /\ tr.type = "BY_SET" => Len(tr.hints) = 1
NoMoreChecks ==
  \A tr \in {tr \in RerunTriggers : OneHintPerCheck(tr)}, h \in RerunHistories :
    Len(StatusAfter(tr, h).queue) <= Cardinality(HintedCalls(tr, h))

(* A by-set trigger that misses the objects of two functions runs both for *)
(* the check of each, so the checks double with every timeout.             *)
MaxPeriods == 4
ChecksDouble ==
  LET tr == [type |-> "BY_SET", keys |-> {"k", "l"},
             hints |-> <<Hint("f", "k", 1), Hint("g", "l", 1)>>]
      calls == <<[op |-> "call", func |-> "f"], [op |-> "call", func |-> "g"]>>
      timers(n) == [i \in 1..n |-> [op |-> "timer", free |-> TRUE]]
  IN  \A n \in 0..MaxPeriods : Len(StatusAfter(tr, calls \o timers(n)).queue) = 2^(n + 1)

(* Re-execution by the local scheduler's timer: a source function is run   *)
(* again exactly when the trigger misses its object and its timeout is     *)
(* over, whatever calls, objects, clear messages and timers came before;   *)
(* one missing source keeps one check, two double theirs every timeout.    *)
RerunRule == RerunExactly /\ NoMoreChecks /\ ChecksDouble
=============================================================================
