------------------------------ MODULE Triggers ------------------------------
(***************************************************************************)
(* The trigger classes of common/include/trigger.hpp as pure operators.    *)
(*                                                                         *)
(* A trigger is a configuration (what its constructor is given: a record   *)
(* with a field "type" and the fields of its primitive message) and a      *)
(* state (its private members).  One record holds the members of every     *)
(* class; a class touches only its own.                                    *)
(*                                                                         *)
(*   buffer    buffer_ of ByBatchSize, Redundant and ByTime                *)
(*   prepared  session_prepared_keys_map_ of BySet, as the set of its      *)
(*             (session, key) pairs                                        *)
(*   count     count_ of Redundant                                         *)
(*   control   cur_control_keys_ of DynamicGroup                           *)
(*   data      data_group_keys_map_ of DynamicGroup, as the set of keys    *)
(*             in it: a key's group is a function of the key               *)
(*                                                                         *)
(* An object is what a BucketKey of the bucket holds: a session and a key. *)
(* A TriggerAction is the set of the objects its session_keys_ lists: the  *)
(* order of a call's arguments is not modelled.                            *)
(*                                                                         *)
(* session_status_cache_, which only re-execution reads, is empty unless   *)
(* the trigger was registered with hints; it is not part of this module.   *)
(***************************************************************************)
EXTENDS Naturals, Sequences, FiniteSets

Obj(s, k) == [session |-> s, key |-> k]

WithBuffer(st, buffer) == [st EXCEPT !.buffer = buffer]
WithPrepared(st, prepared) == [st EXCEPT !.prepared = prepared]
WithCount(st, count) == [st EXCEPT !.count = count]

(* What action_for_new_object leaves behind and returns. *)
Result(st, actions) == [st |-> st, actions |-> actions]

(* The elements of a buffer. *)
Elements(seq) == {seq[i] : i \in DOMAIN seq}

(* gen_trigger_pointer: every class starts with empty containers and a zero
   count. *)
NewTrigger ==
  [buffer |-> <<>>, prepared |-> {}, count |-> 0, control |-> {}, data |-> {}]

-----------------------------------------------------------------------------
(* action_for_new_object of each class. *)

ImmediateAction(st, o) == Result(st, {{o}})

ByNameAction(t, st, o) ==
  Result(st, IF o.key = t.key_name THEN {{o}} ELSE {})

(* A batch that is handed out and kept: the buffer is not cleared. *)
MutBatchNotCleared(t, st, o) ==
  LET buffer == Append(st.buffer, o)
  IN  Result(WithBuffer(st, buffer),
             IF Len(buffer) >= t.count THEN {Elements(buffer)} ELSE {})

(* The comparison is >= on the size after the push. *)
ByBatchSizeAction(t, st, o) ==
  LET buffer == Append(st.buffer, o)
  IN  IF Len(buffer) >= t.count
      THEN Result(WithBuffer(st, <<>>), {Elements(buffer)})
      ELSE Result(WithBuffer(st, buffer), {})

(* The session fires when as many keys of key_set_ are prepared as key_set_
   has; only keys of key_set_ are ever prepared. *)
BySetAction(t, st, o) ==
  LET prepared == st.prepared \cup {o}
      ready    == {p.key : p \in {q \in prepared : q.session = o.session}}
  IN  IF o.key \notin t.key_set
      THEN Result(st, {})
      ELSE IF Cardinality(ready) = Cardinality(t.key_set)
           THEN Result(WithPrepared(st, {p \in prepared : p.session # o.session}),
                       {{Obj(o.session, k) : k \in t.key_set}})
           ELSE Result(WithPrepared(st, prepared), {})

(* The part of a key before ':' is given by t.group; a key whose group is
   "ctrl" is a control key, and counts when it is in control_group_.  When
   the control keys are complete, each data group becomes one action whose
   objects carry the session of the object that completed them. *)
DynamicGroupAction(t, st, o) ==
  LET control == IF o.key \in t.control_group THEN st.control \cup {o.key} ELSE st.control
      groups  == {{k \in st.data : t.group[k] = t.group[d]} : d \in st.data}
  IN  IF t.group[o.key] # "ctrl"
      THEN Result([st EXCEPT !.data = st.data \cup {o.key}], {})
      ELSE IF Cardinality(control) = Cardinality(t.control_group)
           THEN Result([st EXCEPT !.data = {}, !.control = {}],
                       {{Obj(o.session, k) : k \in g} : g \in groups})
           ELSE Result([st EXCEPT !.control = control], {})

(* The first k objects of a round are buffered and handed out at the k-th;
   the object that brings count_ to n or beyond ends the round. *)
RedundantAction(t, st, o) ==
  LET count  == st.count + 1
      buffer == Append(st.buffer, o)
  IN  IF count <= t.k
      THEN IF count = t.k
           THEN Result(WithBuffer(WithCount(st, count), <<>>), {Elements(buffer)})
           ELSE Result(WithBuffer(WithCount(st, count), buffer), {})
      ELSE Result(WithCount(st, IF count >= t.n THEN 0 ELSE count), {})

(* The object that closes the window left out of it. *)
MutWindowDropsLast(st, o, due) ==
  IF due
  THEN Result(WithBuffer(st, <<>>), {Elements(st.buffer)})
  ELSE Result(WithBuffer(st, Append(st.buffer, o)), {})

(* due: the window has elapsed since the last firing.  The clock is read only
   when an object arrives. *)
ByTimeAction(st, o, due) ==
  LET buffer == Append(st.buffer, o)
  IN  IF due
      THEN Result(WithBuffer(st, <<>>), {Elements(buffer)})
      ELSE Result(WithBuffer(st, buffer), {})

(* The virtual call trigger->action_for_new_object(bucket_key). *)
ActionForNewObject(t, st, o, due) ==
  CASE t.type = "IMMEDIATE"     -> ImmediateAction(st, o)
    [] t.type = "BY_NAME"       -> ByNameAction(t, st, o)
    [] t.type = "BY_BATCH_SIZE" -> ByBatchSizeAction(t, st, o)
    [] t.type = "BY_SET"        -> BySetAction(t, st, o)
    [] t.type = "DYNAMIC_GROUP" -> DynamicGroupAction(t, st, o)
    [] t.type = "REDUNDANT"     -> RedundantAction(t, st, o)
    [] t.type = "BY_TIME"       -> ByTimeAction(st, o, due)

(* clear(session) of each class: Immediate and ByName have nothing to clear,
   BySet forgets the session, the others forget everything; Redundant also
   counts the k objects that were consumed elsewhere. *)
ClearTrigger(t, st, session) ==
  CASE t.type \in {"IMMEDIATE", "BY_NAME"} -> st
    [] t.type \in {"BY_BATCH_SIZE", "BY_TIME"} -> WithBuffer(st, <<>>)
    [] t.type = "BY_SET" ->
         WithPrepared(st, {p \in st.prepared : p.session # session})
    [] t.type = "DYNAMIC_GROUP" -> [st EXCEPT !.data = {}, !.control = {}]
    [] t.type = "REDUNDANT" -> WithBuffer(WithCount(st, st.count + t.k), <<>>)
=============================================================================
