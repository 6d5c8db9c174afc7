------------------------------ MODULE Lattices ------------------------------
(***************************************************************************)
(* The values of the durable store: the lattices that Anna merges          *)
(* (common/include/lattices), the timestamps given to them and the         *)
(* messages that carry them (common.hpp), and the Python versions of both  *)
(* (client/anna_client, client/pheromone).  All of it is functions of      *)
(* values, so the properties are statements about small sets of values.    *)
(*                                                                         *)
(* A map is a function with any domain, a vector clock a map from ids to   *)
(* counters.  A Python operation that raises an exception returns Raises.  *)
(***************************************************************************)
EXTENDS Naturals, Sequences, SequencesExt, FiniteSets

CONSTANTS Ids,       \* the ids of a vector clock
          MaxTick,   \* its counters are 0..MaxTick
          Values,
          MaxTime,   \* times are 0..MaxTime
          MaxThread, \* threads are 0..MaxThread
          Raises

Ticks == 0..MaxTick
Maps(D, S) == UNION {[d -> S] : d \in SUBSET D}
Clocks == Maps(Ids, Ticks)
Dependencies == Maps(Values, Maps(Ids, {1}))
Elements == 1..4

-----------------------------------------------------------------------------
(* core_lattices.hpp, do_merge(e) on a lattice that holds a. *)

BoolMerge(a, e) == a \/ e

MaxMerge(a, e) == IF a < e THEN e ELSE a

SetMerge(a, e) == a \cup e

(* insert_pair: the key is new, or its value is merged. *)
insert_pair(m, k, v, Merge(_, _)) ==
  [x \in DOMAIN m \cup {k} |->
     IF x # k THEN m[x] ELSE IF k \in DOMAIN m THEN Merge(m[k], v) ELSE v]

MapMerge(m, e, Merge(_, _)) ==
  FoldLeft(LAMBDA acc, k : insert_pair(acc, k, e[k], Merge), m, SetToSeq(DOMAIN e))

EmptyMap == [x \in {} |-> 0]

VectorClockMerge(m, e) == MapMerge(m, e, MaxMerge)

(* lww_pair_lattice.hpp, priority_lattice.hpp *)
LWWMerge(a, e) == IF e.timestamp >= a.timestamp THEN e ELSE a

PriorityMerge(a, e) == IF e.priority < a.priority THEN e ELSE a

(* Concurrent versions taken for newer ones. *)
MutSingleKeyCausalMerge(a, p) ==
  LET clock == VectorClockMerge(a.vector_clock, p.vector_clock)
  IN  [vector_clock |-> clock,
       value |-> IF clock # a.vector_clock THEN p.value ELSE a.value]

(* single_key_causal_lattice.hpp *)
SingleKeyCausalMerge(a, p) ==
  LET clock == VectorClockMerge(a.vector_clock, p.vector_clock)
  IN  [vector_clock |-> clock,
       value |-> CASE clock = p.vector_clock -> p.value
                   [] clock # p.vector_clock /\ clock # a.vector_clock ->
                        SetMerge(a.value, p.value)
                   [] OTHER -> a.value]

(* multi_key_causal_lattice.hpp *)
MultiKeyCausalMerge(a, p) ==
  LET clock == VectorClockMerge(a.vector_clock, p.vector_clock)
      dominated == clock = p.vector_clock
      concurrent == ~dominated /\ clock # a.vector_clock
  IN  [vector_clock |-> clock,
       dependencies |-> CASE dominated -> p.dependencies
                          [] concurrent -> MapMerge(a.dependencies, p.dependencies,
                                                    VectorClockMerge)
                          [] OTHER -> a.dependencies,
       value |-> CASE dominated -> p.value
                   [] concurrent -> SetMerge(a.value, p.value)
                   [] OTHER -> a.value]

EmptySingle == [vector_clock |-> EmptyMap, value |-> {}]
EmptyMulti == [vector_clock |-> EmptyMap, dependencies |-> EmptyMap, value |-> {}]

-----------------------------------------------------------------------------
(* lattices.py *)

PyLWWMerge(a, o) == IF o.timestamp > a.timestamp THEN o ELSE a
PyPriorityMerge(a, o) == IF o.priority < a.priority THEN o ELSE a

PyMaxIntMerge(a, o) == IF o > a THEN o ELSE a

(* The loops call set.insert, which Python sets do not have. *)
PySetMerge(a, o) == IF a = {} /\ o = {} THEN {} ELSE Raises

(* keys is not called, so the loop's iterable is a method. *)
PyMapMerge(a, o) == Raises

(* MapLattice.merge accepts a MapLattice only, not its subclass VectorClock;*)
(* the causal lattices merge their clocks first.                            *)
PyVectorClockMerge(a, o) == Raises
PySingleKeyCausalMerge(a, o) == PyVectorClockMerge(a.vector_clock, o.vector_clock)
PyMultiKeyCausalMerge(a, o) == PyVectorClockMerge(a.vector_clock, o.vector_clock)

(* reveal returns the list itself, which has no attribute lst. *)
PyOrderedSetMerge(a, o) == Raises

(* VectorClock.update: a counter that is not there is not added. *)
PyUpdate(clock, id, n) ==
  IF id \in DOMAIN clock THEN [clock EXCEPT ![id] = PyMaxIntMerge(@, n)] ELSE clock

(* ListBasedOrderedSet; positions count from 1.  The binary search narrows  *)
(* [low, high) until it meets the value or nothing is left.                 *)
RECURSIVE Search(_, _, _, _)
Search(lst, value, low, high) ==
  LET middle == low + (high - low) \div 2
  IN  IF low >= high THEN [index |-> low, present |-> FALSE]
      ELSE IF value = lst[middle] THEN [index |-> middle, present |-> TRUE]
      ELSE IF value < lst[middle] THEN Search(lst, value, low, middle)
      ELSE Search(lst, value, middle + 1, high)

IndexOf(lst, value) == Search(lst, value, 1, Len(lst) + 1)

Insert(lst, value) ==
  IF lst = <<>> \/ value > lst[Len(lst)] THEN Append(lst, value)
  ELSE LET at == IndexOf(lst, value)
       IN  IF at.present THEN lst ELSE InsertAt(lst, at.index, value)

ListBasedOrderedSet(iterable) == FoldLeft(Insert, <<>>, iterable)

-----------------------------------------------------------------------------
(* Timestamps: generate_timestamp of common.hpp and of client.py.  pow is   *)
(* the least power of ten above the id.                                     *)
RECURSIVE PowerAbove(_, _)
PowerAbove(id, pow) == IF id >= pow THEN PowerAbove(id, pow * 10) ELSE pow

(* The factor is ten whatever the id. *)
generate_timestamp(time, id) == time * PowerAbove(id, 10) + id

(* The client reads seconds where the scheduler reads milliseconds, and      *)
(* cuts off what is less than a unit.                                        *)
PyGenerateTimestamp(milliseconds, id) ==
  (milliseconds * PowerAbove(id, 10)) \div 1000 + id

-----------------------------------------------------------------------------
(* Messages: what the fields of the protobuf message hold.  First the       *)
(* overloads of serialize in common.hpp.                                    *)

SerializeLWW(timestamp, value) == [timestamp |-> timestamp, value |-> value]
SerializeSet(s) == [values |-> SetToSeq(s)]
SerializeOrderedSet(s) == [values |-> SetToSortSeq(s, <)]
SerializePriority(l) == [priority |-> l.priority, value |-> l.value]

ClockFields(clock) == [x \in DOMAIN clock |-> clock[x]]

SerializeSingle(l) ==
  [vector_clock |-> ClockFields(l.vector_clock), values |-> SetToSeq(l.value)]

SerializeMulti(l) ==
  [vector_clock |-> ClockFields(l.vector_clock), values |-> SetToSeq(l.value),
   dependencies |-> [i \in 1..Cardinality(DOMAIN l.dependencies) |->
      LET key == SetToSeq(DOMAIN l.dependencies)[i]
      IN  [key |-> key, vector_clock |-> ClockFields(l.dependencies[key])]]]

deserialize_lww(msg) == [timestamp |-> msg.timestamp, value |-> msg.value]
deserialize_set(msg) == ToSet(msg.values)
deserialize_ordered_set(msg) == ToSet(msg.values)
deserialize_priority(msg) == [priority |-> msg.priority, value |-> msg.value]

(* Fields are inserted one by one into an empty clock. *)
ToClock(fields) == MapMerge(EmptyMap, fields, MaxMerge)

to_vector_clock_value_pair(msg) ==
  [vector_clock |-> ToClock(msg.vector_clock), value |-> ToSet(msg.values)]

to_multi_key_causal_payload(msg) ==
  [vector_clock |-> ToClock(msg.vector_clock), value |-> ToSet(msg.values),
   dependencies |-> FoldLeft(
      LAMBDA acc, dep : insert_pair(acc, dep.key, ToClock(dep.vector_clock), VectorClockMerge),
      EmptyMap, msg.dependencies)]

(* The serialize methods of lattices.py.  The loops of the causal lattices  *)
(* are over lattices, which cannot be iterated.                             *)
PySerializeLWW(l) == [timestamp |-> l.timestamp, value |-> l.value]
PySerializeSet(s) == [values |-> SetToSeq(s)]
PySerializeOrderedSet(lst) == [values |-> lst]
PySerializePriority(l) == [priority |-> l.priority, value |-> l.value]
PySerializeSingle(l) == Raises
PySerializeMulti(l) == Raises

(* The set left in the order in which it came. *)
MutPyDeserialize(type, msg) ==
  CASE type = "LWW" -> [timestamp |-> msg.timestamp, value |-> msg.value]
    [] type = "SET" -> ToSet(msg.values)
    [] type = "ORDERED_SET" -> msg.values
    [] type = "PRIORITY" -> [priority |-> msg.priority, value |-> msg.value]
    [] OTHER -> Raises

(* BaseAnnaClient._deserialize.  A map of a protobuf message is not a dict, *)
(* so the VectorClock of a causal lattice is refused.                       *)
PyDeserialize(type, msg) ==
  CASE type = "LWW" -> [timestamp |-> msg.timestamp, value |-> msg.value]
    [] type = "SET" -> ToSet(msg.values)
    [] type = "ORDERED_SET" -> ListBasedOrderedSet(msg.values)
    [] type = "PRIORITY" -> [priority |-> msg.priority, value |-> msg.value]
    [] OTHER -> Raises

-----------------------------------------------------------------------------
Commutes(S, Merge(_, _)) == \A a, b \in S : Merge(a, b) = Merge(b, a)
Associates(S, Merge(_, _)) ==
  \A a, b, c \in S : Merge(Merge(a, b), c) = Merge(a, Merge(b, c))
Idempotent(S, Merge(_, _)) == \A a \in S : Merge(a, a) = a
Semilattice(S, Merge(_, _)) ==
  Commutes(S, Merge) /\ Associates(S, Merge) /\ Idempotent(S, Merge)

Stamped == [timestamp : 0..2, value : Values]
Ranked == [priority : 0..2, value : Values]

(* Replicas that merge the same values in any order, any number of times,   *)
(* agree: booleans, maxima, sets and vector clocks always do, pairs with a  *)
(* timestamp or a priority unless two of them have the same one.            *)
MergesConverge ==
  /\ Semilattice(BOOLEAN, BoolMerge) /\ Semilattice(Ticks, MaxMerge)
  /\ Semilattice(SUBSET Values, SetMerge) /\ Semilattice(Clocks, VectorClockMerge)
  /\ Idempotent(Stamped, LWWMerge) /\ Associates(Stamped, LWWMerge)
  /\ Idempotent(Ranked, PriorityMerge) /\ Associates(Ranked, PriorityMerge)
  /\ \A a, b \in Stamped :
       a.timestamp # b.timestamp => LWWMerge(a, b) = LWWMerge(b, a)
  /\ \A a, b \in Ranked :
       a.priority # b.priority => PriorityMerge(a, b) = PriorityMerge(b, a)

(* A history of writes to a key: the writer of each and the earlier writes  *)
(* it knows of, its own among them.  A write counts its writer's counter up *)
(* in the clock of what it knows.                                           *)
Writes == 1..3
Histories ==
  {h \in [writer : [Writes -> Ids], knows : [Writes -> SUBSET Writes]] :
     \A i \in Writes :
       /\ h.knows[i] \subseteq 1..(i - 1)
       /\ \A j \in h.knows[i] : h.knows[j] \subseteq h.knows[i]
       /\ \A j \in 1..(i - 1) : h.writer[j] = h.writer[i] => j \in h.knows[i]}

WriteClock(h, i) ==
  LET known == h.knows[i] \cup {i}
  IN  [id \in {h.writer[j] : j \in known} |->
         Cardinality({j \in known : h.writer[j] = id})]

Write(h, i) ==
  [vector_clock |-> WriteClock(h, i), value |-> {i},
   dependencies |-> [k \in {i} |-> WriteClock(h, i)]]

Single(w) == [vector_clock |-> w.vector_clock, value |-> w.value]

(* What a replica holds after the writes of a sequence arrived. *)
SingleReplica(h, s) ==
  FoldLeft(LAMBDA a, i : SingleKeyCausalMerge(a, Single(Write(h, i))), EmptySingle, s)
MultiReplica(h, s) ==
  FoldLeft(LAMBDA a, i : MultiKeyCausalMerge(a, Write(h, i)), EmptyMulti, s)

Arrivals == UNION {{s \in [1..n -> Writes] : IsInjective(s)} : n \in 0..3}

(* Of the writes that arrived at a replica or at one that gossips with it,  *)
(* none that no other supersedes is lost, whatever the order; its           *)
(* dependencies are kept with it, and the replicas' clocks agree.           *)
NoSiblingLost ==
  \A h \in Histories : \A s, r \in Arrivals :
    LET one == SingleKeyCausalMerge(SingleReplica(h, s), SingleReplica(h, r))
        many == MultiKeyCausalMerge(MultiReplica(h, s), MultiReplica(h, r))
        arrived == ToSet(s) \cup ToSet(r)
        latest == {i \in arrived : \A j \in arrived : i \notin h.knows[j]}
    IN  /\ latest \subseteq one.value /\ one.value \subseteq arrived
        /\ one.value = many.value /\ one.vector_clock = many.vector_clock
        /\ latest \subseteq DOMAIN many.dependencies
        /\ one.vector_clock = MapMerge(SingleReplica(h, r).vector_clock,
                                       SingleReplica(h, s).vector_clock, MaxMerge)

(* Replicas of the store that hear of the same writes agree on them, and no  *)
(* write is lost to one that did not know of it.                            *)
ReplicasAgree == MergesConverge /\ NoSiblingLost

(* A write in a later millisecond has the greater timestamp, so that the    *)
(* store keeps it, when the ids of the two writers have the same number of  *)
(* digits (an id of ten makes a time ten times as great), and no two        *)
(* writers share one.  The client's own writes, a second apart, are ordered *)
(* too; against a scheduler's write of the same time or of one up to 999    *)
(* times as late, the client's always loses.                                *)
LaterWriteIsGreater ==
  /\ \A s, t \in 0..MaxTime, i, j \in 0..MaxThread :
       PowerAbove(i, 10) = PowerAbove(j, 10) =>
         /\ s < t => generate_timestamp(s, i) < generate_timestamp(t, j)
         /\ generate_timestamp(s, i) = generate_timestamp(t, j) => s = t /\ i = j
  /\ \A s, t \in {n * 500 : n \in 1..5} :
       /\ s + 1000 <= t => PyGenerateTimestamp(s, 0) < PyGenerateTimestamp(t, 0)
       /\ t < 1000 * s => PyGenerateTimestamp(t, 0) < generate_timestamp(s, 0)

(* Where the Python lattices return a value, it is the one the C++ lattices *)
(* hold, but for two values of one timestamp: there the store keeps the     *)
(* last and the client the first.                                           *)
SameMerges ==
  /\ \A a, b \in Stamped : a.timestamp # b.timestamp => PyLWWMerge(a, b) = LWWMerge(a, b)
  /\ \A a, b \in Ranked : PyPriorityMerge(a, b) = PriorityMerge(a, b)
  /\ \A a, b \in Ticks : PyMaxIntMerge(a, b) = MaxMerge(a, b)
  /\ \A a, b \in SUBSET Values : PySetMerge(a, b) \in {SetMerge(a, b), Raises}
  /\ \A c \in Clocks, id \in Ids, n \in Ticks :
       id \in DOMAIN c => PyUpdate(c, id, n) = VectorClockMerge(c, [x \in {id} |-> n])

(* ListBasedOrderedSet holds each of the inserted elements once, in order,  *)
(* in whatever order they came (its comment asks for sorted input).         *)
OrderedSetSorted ==
  \A n \in 0..4 : \A s \in [1..n -> 1..4] :
    LET lst == ListBasedOrderedSet(s)
    IN  /\ ToSet(lst) = ToSet(s)
        /\ \A i, j \in DOMAIN lst : i < j => lst[i] < lst[j]

(* What a scheduler serializes, a scheduler parses again as what it was:    *)
(* no counter, value or dependency is dropped or given to another key.      *)
RoundTrip ==
  /\ \A s \in SUBSET Values : deserialize_set(SerializeSet(s)) = s
  /\ \A c \in Clocks, v \in SUBSET Values :
       LET l == [vector_clock |-> c, value |-> v]
       IN  to_vector_clock_value_pair(SerializeSingle(l)) = l
  /\ \A c \in Clocks, d \in Dependencies, v \in SUBSET Values :
       LET l == [vector_clock |-> c, dependencies |-> d, value |-> v]
       IN  to_multi_key_causal_payload(SerializeMulti(l)) = l

(* What one language writes to the store the other reads as the same value, *)
(* except the causal lattices, which the client can neither write nor read. *)
(* A set in no order becomes a sorted list.                                 *)
SameReadings ==
  /\ \A l \in Stamped :
       /\ deserialize_lww(PySerializeLWW(l)) = l
       /\ PyDeserialize("LWW", SerializeLWW(l.timestamp, l.value)) = l
  /\ \A l \in Ranked :
       /\ deserialize_priority(PySerializePriority(l)) = l
       /\ PyDeserialize("PRIORITY", SerializePriority(l)) = l
  /\ \A s \in SUBSET Elements :
       /\ deserialize_set(PySerializeSet(s)) = s
       /\ PyDeserialize("SET", SerializeSet(s)) = s
       /\ PyDeserialize("ORDERED_SET", SerializeOrderedSet(s)) = SetToSortSeq(s, <)
       /\ deserialize_ordered_set(PySerializeOrderedSet(SetToSortSeq(s, <))) = s
  /\ \A n \in 0..3 : \A q \in [1..n -> Elements] :
       PyDeserialize("ORDERED_SET", [values |-> q]) = SetToSortSeq(ToSet(q), <)

(* A value means the same to the schedulers and to the Python client: both  *)
(* merge it alike and read what either wrote, whole and in order.           *)
SameToBoth == SameMerges /\ OrderedSetSorted /\ RoundTrip /\ SameReadings

=============================================================================
