--------------------------- MODULE Registry_proofs ---------------------------
(* Proofs about the registry: what clients that keep to their own buckets can
   rely on, for any number of coordinators, nodes, applications and triggers. *)
EXTENDS Registry, Integers, TLAPS

(* No two applications use the same bucket. *)
OwnBuckets == \A u, v \in Uses : u[2] = v[2] => u[1] = v[1]

(* By-time triggers are made by registration and stay. *)
TimedRegistered == (Added \cup Deleted) \cap Timed = {}

-----------------------------------------------------------------------------
(* Bucket b belongs to an application whose coordinator is c. *)
HomeOf(c, b) == \E u \in Uses : u[2] = b /\ home[u[1]] = c

(* The messages that concern bucket b, and those that bring or take trigger t. *)
About(m, b) == \E e \in m.triggers : e[1] = b
Adds(m, b, t) == m.type = 0 /\ <<b, t>> \in m.triggers
Drops(m, b, t) == m.type = 2 /\ <<b, t>> \in m.triggers

Msgs(q) == {q[i] : i \in 1..Len(q)}

(* A coordinator has buckets of its own applications only, and its maps agree. *)
Mapped(c, b) ==
  /\ owner[c][b] # None => <<owner[c][b], b>> \in Uses /\ home[owner[c][b]] = c
  /\ trig[c][b] # {} => owner[c][b] # None
  /\ \A a \in Apps : b \in appBuckets[c][a] <=> owner[c][b] = a

MapInv == \A c \in Coords, b \in Buckets : Mapped(c, b)

(* It tells the nodes of no other buckets. *)
TellInv ==
  \A c \in Coords, n \in Nodes, b \in Buckets : \A m \in Msgs(upd[c][n]) : About(m, b) => HomeOf(c, b)

(* A message to delete names one trigger, and no by-time one. *)
OneDropped(m) ==
  m.type = 2 => \E b \in Buckets, t \in Names \ Timed : m.triggers = {<<b, t>>}

DropInv == \A c \in Coords, n \in Nodes : \A m \in Msgs(upd[c][n]) : OneDropped(m)

(* A node that has x triggers t of bucket b and takes the messages of q has one
   when it comes to the k-th. *)
Has(x, q, b, t, k) ==
  \/ x > 0 /\ \A j \in 1..(k - 1) : ~Drops(q[j], b, t)
  \/ \E i \in 1..(k - 1) : Adds(q[i], b, t) /\ \A j \in (i + 1)..(k - 1) : ~Drops(q[j], b, t)

(* A node with the triggers row of bucket b, whose objects it reports to r,
   and with the messages q of coordinator c to come, has a trigger when a
   message to delete it comes; with all messages taken it has the triggers ts of
   the coordinator, and reports to it. *)
Served(c, b, ts, row, r, q) ==
  /\ \A t \in ts \ Timed : Has(row[t], q, b, t, Len(q) + 1)
  /\ \A t \in Names : \A k \in 1..Len(q) : Drops(q[k], b, t) => Has(row[t], q, b, t, k)
  /\ ts # {} => r = c \/ \E m \in Msgs(q) : m.type = 0 /\ About(m, b)

TrigInv ==
  \A c \in Coords, n \in Nodes, b \in Buckets :
    <<c, n>> \notin missed /\ n \in up =>
      Served(c, b, trig[c][b], nodeTrig[n][b], nodeCoord[n][b], upd[c][n])

(* The inductive invariant. *)
IInv == TypeOK /\ MapInv /\ TellInv /\ DropInv /\ TrigInv /\ NodesSurvive

-----------------------------------------------------------------------------
(* Queues: a message more at the end, and one less at the front. *)
LEMMA Appended ==
  ASSUME NEW q \in Seq(Message), NEW m \in Message
  PROVE  /\ Append(q, m) \in Seq(Message) /\ Len(q) \in Nat /\ Len(Append(q, m)) = Len(q) + 1
         /\ \A i \in 1..Len(q) : Append(q, m)[i] = q[i]
         /\ Append(q, m)[Len(q) + 1] = m
  OBVIOUS

LEMMA Shortened ==
  ASSUME NEW q \in Seq(Message), q # <<>>
  PROVE  /\ Tail(q) \in Seq(Message) /\ Len(q) \in Nat /\ Len(q) > 0
         /\ Len(Tail(q)) = Len(q) - 1 /\ Head(q) = q[1] /\ q[1] \in Message
         /\ \A i \in 1..Len(Tail(q)) : i + 1 \in 1..Len(q) /\ Tail(q)[i] = q[i + 1]
  OBVIOUS

LEMMA MsgsAppended ==
  ASSUME NEW q \in Seq(Message), NEW m \in Message
  PROVE  Msgs(Append(q, m)) = Msgs(q) \cup {m}
  <1> DEFINE r == Append(q, m)
             N == Len(q)
  <1>1. N \in Nat /\ Len(r) = N + 1 /\ r[N + 1] = m /\ \A i \in 1..N : r[i] = q[i]
    BY Appended, Zenon
  <1> HIDE DEF r, N
  <1>2. ASSUME NEW x \in Msgs(q) PROVE x \in Msgs(r)
    BY <1>1, <1>2 DEF Msgs, N
  <1>3. m \in Msgs(r)
    BY <1>1 DEF Msgs
  <1>4. ASSUME NEW x \in Msgs(r) PROVE x \in Msgs(q) \/ x = m
    <2>1. PICK i \in 1..(N + 1) : x = r[i]
      BY <1>1, <1>4, Zenon DEF Msgs
    <2>2. CASE i = N + 1
      BY <1>1, <2>1, <2>2, Zenon
    <2>3. CASE i \in 1..N
      BY <1>1, <2>1, <2>3, Zenon DEF Msgs, N
    <2> QED BY <1>1, <2>1, <2>2, <2>3
  <1> QED BY <1>2, <1>3, <1>4, Zenon DEF r

LEMMA MsgsShortened ==
  ASSUME NEW q \in Seq(Message), q # <<>>
  PROVE  /\ Msgs(Tail(q)) \subseteq Msgs(q) /\ q[1] \in Msgs(q)
         /\ \A m \in Msgs(q) : m = q[1] \/ m \in Msgs(Tail(q))
  <1> DEFINE r == Tail(q)
             N == Len(q)
  <1>1. N \in Nat /\ N > 0 /\ Len(r) = N - 1 /\ \A i \in 1..(N - 1) : r[i] = q[i + 1]
    BY Shortened, Zenon
  <1> HIDE DEF r, N
  <1>2. ASSUME NEW m \in Msgs(r) PROVE m \in Msgs(q)
    <2>1. PICK i \in 1..(N - 1) : m = r[i]
      BY <1>1, <1>2, Zenon DEF Msgs
    <2>2. i + 1 \in 1..N /\ m = q[i + 1]
      BY <1>1, <2>1
    <2> QED BY <2>2, Zenon DEF Msgs, N
  <1>3. 1 \in 1..N
    BY <1>1
  <1>4. ASSUME NEW m \in Msgs(q), m # q[1] PROVE m \in Msgs(r)
    <2>1. PICK i \in 1..N : m = q[i]
      BY <1>4, Zenon DEF Msgs, N
    <2>2. i - 1 \in 1..(N - 1) /\ r[i - 1] = m
      BY <1>1, <1>4, <2>1
    <2> QED BY <1>1, <2>2, Zenon DEF Msgs
  <1> QED BY <1>2, <1>3, <1>4, Zenon DEF Msgs, r, N

(* What the node has before message k does not depend on those from k on. *)
LEMMA HasAppend ==
  ASSUME NEW q \in Seq(Message), NEW m \in Message, NEW x, NEW b, NEW t, NEW k \in 1..(Len(q) + 1),
         Has(x, q, b, t, k)
  PROVE  Has(x, Append(q, m), b, t, k)
  <1>1. \A i \in 1..(k - 1) : Append(q, m)[i] = q[i]
    BY Appended
  <1> QED BY <1>1, Appended DEF Has

(* A message at the end that brings t, or does not take it. *)
LEMMA HasLast ==
  ASSUME NEW q \in Seq(Message), NEW m \in Message, NEW x, NEW b, NEW t,
         Adds(m, b, t) \/ (Has(x, q, b, t, Len(q) + 1) /\ ~Drops(m, b, t))
  PROVE  Has(x, Append(q, m), b, t, Len(q) + 2)
  <1> DEFINE r == Append(q, m)
             N == Len(q)
  <1>1. N \in Nat /\ r[N + 1] = m /\ \A i \in 1..N : r[i] = q[i]
    BY Appended, Zenon
  <1> HIDE DEF r, N
  <1>2. CASE Adds(m, b, t)
    <2>1. N + 1 \in 1..(N + 2 - 1) /\ \A j \in (N + 1 + 1)..(N + 2 - 1) : FALSE
      BY <1>1
    <2> QED BY <1>1, <1>2, <2>1 DEF Has, r, N
  <1>3. CASE x > 0 /\ (\A j \in 1..N : ~Drops(q[j], b, t)) /\ ~Drops(m, b, t)
    BY <1>1, <1>3 DEF Has, r, N
  <1>4. ASSUME NEW i \in 1..N, Adds(q[i], b, t), \A j \in (i + 1)..N : ~Drops(q[j], b, t), ~Drops(m, b, t)
        PROVE  Has(x, Append(q, m), b, t, Len(q) + 2)
    <2>1. i \in 1..(N + 2 - 1) /\ Adds(r[i], b, t)
      BY <1>1, <1>4
    <2>2. \A j \in (i + 1)..(N + 2 - 1) : ~Drops(r[j], b, t)
      BY <1>1, <1>4
    <2> QED BY <2>1, <2>2 DEF Has, r, N
  <1>5. N + 1 - 1 = N
    BY <1>1
  <1> QED BY <1>2, <1>3, <1>4, <1>5 DEF Has, N

(* The first message is taken, and x becomes y. *)
LEMMA HasTail ==
  ASSUME NEW q \in Seq(Message), q # <<>>, NEW x \in Nat, NEW y \in Nat, NEW b, NEW t,
         NEW k \in 1..Len(q), Has(x, q, b, t, k + 1),
         Adds(q[1], b, t) => y > 0, x > 0 /\ ~Drops(q[1], b, t) => y > 0
  PROVE  Has(y, Tail(q), b, t, k)
  <1> DEFINE r == Tail(q)
  <1>1. k \in Nat /\ k + 1 - 1 = k /\ \A i \in 1..(k - 1) : i + 1 \in 1..k /\ r[i] = q[i + 1]
    BY Shortened
  <1> HIDE DEF r
  <1>2. CASE x > 0 /\ \A j \in 1..k : ~Drops(q[j], b, t)
    <2>1. y > 0 /\ \A j \in 1..(k - 1) : ~Drops(r[j], b, t)
      BY <1>1, <1>2
    <2> QED BY <2>1, Zenon DEF Has, r
  <1>3. ASSUME NEW i \in 1..k, Adds(q[i], b, t), \A j \in (i + 1)..k : ~Drops(q[j], b, t)
        PROVE  Has(y, Tail(q), b, t, k)
    <2>1. CASE i = 1
      <3>1. y > 0 /\ \A j \in 1..(k - 1) : ~Drops(r[j], b, t)
        BY <1>1, <1>3, <2>1
      <3> QED BY <3>1, Zenon DEF Has, r
    <2>2. CASE i > 1
      <3>1. i - 1 \in 1..(k - 1) /\ Adds(r[i - 1], b, t)
        BY <1>1, <1>3, <2>2
      <3>2. \A j \in (i - 1 + 1)..(k - 1) : ~Drops(r[j], b, t)
        BY <1>1, <1>3, <2>2
      <3> QED BY <3>1, <3>2, Zenon DEF Has, r
    <2> QED BY <2>1, <2>2
  <1>4. \/ x > 0 /\ \A j \in 1..(k + 1 - 1) : ~Drops(q[j], b, t)
        \/ \E i \in 1..(k + 1 - 1) :
             Adds(q[i], b, t) /\ \A j \in (i + 1)..(k + 1 - 1) : ~Drops(q[j], b, t)
    BY DEF Has
  <1>5. k + 1 - 1 = k
    BY <1>1, Zenon
  <1>6. \/ x > 0 /\ \A j \in 1..k : ~Drops(q[j], b, t)
        \/ \E i \in 1..k : Adds(q[i], b, t) /\ \A j \in (i + 1)..k : ~Drops(q[j], b, t)
    BY ONLY <1>4, <1>5, Zenon
  <1> QED BY <1>2, <1>3, <1>6, Zenon

(* A coordinator with fewer triggers is served as well. *)
LEMMA ServedFewer ==
  ASSUME NEW c, NEW b, NEW ts, NEW row, NEW r, NEW q, Served(c, b, ts, row, r, q), NEW us \in SUBSET ts
  PROVE  Served(c, b, us, row, r, q)
  BY Zenon DEF Served

(* Message m says how the coordinator's triggers of bucket b, ts, become us: it
   brings all that are new, and deletes a trigger that was there. *)
Says(m, b, ts, us) ==
  /\ \A t \in us \ Timed : Adds(m, b, t) \/ (t \in ts /\ ~Drops(m, b, t))
  /\ \A t \in Names : Drops(m, b, t) => t \in ts \ Timed
  /\ us # {} => ts # {} \/ (m.type = 0 /\ About(m, b))

(* It comes at the end of the queue. *)
LEMMA ServedAppend ==
  ASSUME NEW c, NEW b, NEW ts, NEW us, NEW row, NEW r, NEW q \in Seq(Message), NEW m \in Message,
         Served(c, b, ts, row, r, q), Says(m, b, ts, us)
  PROVE  Served(c, b, us, row, r, Append(q, m))
  <1> DEFINE s == Append(q, m)
             N == Len(q)
  <1>1. N \in Nat /\ Len(s) = N + 1 /\ s[N + 1] = m /\ \A i \in 1..N : s[i] = q[i]
    BY Appended, Zenon
  <1>2. /\ \A t \in ts \ Timed : Has(row[t], q, b, t, N + 1)
        /\ \A t \in Names : \A k \in 1..N : Drops(q[k], b, t) => Has(row[t], q, b, t, k)
        /\ ts # {} => r = c \/ \E x \in Msgs(q) : x.type = 0 /\ About(x, b)
    BY Zenon DEF Served
  <1>3. Msgs(s) = Msgs(q) \cup {m}
    BY MsgsAppended, Zenon
  <1>4. ASSUME NEW t, NEW k \in 1..(N + 1), Has(row[t], q, b, t, k) PROVE Has(row[t], s, b, t, k)
    BY <1>4, HasAppend, Zenon
  <1>5. ASSUME NEW t, Adds(m, b, t) \/ (Has(row[t], q, b, t, N + 1) /\ ~Drops(m, b, t))
        PROVE  Has(row[t], s, b, t, N + 2)
    BY <1>5, HasLast, Zenon
  <1> HIDE DEF s, N
  <1>6. ASSUME NEW t \in us \ Timed PROVE Has(row[t], s, b, t, Len(s) + 1)
    <2>1. Len(s) + 1 = N + 2
      BY <1>1
    <2>2. Has(row[t], s, b, t, N + 2)
      BY <1>2, <1>5, <1>6, Zenon DEF Says
    <2> QED BY <2>1, <2>2, Zenon
  <1>7. ASSUME NEW t \in Names, NEW k \in 1..Len(s), Drops(s[k], b, t) PROVE Has(row[t], s, b, t, k)
    <2>1. k \in 1..(N + 1) /\ (k \in 1..N \/ k = N + 1)
      BY <1>1
    <2>2. CASE k \in 1..N
      BY <1>1, <1>2, <1>4, <1>7, <2>1, <2>2, Zenon
    <2>3. CASE k = N + 1
      <3>1. t \in ts \ Timed
        BY <1>1, <1>7, <2>3, Zenon DEF Says
      <3> QED BY <1>2, <1>4, <2>1, <2>3, <3>1, Zenon
    <2> QED BY <2>1, <2>2, <2>3, Zenon
  <1>8. us # {} => r = c \/ \E x \in Msgs(s) : x.type = 0 /\ About(x, b)
    BY <1>2, <1>3, Zenon DEF Says
  <1> QED BY <1>6, <1>7, <1>8, Zenon DEF Served, s

(* The first message is taken. *)
LEMMA ServedTail ==
  ASSUME NEW c, NEW b, NEW ts \in SUBSET Names, NEW row \in [Names -> Nat], NEW new \in [Names -> Nat],
         NEW r, NEW l, NEW q \in Seq(Message), q # <<>>, Served(c, b, ts, row, r, q),
         \A t \in Names : /\ Adds(q[1], b, t) => new[t] > 0
                          /\ row[t] > 0 /\ ~Drops(q[1], b, t) => new[t] > 0,
         r = c \/ (q[1].type = 0 /\ About(q[1], b)) => l = c
  PROVE  Served(c, b, ts, new, l, Tail(q))
  <1> DEFINE s == Tail(q)
             N == Len(q)
  <1>1. N \in Nat /\ N > 0 /\ Len(s) = N - 1 /\ \A i \in 1..(N - 1) : s[i] = q[i + 1]
    BY Shortened, Zenon
  <1>2. /\ \A t \in ts \ Timed : Has(row[t], q, b, t, N + 1)
        /\ \A t \in Names : \A k \in 1..N : Drops(q[k], b, t) => Has(row[t], q, b, t, k)
        /\ ts # {} => r = c \/ \E x \in Msgs(q) : x.type = 0 /\ About(x, b)
    BY Zenon DEF Served
  <1>3. \A x \in Msgs(q) : x = q[1] \/ x \in Msgs(s)
    BY MsgsShortened, Zenon
  <1>4. ASSUME NEW t \in Names, NEW k \in 1..N, Has(row[t], q, b, t, k + 1) PROVE Has(new[t], s, b, t, k)
    <2>1. row[t] \in Nat /\ new[t] \in Nat
      BY Zenon
    <2> QED BY <1>4, <2>1, HasTail, Zenon
  <1> HIDE DEF s, N
  <1>5. ASSUME NEW t \in ts \ Timed PROVE Has(new[t], s, b, t, Len(s) + 1)
    <2>1. Len(s) + 1 = N /\ N \in 1..N
      BY <1>1
    <2> QED BY <1>2, <1>4, <1>5, <2>1, Zenon
  <1>6. ASSUME NEW t \in Names, NEW k \in 1..Len(s), Drops(s[k], b, t) PROVE Has(new[t], s, b, t, k)
    <2>1. k \in 1..N /\ k + 1 \in 1..N /\ s[k] = q[k + 1]
      BY <1>1
    <2> QED BY <1>2, <1>4, <1>6, <2>1, Zenon
  <1>7. ts # {} => l = c \/ \E x \in Msgs(s) : x.type = 0 /\ About(x, b)
    BY <1>2, <1>3, Zenon
  <1> QED BY <1>5, <1>6, <1>7, Zenon DEF Served, s

(* Rows with a trigger more, or less. *)
LEMMA PlusRows ==
  ASSUME NEW rows \in [Buckets -> [Names -> Nat]], NEW m, m.type = 0, NEW new, new = Plus(rows, m.triggers)
  PROVE  /\ new \in [Buckets -> [Names -> Nat]]
         /\ \A b \in Buckets : ~About(m, b) => new[b] = rows[b]
         /\ \A b \in Buckets, t \in Names : /\ Adds(m, b, t) => new[b][t] > 0
                                            /\ rows[b][t] > 0 /\ ~Drops(m, b, t) => new[b][t] > 0
  <1>1. new \in [Buckets -> [Names -> Nat]]
    BY DEF Plus
  <1>2. ASSUME NEW b \in Buckets, NEW t \in Names
        PROVE  new[b][t] = IF <<b, t>> \in m.triggers THEN rows[b][t] + 1 ELSE rows[b][t]
    BY Zenon DEF Plus
  <1>3. ASSUME NEW b \in Buckets, ~About(m, b) PROVE new[b] = rows[b]
    <2>1. \A t \in Names : new[b][t] = rows[b][t]
      BY <1>2, <1>3, Zenon DEF About
    <2>2. new[b] \in [Names -> Nat] /\ rows[b] \in [Names -> Nat]
      BY <1>1, Zenon
    <2> QED BY <2>1, <2>2
  <1>4. ASSUME NEW b \in Buckets, NEW t \in Names
        PROVE  /\ Adds(m, b, t) => new[b][t] > 0
               /\ rows[b][t] > 0 /\ ~Drops(m, b, t) => new[b][t] > 0
    <2>1. rows[b][t] \in Nat
      BY Zenon
    <2> QED BY <1>2, <2>1 DEF Adds
  <1> QED BY <1>1, <1>3, <1>4, Zenon

LEMMA MinusRows ==
  ASSUME NEW rows \in [Buckets -> [Names -> Nat]], NEW m, m.type = 2,
         ~\E e \in m.triggers : rows[e[1]][e[2]] = 0, NEW new, new = Minus(rows, m.triggers)
  PROVE  /\ new \in [Buckets -> [Names -> Nat]]
         /\ \A b \in Buckets : ~About(m, b) => new[b] = rows[b]
         /\ \A b \in Buckets, t \in Names : /\ Adds(m, b, t) => new[b][t] > 0
                                            /\ rows[b][t] > 0 /\ ~Drops(m, b, t) => new[b][t] > 0
  <1>1. ASSUME NEW b \in Buckets, NEW t \in Names
        PROVE  /\ rows[b][t] \in Nat /\ (<<b, t>> \in m.triggers => rows[b][t] # 0)
               /\ new[b][t] = IF <<b, t>> \in m.triggers THEN rows[b][t] - 1 ELSE rows[b][t]
    <2>1. ASSUME <<b, t>> \in m.triggers PROVE rows[b][t] # 0
      <3>1. rows[<<b, t>>[1]][<<b, t>>[2]] # 0
        BY <2>1, Zenon
      <3> QED BY <3>1, Zenon
    <2> QED BY <2>1, Zenon DEF Minus
  <1>2. new \in [Buckets -> [Names -> Nat]]
    <2>1. ASSUME NEW b \in Buckets, NEW t \in Names
          PROVE  (IF <<b, t>> \in m.triggers THEN rows[b][t] - 1 ELSE rows[b][t]) \in Nat
      <3>1. /\ rows[b][t] \in Nat
            /\ <<b, t>> \in m.triggers => rows[b][t] # 0
        BY <1>1, Zenon
      <3> QED BY <3>1
    <2> QED BY <2>1, Zenon DEF Minus
  <1>3. ASSUME NEW b \in Buckets, ~About(m, b) PROVE new[b] = rows[b]
    <2>1. \A t \in Names : new[b][t] = rows[b][t]
      BY <1>1, <1>3, Zenon DEF About
    <2>2. new[b] \in [Names -> Nat] /\ rows[b] \in [Names -> Nat]
      BY <1>2, Zenon
    <2> QED BY <2>1, <2>2
  <1>4. ASSUME NEW b \in Buckets, NEW t \in Names
        PROVE  ~Adds(m, b, t) /\ (rows[b][t] > 0 /\ ~Drops(m, b, t) => new[b][t] > 0)
    BY <1>1 DEF Adds, Drops
  <1> QED BY <1>2, <1>3, <1>4, Zenon

(* One entry of a table of tables changes. *)
LEMMA OneEntry ==
  ASSUME NEW A, NEW B, NEW C, NEW f \in [A -> [B -> C]], NEW x \in A, NEW y \in B, NEW v \in C,
         NEW g, g = [f EXCEPT ![x][y] = v]
  PROVE  /\ g \in [A -> [B -> C]]
         /\ \A p \in A, q \in B : g[p][q] = IF p = x /\ q = y THEN v ELSE f[p][q]
  BY Zenon

(* A bucket has one coordinator. *)
LEMMA OneHome ==
  ASSUME OwnBuckets, NEW c, NEW d, NEW b, HomeOf(c, b), HomeOf(d, b)
  PROVE  c = d
  BY Zenon DEF OwnBuckets, HomeOf

(* The owner of a bucket has its coordinator. *)
LEMMA OwnerHome ==
  ASSUME NEW c, NEW b, Mapped(c, b), owner[c][b] # None
  PROVE  HomeOf(c, b)
  <1> DEFINE u == <<owner[c][b], b>>
  <1>1. u \in Uses /\ u[2] = b /\ home[u[1]] = c
    BY Zenon DEF Mapped
  <1> QED BY <1>1, Zenon DEF HomeOf

-----------------------------------------------------------------------------
(* Steps that announce nothing and add no trigger. *)
LEMMA Quiet ==
  ASSUME IInv, upd' = upd, missed' = missed, nodeTrig' = nodeTrig, nodeCoord' = nodeCoord, up' = up,
         \A c \in Coords, b \in Buckets : trig'[c][b] \subseteq trig[c][b]
  PROVE  DropInv' /\ TrigInv' /\ NodesSurvive'
  <1>1. DropInv /\ TrigInv /\ NodesSurvive
    BY Zenon DEF IInv
  <1>2. DropInv'
    BY <1>1, Zenon DEF DropInv
  <1>3. NodesSurvive'
    BY <1>1, Zenon DEF NodesSurvive
  <1>4. TrigInv'
    BY <1>1, ServedFewer, Zenon DEF TrigInv
  <1> QED BY <1>2, <1>3, <1>4, Zenon

(* The home of an application stays once it is known. *)
LEMMA HomesStay ==
  ASSUME TypeOK, MapInv, TellInv, owner' = owner, appBuckets' = appBuckets, trig' = trig, upd' = upd,
         \A a \in Apps : home[a] # None => home'[a] = home[a]
  PROVE  MapInv' /\ TellInv'
  <1>1. \A c \in Coords, b \in Buckets : HomeOf(c, b) => HomeOf(c, b)'
    BY TimedNames, UsesPairs, Zenon DEF HomeOf
  <1>2. TellInv'
    BY <1>1, Zenon DEF TellInv
  <1>3. owner \in [Coords -> [Buckets -> Apps \cup {None}]]
    BY Zenon DEF TypeOK
  <1>4. ASSUME NEW c \in Coords, NEW b \in Buckets PROVE Mapped(c, b)'
    <2>1. Mapped(c, b)
      BY Zenon DEF MapInv
    <2>2. owner[c][b] # None => home'[owner[c][b]] = home[owner[c][b]]
      BY <1>3, <2>1, TimedNames DEF Mapped
    <2> QED BY <2>1, <2>2, Zenon DEF Mapped
  <1> QED BY <1>2, <1>4, Zenon DEF MapInv

(* Coordinator c sends message m to the nodes it knows, for buckets of its own
   applications: to delete a trigger that it had, or to add all triggers that
   it did not have. *)
LEMMA AnnounceInv ==
  ASSUME IInv, NEW c \in Coords, NEW m \in Message, Announce(c, m),
         nodeTrig' = nodeTrig, nodeCoord' = nodeCoord, up' = up, home' = home,
         \A b \in Buckets : About(m, b) => HomeOf(c, b),
         OneDropped(m), \A b \in Buckets : Says(m, b, trig[c][b], trig'[c][b]),
         \A d \in Coords \ {c}, b \in Buckets : trig'[d][b] = trig[d][b]
  PROVE  /\ upd' \in [Coords -> [Nodes -> Seq(Message)]] /\ missed' \subseteq Coords \X Nodes
         /\ TellInv' /\ DropInv' /\ TrigInv' /\ NodesSurvive'
  <1>1. TellInv /\ DropInv /\ TrigInv /\ NodesSurvive
    BY Zenon DEF IInv
  <1>2. upd \in [Coords -> [Nodes -> Seq(Message)]] /\ missed \subseteq Coords \X Nodes
    BY Zenon DEF IInv, TypeOK
  <1>3. missed' = missed \cup {<<c, n>> : n \in Nodes \ known[c]} /\ missed' \subseteq Coords \X Nodes
    BY <1>2 DEF Announce
  <1>4. upd' = [upd EXCEPT ![c] = [n \in Nodes |-> IF n \in known[c] THEN Append(upd[c][n], m) ELSE upd[c][n]]]
    BY Zenon DEF Announce
  <1>5. upd' \in [Coords -> [Nodes -> Seq(Message)]]
    BY <1>2, <1>4
  <1>6. ASSUME NEW d \in Coords, NEW n \in Nodes
        PROVE  /\ upd[d][n] \in Seq(Message)
               /\ upd'[d][n] = IF d = c /\ n \in known[c] THEN Append(upd[d][n], m) ELSE upd[d][n]
    BY <1>2, <1>4, Zenon
  <1>7. ASSUME NEW d \in Coords, NEW n \in Nodes, NEW x \in Msgs(upd'[d][n])
        PROVE  x \in Msgs(upd[d][n]) \/ (d = c /\ x = m)
    BY <1>6, <1>7, MsgsAppended
  <1>8. TellInv'
    <2>1. \A d \in Coords, b \in Buckets : HomeOf(d, b)' <=> HomeOf(d, b)
      BY Zenon DEF HomeOf
    <2> QED BY <1>1, <1>7, <2>1 DEF TellInv
  <1>9. DropInv'
    BY <1>1, <1>7 DEF DropInv
  <1>10. NodesSurvive'
    BY <1>1, <1>3, Zenon DEF NodesSurvive
  <1>11. TrigInv'
    <2> SUFFICES ASSUME NEW d \in Coords, NEW n \in Nodes, NEW b \in Buckets,
                        <<d, n>> \notin missed', n \in up
                 PROVE  Served(d, b, trig'[d][b], nodeTrig[n][b], nodeCoord[n][b], upd'[d][n])
      BY Zenon DEF TrigInv
    <2>1. Served(d, b, trig[d][b], nodeTrig[n][b], nodeCoord[n][b], upd[d][n])
      BY <1>1, <1>3, Zenon DEF TrigInv
    <2>2. CASE d # c
      BY <1>6, <2>1, <2>2, Zenon
    <2>3. CASE d = c
      <3>1. n \in known[c]
        BY <1>3, <2>3, Zenon
      <3>2. upd'[d][n] = Append(upd[d][n], m) /\ upd[d][n] \in Seq(Message)
        BY <1>6, <2>3, <3>1, Zenon
      <3>3. Says(m, b, trig[d][b], trig'[d][b])
        BY <2>3, Zenon
      <3> QED BY <2>1, <3>2, <3>3, ServedAppend, Zenon
    <2> QED BY <2>2, <2>3, Zenon
  <1> QED BY <1>3, <1>5, <1>8, <1>9, <1>10, <1>11, Zenon

-----------------------------------------------------------------------------
(* The manager and the status messages touch no bucket. *)
LEMMA CoordSyncInv ==
  ASSUME IInv, NEW c \in Coords, CoordSync(c)
  PROVE  IInv'
  <1>1. TypeOK'
    BY Zenon DEF CoordSync, coordVars, nodeVars, IInv, TypeOK
  <1>2. MapInv' /\ TellInv'
    BY HomesStay, Zenon DEF CoordSync, coordVars, IInv
  <1>3. DropInv' /\ TrigInv' /\ NodesSurvive'
    BY Quiet, Zenon DEF CoordSync, coordVars, nodeVars
  <1> QED BY <1>1, <1>2, <1>3, Zenon DEF IInv

LEMMA CoordQueryInv ==
  ASSUME IInv, NEW a \in Apps, CoordQuery(a)
  PROVE  IInv'
  <1>1. TypeOK'
    BY Zenon DEF CoordQuery, coordVars, nodeVars, IInv, TypeOK
  <1>2. \A e \in Apps : home[e] # None => home'[e] = home[e]
    BY Zenon DEF CoordQuery, IInv, TypeOK
  <1>3. MapInv' /\ TellInv'
    BY <1>2, HomesStay, Zenon DEF CoordQuery, coordVars, IInv
  <1>4. DropInv' /\ TrigInv' /\ NodesSurvive'
    BY Quiet, Zenon DEF CoordQuery, coordVars, nodeVars
  <1> QED BY <1>1, <1>3, <1>4, Zenon DEF IInv

LEMMA JoinInv ==
  ASSUME IInv, NEW n \in Nodes, NEW c \in Coords, Join(n, c)
  PROVE  IInv'
  <1>1. TypeOK'
    BY Zenon DEF Join, coordVars, nodeVars, IInv, TypeOK
  <1>2. MapInv' /\ TellInv'
    BY HomesStay, Zenon DEF Join, coordVars, IInv
  <1>3. DropInv' /\ TrigInv' /\ NodesSurvive'
    BY Quiet, Zenon DEF Join, coordVars, nodeVars
  <1> QED BY <1>1, <1>2, <1>3, Zenon DEF IInv

-----------------------------------------------------------------------------
(* What a request of application a leaves alone, and where it goes. *)
LEMMA Requested ==
  ASSUME TypeOK, NEW a \in Apps, Request(a)
  PROVE  /\ home[a] \in Coords /\ ops' \in 0..MaxOps
         /\ members' = members /\ home' = home /\ known' = known
         /\ nodeTrig' = nodeTrig /\ nodeCoord' = nodeCoord /\ nodeApp' = nodeApp /\ up' = up
  BY Bounds DEF Request, TypeOK, nodeVars

(* The types, once those of what requests change are known. *)
LEMMA RequestTypes ==
  ASSUME TypeOK, NEW a \in Apps, Request(a),
         owner' \in [Coords -> [Buckets -> Apps \cup {None}]],
         appBuckets' \in [Coords -> [Apps -> SUBSET Buckets]],
         trig' \in [Coords -> [Buckets -> SUBSET Names]],
         upd' \in [Coords -> [Nodes -> Seq(Message)]], missed' \subseteq Coords \X Nodes
  PROVE  TypeOK'
  BY Requested, Zenon DEF TypeOK

LEMMA CreateBucketInv ==
  ASSUME IInv, OwnBuckets, NEW a \in Apps, NEW b \in Buckets, <<a, b>> \in Uses, CreateBucket(a, b)
  PROVE  IInv'
  <1> DEFINE c == home[a]
  <1>0. TypeOK /\ MapInv /\ TellInv
    BY Zenon DEF IInv
  <1>1. Request(a) /\ c \in Coords /\ home' = home /\ trig' = trig /\ upd' = upd /\ missed' = missed
    BY <1>0, Requested, Zenon DEF CreateBucket, coordVars
  <1>2. CASE owner[c][b] # None
    <2>1. owner' = owner /\ appBuckets' = appBuckets
      BY <1>2, Zenon DEF CreateBucket, coordVars
    <2>2. TypeOK'
      BY <1>0, <1>1, <2>1, RequestTypes, Zenon DEF TypeOK
    <2>3. MapInv' /\ TellInv'
      BY <1>0, <1>1, <2>1, HomesStay, Zenon
    <2> QED BY <1>0, <1>1, <2>2, <2>3, Requested, Quiet, Zenon DEF IInv
  <1>3. CASE owner[c][b] = None
    <2>1. /\ owner' = [owner EXCEPT ![c][b] = a]
          /\ appBuckets' = [appBuckets EXCEPT ![c][a] = appBuckets[c][a] \cup {b}]
      BY <1>3, Zenon DEF CreateBucket
    <2> HIDE DEF c
    <2>2. /\ owner' \in [Coords -> [Buckets -> Apps \cup {None}]]
          /\ \A d \in Coords, e \in Buckets : owner'[d][e] = IF d = c /\ e = b THEN a ELSE owner[d][e]
      BY <1>0, <1>1, <2>1, OneEntry DEF TypeOK
    <2>3. /\ appBuckets' \in [Coords -> [Apps -> SUBSET Buckets]]
          /\ \A d \in Coords, p \in Apps :
               appBuckets'[d][p] = IF d = c /\ p = a THEN appBuckets[c][a] \cup {b} ELSE appBuckets[d][p]
      <3>1. appBuckets[c][a] \cup {b} \in SUBSET Buckets
        BY <1>0, <1>1 DEF TypeOK
      <3> QED BY <1>0, <1>1, <2>1, <3>1, OneEntry DEF TypeOK
    <2>4. TypeOK'
      BY <1>0, <1>1, <2>2, <2>3, RequestTypes, Zenon DEF TypeOK
    <2>5. ASSUME NEW d \in Coords, NEW e \in Buckets
          PROVE  Mapped(d, e)'
      <3>1. Mapped(d, e)
        BY <1>0, Zenon DEF MapInv
      <3>2. CASE d = c /\ e = b
        <4>1. owner'[d][e] = a /\ a # None /\ home'[a] = d
          BY <1>1, <2>2, <3>2, TimedNames, Zenon DEF c
        <4>2. \A p \in Apps : e \in appBuckets'[d][p] <=> p = a
          BY <1>3, <2>3, <3>1, <3>2, TimedNames DEF Mapped
        <4> QED BY <1>1, <3>2, <4>1, <4>2, Zenon DEF Mapped
      <3>3. CASE ~(d = c /\ e = b)
        <4>1. owner'[d][e] = owner[d][e]
          BY <2>2, <3>3, Zenon
        <4>2. \A p \in Apps : e \in appBuckets'[d][p] <=> e \in appBuckets[d][p]
          BY <2>3, <3>3
        <4> QED BY <1>1, <3>1, <4>1, <4>2, Zenon DEF Mapped
      <3> QED BY <3>2, <3>3, Zenon
    <2>6. MapInv'
      BY <2>5, Zenon DEF MapInv
    <2>7. TellInv'
      BY <1>0, <1>1 DEF TellInv, HomeOf
    <2> QED BY <1>0, <1>1, <2>4, <2>6, <2>7, Requested, Quiet, Zenon DEF IInv
  <1> QED BY <1>2, <1>3, Zenon

LEMMA DeleteBucketInv ==
  ASSUME IInv, OwnBuckets, NEW a \in Apps, NEW b \in Buckets, <<a, b>> \in Uses, DeleteBucket(a, b)
  PROVE  IInv'
  <1> DEFINE c == home[a]
  <1>0. TypeOK /\ MapInv /\ TellInv
    BY Zenon DEF IInv
  <1>1. Request(a) /\ c \in Coords /\ home' = home /\ upd' = upd /\ missed' = missed
    BY <1>0, Requested, Zenon DEF DeleteBucket
  <1>2. CASE owner[c][b] = None
    <2>1. owner' = owner /\ appBuckets' = appBuckets /\ trig' = trig
      BY <1>2, Zenon DEF DeleteBucket, coordVars
    <2>2. TypeOK'
      BY <1>0, <1>1, <2>1, RequestTypes, Zenon DEF TypeOK
    <2>3. MapInv' /\ TellInv'
      BY <1>0, <1>1, <2>1, HomesStay, Zenon
    <2> QED BY <1>0, <1>1, <2>1, <2>2, <2>3, Requested, Quiet, Zenon DEF IInv
  <1>3. CASE owner[c][b] # None
    <2>1. /\ owner' = [owner EXCEPT ![c][b] = None]
          /\ appBuckets' = [appBuckets EXCEPT ![c][a] = appBuckets[c][a] \ {b}]
          /\ trig' = [trig EXCEPT ![c][b] = {}]
      BY <1>3, Zenon DEF DeleteBucket
    <2> HIDE DEF c
    <2>2. /\ owner' \in [Coords -> [Buckets -> Apps \cup {None}]]
          /\ \A d \in Coords, e \in Buckets : owner'[d][e] = IF d = c /\ e = b THEN None ELSE owner[d][e]
      BY <1>0, <1>1, <2>1, OneEntry DEF TypeOK
    <2>3. /\ appBuckets' \in [Coords -> [Apps -> SUBSET Buckets]]
          /\ \A d \in Coords, p \in Apps :
               appBuckets'[d][p] = IF d = c /\ p = a THEN appBuckets[c][a] \ {b} ELSE appBuckets[d][p]
      <3>1. appBuckets[c][a] \ {b} \in SUBSET Buckets
        BY <1>0, <1>1 DEF TypeOK
      <3> QED BY <1>0, <1>1, <2>1, <3>1, OneEntry DEF TypeOK
    <2>4. /\ trig' \in [Coords -> [Buckets -> SUBSET Names]]
          /\ \A d \in Coords, e \in Buckets : trig'[d][e] = IF d = c /\ e = b THEN {} ELSE trig[d][e]
      <3>1. {} \in SUBSET Names
        BY Zenon
      <3> QED BY <1>0, <1>1, <2>1, <3>1, OneEntry DEF TypeOK
    <2>5. TypeOK'
      BY <1>0, <1>1, <2>2, <2>3, <2>4, RequestTypes, Zenon DEF TypeOK
    <2>6. owner[c][b] = a
      <3>1. <<owner[c][b], b>> \in Uses
        BY <1>0, <1>1, <1>3, Zenon DEF MapInv, Mapped
      <3>2. <<owner[c][b], b>>[2] = <<a, b>>[2]
        BY Zenon
      <3>3. <<owner[c][b], b>>[1] = <<a, b>>[1]
        BY <3>1, <3>2, Zenon DEF OwnBuckets
      <3> QED BY <3>3, Zenon
    <2>7. ASSUME NEW d \in Coords, NEW e \in Buckets
          PROVE  Mapped(d, e)'
      <3>1. Mapped(d, e)
        BY <1>0, Zenon DEF MapInv
      <3>2. CASE d = c /\ e = b
        <4>1. owner'[d][e] = None /\ trig'[d][e] = {}
          BY <2>2, <2>4, <3>2, Zenon
        <4>2. \A p \in Apps : e \notin appBuckets'[d][p] /\ p # None
          BY <2>3, <2>6, <3>1, <3>2, TimedNames DEF Mapped
        <4> QED BY <4>1, <4>2, Zenon DEF Mapped
      <3>3. CASE ~(d = c /\ e = b)
        <4>1. owner'[d][e] = owner[d][e] /\ trig'[d][e] = trig[d][e]
          BY <2>2, <2>4, <3>3, Zenon
        <4>2. \A p \in Apps : e \in appBuckets'[d][p] <=> e \in appBuckets[d][p]
          BY <2>3, <3>3, Zenon
        <4> QED BY <1>1, <3>1, <4>1, <4>2, Zenon DEF Mapped
      <3> QED BY <3>2, <3>3, Zenon
    <2>8. MapInv'
      BY <2>7, Zenon DEF MapInv
    <2>9. TellInv'
      BY <1>0, <1>1 DEF TellInv, HomeOf
    <2>10. \A d \in Coords, e \in Buckets : trig'[d][e] \subseteq trig[d][e]
      BY <2>4, Zenon
    <2> QED BY <1>0, <1>1, <2>5, <2>8, <2>9, <2>10, Requested, Quiet, Zenon DEF IInv
  <1> QED BY <1>2, <1>3, Zenon

-----------------------------------------------------------------------------
(* A message without triggers. *)
LEMMA EmptyAnnounced ==
  ASSUME IInv, NEW c \in Coords, NEW a \in Apps \cup {None}, Announce(c, AddMsg(a, {})), trig' = trig,
         nodeTrig' = nodeTrig, nodeCoord' = nodeCoord, up' = up, home' = home
  PROVE  /\ upd' \in [Coords -> [Nodes -> Seq(Message)]] /\ missed' \subseteq Coords \X Nodes
         /\ TellInv' /\ DropInv' /\ TrigInv' /\ NodesSurvive'
  <1> DEFINE m == AddMsg(a, {})
  <1>1. m \in Message /\ OneDropped(m)
    BY DEF AddMsg, Message, OneDropped
  <1>2. \A b : ~About(m, b) /\ \A t : ~Drops(m, b, t)
    BY Zenon DEF About, Drops, AddMsg
  <1>3. Announce(c, m)
    BY Zenon
  <1> HIDE DEF m
  <1>4. ASSUME NEW b \in Buckets PROVE Says(m, b, trig[c][b], trig'[c][b])
    BY <1>2, Zenon DEF Says
  <1> QED BY <1>1, <1>2, <1>3, <1>4, AnnounceInv, Zenon

(* A trigger more, or less, in bucket b of coordinator c, which says so to the
   nodes it knows. *)
LEMMA OneAnnounced ==
  ASSUME IInv, NEW a \in Apps, Request(a), NEW c \in Coords, c = home[a], NEW b \in Buckets, <<a, b>> \in Uses,
         owner[c][b] # None, owner' = owner, appBuckets' = appBuckets,
         NEW v \in SUBSET Names, trig' = [trig EXCEPT ![c][b] = v],
         NEW m \in Message, Announce(c, m), OneDropped(m), \A e \in m.triggers : e[1] = b,
         Says(m, b, trig[c][b], v)
  PROVE  IInv'
  <1>1. TypeOK /\ MapInv
    BY Zenon DEF IInv
  <1>2. /\ owner' \in [Coords -> [Buckets -> Apps \cup {None}]]
        /\ appBuckets' \in [Coords -> [Apps -> SUBSET Buckets]]
        /\ trig \in [Coords -> [Buckets -> SUBSET Names]]
    BY <1>1, Zenon DEF TypeOK
  <1>3. /\ trig' \in [Coords -> [Buckets -> SUBSET Names]]
        /\ \A d \in Coords, e \in Buckets : trig'[d][e] = IF d = c /\ e = b THEN v ELSE trig[d][e]
    BY <1>2, OneEntry
  <1>4. /\ home' = home /\ nodeTrig' = nodeTrig /\ nodeCoord' = nodeCoord /\ up' = up
    BY <1>1, Requested, Zenon
  <1>5. ASSUME NEW d \in Coords, NEW e \in Buckets PROVE Mapped(d, e)'
    <2>1. Mapped(d, e)
      BY <1>1, Zenon DEF MapInv
    <2> QED BY <1>3, <1>4, <2>1 DEF Mapped
  <1>6. HomeOf(c, b)
    BY Zenon DEF HomeOf
  <1>7. \A e \in Buckets : About(m, e) => HomeOf(c, e)
    BY <1>6, Zenon DEF About
  <1>8. ASSUME NEW e \in Buckets PROVE Says(m, e, trig[c][e], trig'[c][e])
    <2>1. CASE e = b
      BY <1>3, <2>1, Zenon
    <2>2. CASE e # b
      <3>1. trig'[c][e] = trig[c][e]
        BY <1>3, <2>2
      <3>2. \A t \in Names : ~Drops(m, e, t)
        BY <2>2, Zenon DEF Drops
      <3>3. trig[c][e] \subseteq Names
        BY <1>2
      <3> QED BY <3>1, <3>2, <3>3, Zenon DEF Says
    <2> QED BY <2>1, <2>2, Zenon
  <1>9. \A d \in Coords \ {c}, e \in Buckets : trig'[d][e] = trig[d][e]
    BY <1>3, Zenon
  <1>10. /\ upd' \in [Coords -> [Nodes -> Seq(Message)]] /\ missed' \subseteq Coords \X Nodes
         /\ TellInv' /\ DropInv' /\ TrigInv' /\ NodesSurvive'
    BY <1>4, <1>7, <1>8, <1>9, AnnounceInv, Zenon
  <1>11. TypeOK'
    BY <1>1, <1>2, <1>3, <1>10, RequestTypes, Zenon
  <1> QED BY <1>5, <1>10, <1>11, Zenon DEF IInv, MapInv

(* Nothing changes but that an empty message goes out. *)
LEMMA NothingChanged ==
  ASSUME IInv, NEW a \in Apps, Request(a), NEW p \in Apps \cup {None}, Announce(home[a], AddMsg(p, {})),
         owner' = owner, appBuckets' = appBuckets, trig' = trig
  PROVE  IInv'
  <1>1. TypeOK /\ MapInv
    BY Zenon DEF IInv
  <1>2. /\ home[a] \in Coords /\ home' = home
        /\ nodeTrig' = nodeTrig /\ nodeCoord' = nodeCoord /\ up' = up
    BY <1>1, Requested, Zenon
  <1>3. /\ upd' \in [Coords -> [Nodes -> Seq(Message)]] /\ missed' \subseteq Coords \X Nodes
        /\ TellInv' /\ DropInv' /\ TrigInv' /\ NodesSurvive'
    BY <1>2, EmptyAnnounced, Zenon
  <1>4. TypeOK'
    BY <1>1, <1>3, RequestTypes, Zenon DEF TypeOK
  <1>5. ASSUME NEW d \in Coords, NEW e \in Buckets PROVE Mapped(d, e)'
    <2>1. Mapped(d, e)
      BY <1>1, Zenon DEF MapInv
    <2> QED BY <1>2, <2>1, Zenon DEF Mapped
  <1> QED BY <1>3, <1>4, <1>5, Zenon DEF IInv, MapInv

LEMMA AddTriggerInv ==
  ASSUME IInv, TimedRegistered, NEW a \in Apps, NEW b \in Buckets, <<a, b>> \in Uses,
         NEW t \in Added, AddTrigger(a, b, t)
  PROVE  IInv'
  <1> DEFINE c == home[a]
             m == AddMsg(a, Entries(b, t))
  <1>1. Request(a) /\ owner' = owner /\ appBuckets' = appBuckets
    BY Zenon DEF AddTrigger
  <1>2. CASE owner[c][b] # None
    <2>1. trig' = [trig EXCEPT ![c][b] = trig[c][b] \cup {t}] /\ Announce(c, m)
      BY <1>2, Zenon DEF AddTrigger
    <2>2. c \in Coords /\ trig[c][b] \subseteq Names
      BY <1>1, Requested DEF IInv, TypeOK
    <2>3. t \in Names \ Timed
      BY UsesPairs, Zenon DEF TimedRegistered
    <2>4. m = [type |-> 0, app |-> a, triggers |-> {<<b, t>>}]
      BY <2>3, Zenon DEF Entries, AddMsg
    <2>5. c = home[a]
      BY Zenon
    <2> HIDE DEF m, c
    <2>6. m \in Message /\ OneDropped(m) /\ \A e \in m.triggers : e[1] = b
      BY <2>3, <2>4 DEF Message, OneDropped
    <2>7. Adds(m, b, t) /\ About(m, b) /\ m.type = 0 /\ \A u : ~Drops(m, b, u)
      <3>1. m.type = 0 /\ <<b, t>> \in m.triggers /\ <<b, t>>[1] = b
        BY <2>4, Zenon
      <3>2. About(m, b)
        BY <3>1, Zenon DEF About
      <3> QED BY <3>1, <3>2 DEF Adds, Drops
    <2>8. Says(m, b, trig[c][b], trig[c][b] \cup {t})
      BY <2>7, Zenon DEF Says
    <2>9. trig[c][b] \cup {t} \in SUBSET Names
      BY <2>2, <2>3, Zenon
    <2> QED BY <1>1, <1>2, <2>1, <2>2, <2>5, <2>6, <2>8, <2>9, OneAnnounced, Zenon
  <1>3. CASE owner[c][b] = None
    <2>1. trig' = trig /\ Announce(c, AddMsg(a, {}))
      BY <1>3, Zenon DEF AddTrigger
    <2> QED BY <1>1, <2>1, NothingChanged, Zenon
  <1> QED BY <1>2, <1>3, Zenon

LEMMA DeleteTriggerInv ==
  ASSUME IInv, TimedRegistered, NEW a \in Apps, NEW b \in Buckets, <<a, b>> \in Uses,
         NEW t \in Deleted, DeleteTrigger(a, b, t)
  PROVE  IInv'
  <1> DEFINE c == home[a]
             m == DeleteMsg(b, t)
  <1>1. Request(a) /\ owner' = owner /\ appBuckets' = appBuckets
    BY Zenon DEF DeleteTrigger
  <1>2. CASE owner[c][b] # None /\ t \in trig[c][b]
    <2>1. trig' = [trig EXCEPT ![c][b] = trig[c][b] \ {t}] /\ Announce(c, m)
      BY <1>2, Zenon DEF DeleteTrigger
    <2>2. c \in Coords /\ trig[c][b] \subseteq Names
      BY <1>1, Requested DEF IInv, TypeOK
    <2>3. t \in Names \ Timed
      BY UsesPairs, Zenon DEF TimedRegistered
    <2>4. m = [type |-> 2, app |-> None, triggers |-> {<<b, t>>}]
      BY Zenon DEF DeleteMsg
    <2>5. c = home[a]
      BY Zenon
    <2> HIDE DEF m, c
    <2>6. m \in Message /\ OneDropped(m) /\ \A e \in m.triggers : e[1] = b
      BY <2>3, <2>4 DEF Message, OneDropped
    <2>7. \A u : Drops(m, b, u) => u = t
      BY <2>4, Zenon DEF Drops
    <2>8. Says(m, b, trig[c][b], trig[c][b] \ {t})
      BY <1>2, <2>3, <2>7, Zenon DEF Says
    <2>9. trig[c][b] \ {t} \in SUBSET Names
      BY <2>2, Zenon
    <2> QED BY <1>1, <1>2, <2>1, <2>2, <2>5, <2>6, <2>8, <2>9, OneAnnounced, Zenon
  <1>3. CASE ~(owner[c][b] # None /\ t \in trig[c][b])
    <2>1. trig' = trig /\ Announce(c, AddMsg(None, {}))
      BY <1>3, Zenon DEF DeleteTrigger
    <2> QED BY <1>1, <2>1, NothingChanged, Zenon
  <1> QED BY <1>2, <1>3, Zenon

(* The dependencies of an application are about its own buckets, and so is the
   message. *)
LEMMA Entities ==
  ASSUME NEW a \in Apps, NEW deps \in SUBSET Dependencies(a),
         NEW m, m = AddMsg(a, EntriesOf(deps))
  PROVE  /\ deps \subseteq Buckets \X Names /\ BucketsOf(deps) \subseteq Buckets /\ m \in Message /\ m.type = 0
         /\ \A b \in BucketsOf(deps) : <<a, b>> \in Uses
         /\ \A b \in Buckets : About(m, b) <=> b \in BucketsOf(deps)
         /\ \A b \in Buckets, t \in Names \ Timed : <<b, t>> \in deps => Adds(m, b, t)
  <1>1. ASSUME NEW d \in deps
        PROVE  d = <<d[1], d[2]>> /\ d[1] \in Buckets /\ d[2] \in Names /\ <<a, d[1]>> \in Uses
    <2>1. d \in Dependencies(a)
      BY Zenon
    <2>2. PICK u \in Uses : u[1] = a /\ d[1] = u[2]
      BY <2>1, Zenon DEF Dependencies
    <2>3. u = <<a, d[1]>> /\ d[1] \in Buckets
      BY <2>2, UsesPairs
    <2> QED BY <2>1, <2>2, <2>3, UsesPairs DEF Dependencies
  <1>2. ASSUME NEW d \in deps
        PROVE  <<d[1], IF d[2] \in Timed THEN None ELSE d[2]>> \in Buckets \X (Names \cup {None})
    BY <1>1, Zenon
  <1>3. EntriesOf(deps) \subseteq Buckets \X (Names \cup {None})
    BY <1>2, Zenon DEF EntriesOf
  <1>4. m.type = 0 /\ m.triggers = EntriesOf(deps) /\ m \in Message
    BY <1>3, Zenon DEF AddMsg, Message
  <1>5. ASSUME NEW b \in Buckets PROVE About(m, b) <=> b \in BucketsOf(deps)
    <2>1. ASSUME NEW d \in deps, d[1] = b PROVE About(m, b)
      <3> DEFINE e == <<d[1], IF d[2] \in Timed THEN None ELSE d[2]>>
      <3>1. e \in m.triggers /\ e[1] = b
        BY <1>4, <2>1, Zenon DEF EntriesOf
      <3> QED BY <3>1, Zenon DEF About
    <2>2. ASSUME NEW e \in m.triggers, e[1] = b PROVE \E d \in deps : d[1] = b
      BY <1>4, <2>2 DEF EntriesOf
    <2> QED BY <2>1, <2>2, Zenon DEF About, BucketsOf
  <1>6. ASSUME NEW b \in Buckets, NEW t \in Names \ Timed, <<b, t>> \in deps PROVE Adds(m, b, t)
    BY <1>4, <1>6 DEF Adds, EntriesOf
  <1>7. deps \subseteq Buckets \X Names
    <2>1. ASSUME NEW d \in deps PROVE d \in Buckets \X Names
      <3>1. PICK p \in Buckets, t \in Names : d = <<p, t>>
        BY <1>1, Zenon
      <3> QED BY <3>1, Zenon
    <2> QED BY <2>1, Zenon
  <1> QED BY <1>1, <1>4, <1>5, <1>6, <1>7, Zenon DEF BucketsOf

LEMMA RegisterAppInv ==
  ASSUME IInv, OwnBuckets, NEW a \in Apps, NEW deps \in SUBSET Dependencies(a), RegisterApp(a, deps)
  PROVE  IInv'
  <1> DEFINE c == home[a]
             bs == BucketsOf(deps)
             m == AddMsg(a, EntriesOf(deps))
             ts(b) == {t \in Names : <<b, t>> \in deps}
  <1>1. TypeOK /\ MapInv /\ Request(a) /\ Announce(c, m)
    BY Zenon DEF IInv, RegisterApp
  <1>2. /\ c \in Coords /\ home' = home
        /\ nodeTrig' = nodeTrig /\ nodeCoord' = nodeCoord /\ up' = up
    BY <1>1, Requested, Zenon
  <1>3. /\ owner \in [Coords -> [Buckets -> Apps \cup {None}]]
        /\ appBuckets \in [Coords -> [Apps -> SUBSET Buckets]]
        /\ trig \in [Coords -> [Buckets -> SUBSET Names]]
    BY <1>1, Zenon DEF TypeOK
  <1>4. owner' = [owner EXCEPT ![c] = [b \in Buckets |-> IF b \in bs THEN a ELSE owner[c][b]]]
    BY Zenon DEF RegisterApp
  <1>5. appBuckets' = [appBuckets EXCEPT ![c][a] = appBuckets[c][a] \cup bs]
    BY Zenon DEF RegisterApp
  <1>6. trig' = [trig EXCEPT ![c] = [b \in Buckets |-> trig[c][b] \cup ts(b)]]
    BY Zenon DEF RegisterApp
  <1>7. /\ bs \subseteq Buckets /\ m \in Message /\ m.type = 0
        /\ \A b \in bs : <<a, b>> \in Uses
        /\ \A b \in Buckets : About(m, b) <=> b \in bs
        /\ \A b \in Buckets : \A t \in ts(b) \ Timed : Adds(m, b, t)
    BY Entities, Zenon
  <1>8. \A b \in Buckets : ts(b) # {} => b \in bs
    <2>1. ASSUME NEW b, NEW t, <<b, t>> \in deps PROVE b \in bs
      <3>1. <<b, t>>[1] = b
        BY Zenon
      <3> QED BY <2>1, <3>1, Zenon DEF BucketsOf
    <2> QED BY <2>1, Zenon
  <1>9. \A b \in bs : HomeOf(c, b)
    BY <1>7, Zenon DEF HomeOf
  <1>10. home[a] = c /\ \A b : ts(b) \subseteq Names
    BY Zenon
  <1> HIDE DEF c, bs, m, ts
  <1>11. /\ owner' \in [Coords -> [Buckets -> Apps \cup {None}]]
         /\ \A d \in Coords, b \in Buckets : owner'[d][b] = IF d = c /\ b \in bs THEN a ELSE owner[d][b]
    <2> DEFINE row == [b \in Buckets |-> IF b \in bs THEN a ELSE owner[c][b]]
    <2>1. row \in [Buckets -> Apps \cup {None}]
      BY <1>2, <1>3
    <2>2. \A b \in Buckets : row[b] = IF b \in bs THEN a ELSE owner[c][b]
      BY Zenon
    <2> HIDE DEF row
    <2> QED BY <1>2, <1>3, <1>4, <2>1, <2>2, Zenon DEF row
  <1>12. /\ trig' \in [Coords -> [Buckets -> SUBSET Names]]
         /\ \A d \in Coords, b \in Buckets :
              trig'[d][b] = IF d = c THEN trig[c][b] \cup ts(b) ELSE trig[d][b]
    <2>1. [b \in Buckets |-> trig[c][b] \cup ts(b)] \in [Buckets -> SUBSET Names]
      BY <1>2, <1>3, <1>10
    <2> QED BY <1>2, <1>3, <1>6, <2>1, Zenon
  <1>13. /\ appBuckets' \in [Coords -> [Apps -> SUBSET Buckets]]
         /\ \A d \in Coords, p \in Apps :
              appBuckets'[d][p] = IF d = c /\ p = a THEN appBuckets[c][a] \cup bs ELSE appBuckets[d][p]
    <2>1. appBuckets[c][a] \cup bs \in SUBSET Buckets
      BY <1>2, <1>3, <1>7
    <2> QED BY <1>2, <1>3, <1>5, <2>1, OneEntry
  <1>14. ASSUME NEW b \in Buckets PROVE Says(m, b, trig[c][b], trig'[c][b])
    <2>1. \A t : ~Drops(m, b, t)
      BY <1>7 DEF Drops
    <2>2. trig'[c][b] = trig[c][b] \cup ts(b)
      BY <1>2, <1>12, Zenon
    <2>3. ts(b) # {} => m.type = 0 /\ About(m, b)
      BY <1>7, <1>8, Zenon
    <2> QED BY <1>7, <2>1, <2>2, <2>3, Zenon DEF Says
  <1>15. OneDropped(m) /\ \A b \in Buckets : About(m, b) => HomeOf(c, b)
    BY <1>7, <1>9 DEF OneDropped
  <1>16. \A d \in Coords \ {c}, b \in Buckets : trig'[d][b] = trig[d][b]
    BY <1>12, Zenon
  <1>17. /\ upd' \in [Coords -> [Nodes -> Seq(Message)]] /\ missed' \subseteq Coords \X Nodes
         /\ TellInv' /\ DropInv' /\ TrigInv' /\ NodesSurvive'
    BY <1>1, <1>2, <1>7, <1>14, <1>15, <1>16, AnnounceInv, Zenon
  <1>18. TypeOK'
    BY <1>1, <1>11, <1>12, <1>13, <1>17, RequestTypes, Zenon
  <1>19. ASSUME NEW d \in Coords, NEW b \in Buckets PROVE Mapped(d, b)'
    <2>1. Mapped(d, b)
      BY <1>1, Zenon DEF MapInv
    <2>2. CASE d = c /\ b \in bs
      <3>1. owner'[d][b] = a /\ a # None /\ home'[a] = d /\ <<a, b>> \in Uses
        BY <1>2, <1>7, <1>10, <1>11, <2>2, TimedNames, Zenon
      <3>2. ASSUME NEW p \in Apps, owner[d][b] = p PROVE p = a
        <4>1. <<p, b>> \in Uses
          BY <2>1, <3>2, TimedNames, Zenon DEF Mapped
        <4>2. <<p, b>>[2] = <<a, b>>[2]
          BY Zenon
        <4>3. <<p, b>>[1] = <<a, b>>[1]
          BY <3>1, <4>1, <4>2, Zenon DEF OwnBuckets
        <4> QED BY <4>3, Zenon
      <3>3. \A p \in Apps : b \in appBuckets'[d][p] <=> p = a
        BY <1>13, <2>1, <2>2, <3>2 DEF Mapped
      <3> QED BY <3>1, <3>3, Zenon DEF Mapped
    <2>3. CASE ~(d = c /\ b \in bs)
      <3>1. owner'[d][b] = owner[d][b]
        BY <1>11, <2>3, Zenon
      <3>2. trig'[d][b] = trig[d][b]
        BY <1>8, <1>12, <2>3
      <3>3. \A p \in Apps : b \in appBuckets'[d][p] <=> b \in appBuckets[d][p]
        BY <1>13, <2>3, Zenon
      <3> QED BY <1>2, <2>1, <3>1, <3>2, <3>3, Zenon DEF Mapped
    <2> QED BY <2>2, <2>3, Zenon
  <1> QED BY <1>17, <1>18, <1>19, Zenon DEF IInv, MapInv

-----------------------------------------------------------------------------
(* A node takes message m of coordinator c: its rows for the buckets that m is
   not about stay, and it gets what m brings and keeps what m does not take. *)
Takes(n, c, m) ==
  /\ nodeTrig' \in [Nodes -> [Buckets -> [Names -> Nat]]]
  /\ \A p \in Nodes \ {n} : nodeTrig'[p] = nodeTrig[p]
  /\ \A b \in Buckets : ~About(m, b) => nodeTrig'[n][b] = nodeTrig[n][b]
  /\ \A b \in Buckets, t \in Names :
       /\ Adds(m, b, t) => nodeTrig'[n][b][t] > 0
       /\ nodeTrig[n][b][t] > 0 /\ ~Drops(m, b, t) => nodeTrig'[n][b][t] > 0

Routes(n, c, m) ==
  /\ nodeCoord' \in [Nodes -> [Buckets -> Coords \cup {None}]]
  /\ \A p \in Nodes \ {n} : nodeCoord'[p] = nodeCoord[p]
  /\ \A b \in Buckets : ~About(m, b) => nodeCoord'[n][b] = nodeCoord[n][b]
  /\ \A b \in Buckets : nodeCoord[n][b] = c \/ (m.type = 0 /\ About(m, b)) => nodeCoord'[n][b] = c

Lives(n, m) ==
  \/ up' = up
  \/ /\ m.type = 2 /\ up' = up \ {n}
     /\ \E e \in m.triggers : nodeTrig[n][e[1]][e[2]] = 0

LEMMA AddTriggersFacts ==
  ASSUME TypeOK, NEW n \in Nodes, NEW c \in Coords, NEW m \in Message, m.type = 0, AddTriggers(n, c, m)
  PROVE  /\ Takes(n, c, m) /\ Routes(n, c, m) /\ Lives(n, m)
         /\ nodeApp' \in [Nodes -> [Apps -> Coords \cup {None}]]
  <1>1. /\ nodeTrig \in [Nodes -> [Buckets -> [Names -> Nat]]]
        /\ nodeCoord \in [Nodes -> [Buckets -> Coords \cup {None}]]
        /\ nodeApp \in [Nodes -> [Apps -> Coords \cup {None}]]
    BY Zenon DEF TypeOK
  <1>2. Takes(n, c, m)
    <2> DEFINE new == Plus(nodeTrig[n], m.triggers)
    <2>1. nodeTrig' = [nodeTrig EXCEPT ![n] = new]
      BY Zenon DEF AddTriggers
    <2>2. /\ new \in [Buckets -> [Names -> Nat]]
          /\ \A b \in Buckets : ~About(m, b) => new[b] = nodeTrig[n][b]
          /\ \A b \in Buckets, t \in Names : /\ Adds(m, b, t) => new[b][t] > 0
                                             /\ nodeTrig[n][b][t] > 0 /\ ~Drops(m, b, t) => new[b][t] > 0
      BY <1>1, PlusRows
    <2> HIDE DEF new
    <2> QED BY <1>1, <2>1, <2>2, Zenon DEF Takes
  <1>3. Routes(n, c, m)
    <2> DEFINE new == [b \in Buckets |-> IF \E e \in m.triggers : e[1] = b THEN c ELSE nodeCoord[n][b]]
    <2>1. nodeCoord' = [nodeCoord EXCEPT ![n] = new]
      BY Zenon DEF AddTriggers
    <2>2. new \in [Buckets -> Coords \cup {None}]
      BY <1>1, Zenon
    <2>3. \A b \in Buckets : new[b] = IF About(m, b) THEN c ELSE nodeCoord[n][b]
      BY Zenon DEF About
    <2> HIDE DEF new
    <2> QED BY <1>1, <2>1, <2>2, <2>3, Zenon DEF Routes
  <1>4. nodeApp' \in [Nodes -> [Apps -> Coords \cup {None}]]
    <2>1. [a \in Apps |-> IF a = m.app THEN c ELSE nodeApp[n][a]] \in [Apps -> Coords \cup {None}]
      BY <1>1, Zenon
    <2> QED BY <1>1, <2>1, Zenon DEF AddTriggers
  <1> QED BY <1>2, <1>3, <1>4, Zenon DEF AddTriggers, Lives

LEMMA DeleteTriggersFacts ==
  ASSUME TypeOK, NEW n \in Nodes, NEW c \in Coords, NEW m \in Message, m.type = 2, DeleteTriggers(n, m)
  PROVE  /\ Takes(n, c, m) /\ Routes(n, c, m) /\ Lives(n, m)
         /\ nodeApp' \in [Nodes -> [Apps -> Coords \cup {None}]]
  <1>1. /\ nodeTrig \in [Nodes -> [Buckets -> [Names -> Nat]]]
        /\ nodeCoord \in [Nodes -> [Buckets -> Coords \cup {None}]]
        /\ nodeApp \in [Nodes -> [Apps -> Coords \cup {None}]]
    BY Zenon DEF TypeOK
  <1>2. nodeCoord' = nodeCoord /\ nodeApp' = nodeApp
    BY Zenon DEF DeleteTriggers
  <1>3. Routes(n, c, m)
    BY <1>1, <1>2 DEF Routes
  <1>4. CASE \E e \in m.triggers : nodeTrig[n][e[1]][e[2]] = 0
    <2>1. up' = up \ {n} /\ nodeTrig' = nodeTrig
      BY <1>4, Zenon DEF DeleteTriggers
    <2>2. Takes(n, c, m)
      BY <1>1, <2>1 DEF Takes, Adds
    <2> QED BY <1>1, <1>2, <1>3, <1>4, <2>1, <2>2, Zenon DEF Lives
  <1>5. CASE ~\E e \in m.triggers : nodeTrig[n][e[1]][e[2]] = 0
    <2> DEFINE new == Minus(nodeTrig[n], m.triggers)
    <2>1. nodeTrig' = [nodeTrig EXCEPT ![n] = new] /\ up' = up
      BY <1>5, Zenon DEF DeleteTriggers
    <2>2. /\ new \in [Buckets -> [Names -> Nat]]
          /\ \A b \in Buckets : ~About(m, b) => new[b] = nodeTrig[n][b]
          /\ \A b \in Buckets, t \in Names : /\ Adds(m, b, t) => new[b][t] > 0
                                             /\ nodeTrig[n][b][t] > 0 /\ ~Drops(m, b, t) => new[b][t] > 0
      BY <1>1, <1>5, MinusRows
    <2> HIDE DEF new
    <2>3. Takes(n, c, m)
      BY <1>1, <2>1, <2>2, Zenon DEF Takes
    <2> QED BY <1>1, <1>2, <1>3, <2>1, <2>3, Zenon DEF Lives
  <1> QED BY <1>4, <1>5, Zenon

(* The node has every trigger that it is told to delete, unless it missed an
   earlier announcement. *)
LEMMA NoCrash ==
  ASSUME NEW c, NEW b \in Buckets, NEW t \in Names, NEW ts, NEW row, NEW r, NEW q \in Seq(Message), q # <<>>,
         Served(c, b, ts, row, r, q), Drops(q[1], b, t)
  PROVE  row[t] > 0
  <1>1. 1 \in 1..Len(q)
    BY Shortened
  <1>2. Has(row[t], q, b, t, 1)
    BY <1>1, Zenon DEF Served
  <1>3. 1..(1 - 1) = {}
    OBVIOUS
  <1> QED BY <1>2, <1>3, Zenon DEF Has

(* Buckets of other applications: nothing to have, nothing to delete. *)
LEMMA NotServed ==
  ASSUME NEW c, NEW b, NEW row, NEW r, NEW q, \A m \in Msgs(q) : ~About(m, b)
  PROVE  Served(c, b, {}, row, r, q)
  <1>1. ASSUME NEW t, NEW k \in 1..Len(q), Drops(q[k], b, t) PROVE FALSE
    <2>1. q[k] \in Msgs(q)
      BY Zenon DEF Msgs
    <2>2. <<b, t>> \in q[k].triggers /\ <<b, t>>[1] = b
      BY <1>1, Zenon DEF Drops
    <2>3. About(q[k], b)
      BY <2>2, Zenon DEF About
    <2> QED BY <2>1, <2>3, Zenon
  <1> QED BY <1>1, Zenon DEF Served

LEMMA UpdateInv ==
  ASSUME IInv, OwnBuckets, NEW n \in Nodes, NEW c \in Coords, Update(n, c)
  PROVE  IInv'
  <1> DEFINE q == upd[c][n]
             m == Head(q)
  <1>1. TypeOK /\ MapInv /\ TellInv /\ DropInv /\ TrigInv /\ NodesSurvive
    BY Zenon DEF IInv
  <1>2. /\ upd \in [Coords -> [Nodes -> Seq(Message)]]
        /\ trig \in [Coords -> [Buckets -> SUBSET Names]]
        /\ nodeTrig \in [Nodes -> [Buckets -> [Names -> Nat]]]
        /\ up \subseteq Nodes
    BY <1>1, Zenon DEF TypeOK
  <1>3. /\ members' = members /\ home' = home /\ owner' = owner /\ appBuckets' = appBuckets /\ trig' = trig
        /\ known' = known /\ ops' = ops /\ missed' = missed
    BY Zenon DEF Update, coordVars
  <1>4. /\ n \in up /\ q # <<>> /\ upd' = [upd EXCEPT ![c][n] = Tail(q)]
        /\ IF m.type = 0 THEN AddTriggers(n, c, m) ELSE DeleteTriggers(n, m)
    BY Zenon DEF Update
  <1>5. q \in Seq(Message)
    BY <1>2, Zenon
  <1>6. q = upd[c][n] /\ m = Head(q)
    BY Zenon
  <1> HIDE DEF q, m
  <1>7. m = q[1] /\ m \in Message /\ m \in Msgs(q) /\ Tail(q) \in Seq(Message) /\ Msgs(Tail(q)) \subseteq Msgs(q)
    <2>1. Tail(q) \in Seq(Message) /\ Len(q) > 0
      BY <1>4, <1>5, Shortened, Zenon
    <2>2. m = q[1] /\ m \in Message
      BY <1>4, <1>5, <1>6, <2>1
    <2> QED BY <1>4, <1>5, <2>1, <2>2, MsgsShortened, Zenon
  <1>8. /\ upd' \in [Coords -> [Nodes -> Seq(Message)]]
        /\ \A d \in Coords, p \in Nodes : upd'[d][p] = IF d = c /\ p = n THEN Tail(q) ELSE upd[d][p]
    BY <1>2, <1>4, <1>7, OneEntry
  <1>9. /\ Takes(n, c, m) /\ Routes(n, c, m) /\ Lives(n, m)
        /\ nodeApp' \in [Nodes -> [Apps -> Coords \cup {None}]]
    <2>1. m.type = 0 \/ m.type = 2
      BY <1>7, Zenon DEF Message
    <2> QED BY <1>1, <1>4, <1>7, <2>1, AddTriggersFacts, DeleteTriggersFacts, Zenon
  <1>10. up' \subseteq up
    BY <1>9, Zenon DEF Lives
  <1>11. TypeOK'
    <2>1. nodeTrig' \in [Nodes -> [Buckets -> [Names -> Nat]]]
      BY <1>9, Zenon DEF Takes
    <2>2. nodeCoord' \in [Nodes -> [Buckets -> Coords \cup {None}]]
      BY <1>9, Zenon DEF Routes
    <2>3. up' \subseteq Nodes
      BY <1>2, <1>10, Zenon
    <2> QED BY <1>1, <1>3, <1>8, <1>9, <2>1, <2>2, <2>3, Zenon DEF TypeOK
  <1>12. \A d \in Coords, p \in Nodes : Msgs(upd'[d][p]) \subseteq Msgs(upd[d][p])
    BY <1>6, <1>7, <1>8, Zenon
  <1>13. MapInv' /\ TellInv'
    <2>1. \A d \in Coords, b \in Buckets : Mapped(d, b)' <=> Mapped(d, b)
      BY <1>3 DEF Mapped
    <2>2. \A d \in Coords, b \in Buckets : HomeOf(d, b)' <=> HomeOf(d, b)
      BY <1>3, Zenon DEF HomeOf
    <2>3. MapInv'
      BY <1>1, <2>1, Zenon DEF MapInv
    <2> QED BY <1>1, <1>12, <2>2, <2>3, Zenon DEF TellInv
  <1>14. DropInv'
    BY <1>1, <1>12, Zenon DEF DropInv
  <1>15. ASSUME NEW b \in Buckets, <<c, n>> \notin missed
         PROVE  Served(c, b, trig[c][b], nodeTrig[n][b], nodeCoord[n][b], q)
    BY <1>1, <1>4, <1>6, <1>15, Zenon DEF TrigInv
  <1>16. NodesSurvive'
    <2>1. CASE up' = up
      BY <1>1, <1>3, <2>1, Zenon DEF NodesSurvive
    <2>2. CASE up' # up
      <3>1. m.type = 2 /\ up' = up \ {n} /\ \E e \in m.triggers : nodeTrig[n][e[1]][e[2]] = 0
        BY <1>9, <2>2, Zenon DEF Lives
      <3>2. OneDropped(m)
        BY <1>1, <1>6, <1>7, Zenon DEF DropInv
      <3>3. PICK b \in Buckets, t \in Names \ Timed : m.triggers = {<<b, t>>}
        BY <3>1, <3>2, Zenon DEF OneDropped
      <3>4. nodeTrig[n][b][t] = 0
        <4>1. PICK e \in m.triggers : nodeTrig[n][e[1]][e[2]] = 0
          BY <3>1, Zenon
        <4>2. e = <<b, t>>
          BY <3>3, <4>1, Zenon
        <4> QED BY <4>1, <4>2, Zenon
      <3>5. Drops(q[1], b, t)
        BY <1>7, <3>1, <3>3, Zenon DEF Drops
      <3>6. <<c, n>> \in missed
        <4> SUFFICES ASSUME <<c, n>> \notin missed PROVE FALSE
          BY Zenon
        <4>1. Served(c, b, trig[c][b], nodeTrig[n][b], nodeCoord[n][b], q)
          BY <1>15, Zenon
        <4>2. t \in Names
          BY Zenon
        <4>3. nodeTrig[n][b][t] > 0
          BY <1>4, <1>5, <3>5, <4>1, <4>2, NoCrash, Zenon
        <4> QED BY <3>4, <4>3
      <3> QED BY <1>1, <1>3, <3>1, <3>6, Zenon DEF NodesSurvive
    <2> QED BY <2>1, <2>2, Zenon
  <1>17. TrigInv'
    <2> SUFFICES ASSUME NEW d \in Coords, NEW p \in Nodes, NEW b \in Buckets,
                        <<d, p>> \notin missed, p \in up'
                 PROVE  Served(d, b, trig[d][b], nodeTrig'[p][b], nodeCoord'[p][b], upd'[d][p])
      BY <1>3, Zenon DEF TrigInv
    <2>1. Served(d, b, trig[d][b], nodeTrig[p][b], nodeCoord[p][b], upd[d][p])
      BY <1>1, <1>10, Zenon DEF TrigInv
    <2>2. CASE p # n
      <3>1. nodeTrig'[p] = nodeTrig[p]
        BY <1>9, <2>2, Zenon DEF Takes
      <3>2. nodeCoord'[p] = nodeCoord[p]
        BY <1>9, <2>2, Zenon DEF Routes
      <3>3. upd'[d][p] = upd[d][p]
        BY <1>8, <2>2, Zenon
      <3> QED BY <2>1, <3>1, <3>2, <3>3, Zenon
    <2>3. CASE p = n /\ d # c
      <3>1. upd'[d][p] = upd[d][p]
        BY <1>8, <2>3, Zenon
      <3>2. CASE HomeOf(d, b)
        <4>1. About(m, b) => HomeOf(c, b)
          BY <1>1, <1>6, <1>7, Zenon DEF TellInv
        <4>2. ~About(m, b)
          BY <2>3, <3>2, <4>1, OneHome, Zenon
        <4>3. nodeTrig'[n][b] = nodeTrig[n][b]
          BY <1>9, <4>2, Zenon DEF Takes
        <4>4. nodeCoord'[n][b] = nodeCoord[n][b]
          BY <1>9, <4>2, Zenon DEF Routes
        <4> QED BY <2>1, <2>3, <3>1, <4>3, <4>4, Zenon
      <3>3. CASE ~HomeOf(d, b)
        <4>1. Mapped(d, b)
          BY <1>1, Zenon DEF MapInv
        <4>2. owner[d][b] = None
          BY <3>3, <4>1, OwnerHome, Zenon
        <4>3. trig[d][b] = {}
          BY <4>1, <4>2, Zenon DEF Mapped
        <4>4. \A x \in Msgs(upd[d][p]) : ~About(x, b)
          BY <1>1, <3>3, Zenon DEF TellInv
        <4> QED BY <3>1, <4>3, <4>4, NotServed, Zenon
      <3> QED BY <3>2, <3>3, Zenon
    <2>4. CASE p = n /\ d = c
      <3>1. upd'[d][p] = Tail(q) /\ upd[d][p] = q
        BY <1>6, <1>8, <2>4, Zenon
      <3>2. nodeTrig[n][b] \in [Names -> Nat] /\ trig[c][b] \in SUBSET Names
        BY <1>2
      <3>3. /\ nodeTrig'[n][b] \in [Names -> Nat]
            /\ \A t \in Names :
                 /\ Adds(q[1], b, t) => nodeTrig'[n][b][t] > 0
                 /\ nodeTrig[n][b][t] > 0 /\ ~Drops(q[1], b, t) => nodeTrig'[n][b][t] > 0
        BY <1>7, <1>9, Zenon DEF Takes
      <3>4. nodeCoord[n][b] = c \/ (q[1].type = 0 /\ About(q[1], b)) => nodeCoord'[n][b] = c
        BY <1>7, <1>9, Zenon DEF Routes
      <3>5. Served(c, b, trig[c][b], nodeTrig[n][b], nodeCoord[n][b], q)
        BY <2>1, <2>4, <3>1, Zenon
      <3>6. Served(c, b, trig[c][b], nodeTrig'[n][b], nodeCoord'[n][b], Tail(q))
        BY <1>4, <1>5, <3>2, <3>3, <3>4, <3>5, ServedTail, Zenon
      <3> QED BY <2>4, <3>1, <3>6, Zenon
    <2> QED BY <2>2, <2>3, <2>4, Zenon
  <1> QED BY <1>11, <1>13, <1>14, <1>16, <1>17, Zenon DEF IInv

-----------------------------------------------------------------------------
(* Nothing is known and nothing under way initially. *)
LEMMA InitInv == Init => IInv
  <1> SUFFICES ASSUME Init PROVE IInv
    BY Zenon
  <1>1. TypeOK
    BY Bounds DEF Init, TypeOK
  <1>2. \A c \in Coords, n \in Nodes : Msgs(upd[c][n]) = {}
    <2>1. \A c \in Coords, n \in Nodes : upd[c][n] = <<>>
      BY Zenon DEF Init
    <2>2. Msgs(<<>>) = {}
      <3>1. \A i \in 1..Len(<<>>) : FALSE
        OBVIOUS
      <3> QED BY ONLY <3>1, Zenon DEF Msgs
    <2> QED BY Zenon, <2>1, <2>2
  <1>3. TellInv /\ DropInv
    BY <1>2, Zenon DEF TellInv, DropInv
  <1>4. MapInv
    BY TimedNames, Zenon DEF Init, MapInv, Mapped
  <1>5. \A c \in Coords, b \in Buckets : trig[c][b] = {}
    BY Zenon DEF Init
  <1>6. TrigInv
    <2>1. ASSUME NEW c \in Coords, NEW n \in Nodes, NEW b \in Buckets
          PROVE  Served(c, b, trig[c][b], nodeTrig[n][b], nodeCoord[n][b], upd[c][n])
      <3>1. trig[c][b] = {} /\ \A m \in Msgs(upd[c][n]) : ~About(m, b)
        BY <1>2, <1>5, Zenon
      <3> QED BY <3>1, NotServed, Zenon
    <2> QED BY <2>1, Zenon DEF TrigInv
  <1>7. NodesSurvive
    BY Zenon DEF Init, NodesSurvive
  <1> QED BY <1>1, <1>3, <1>4, <1>6, <1>7, Zenon DEF IInv

LEMMA StepInv ==
  ASSUME OwnBuckets, TimedRegistered
  PROVE  IInv /\ [Next]_vars => IInv'
  <1> SUFFICES ASSUME IInv, [Next]_vars PROVE IInv'
    BY Zenon
  <1>1. ASSUME NEW u \in Uses
        PROVE  u[1] \in Apps /\ u[2] \in Buckets /\ <<u[1], u[2]>> \in Uses
    BY UsesPairs
  <1>2. CASE \E c \in Coords : CoordSync(c) \/ \E n \in Nodes : Join(n, c) \/ Update(n, c)
    BY <1>2, CoordSyncInv, JoinInv, UpdateInv, Zenon
  <1>3. CASE \E a \in Apps : CoordQuery(a) \/ \E deps \in SUBSET Dependencies(a) : RegisterApp(a, deps)
    BY <1>3, CoordQueryInv, RegisterAppInv, Zenon
  <1>4. ASSUME NEW u \in Uses,
               \/ CreateBucket(u[1], u[2]) \/ DeleteBucket(u[1], u[2])
               \/ \E t \in Added : AddTrigger(u[1], u[2], t)
               \/ \E t \in Deleted : DeleteTrigger(u[1], u[2], t)
        PROVE  IInv'
    BY <1>1, <1>4, CreateBucketInv, DeleteBucketInv, AddTriggerInv, DeleteTriggerInv, Zenon
  <1>5. CASE UNCHANGED vars
    <2>1. TypeOK'
      BY <1>5, Zenon DEF vars, coordVars, nodeVars, IInv, TypeOK
    <2>2. MapInv' /\ TellInv'
      BY <1>5, HomesStay, Zenon DEF vars, coordVars, nodeVars, IInv
    <2>3. DropInv' /\ TrigInv' /\ NodesSurvive'
      BY <1>5, Quiet, Zenon DEF vars, coordVars, nodeVars
    <2> QED BY <2>1, <2>2, <2>3, Zenon DEF IInv
  <1> QED BY <1>2, <1>3, <1>4, <1>5, Zenon DEF Next

(* The coordinators' two maps of buckets, which creation, deletion and
   registration change one after the other, agree, and no bucket exists at two
   coordinators. *)
THEOREM MapsAgree ==
  ASSUME OwnBuckets, TimedRegistered
  PROVE  Spec => []BucketMapsAgree
  <1>1. IInv => BucketMapsAgree
    <2> SUFFICES ASSUME IInv PROVE BucketMapsAgree
      BY Zenon
    <2>1. \A c \in Coords, b \in Buckets : Mapped(c, b)
      BY Zenon DEF IInv, MapInv
    <2>2. ASSUME NEW b \in Buckets, NEW c \in Coords, NEW d \in Coords,
                 owner[c][b] # None, owner[d][b] # None
          PROVE  c = d
      BY <2>1, <2>2, OwnerHome, OneHome, Zenon
    <2>3. ASSUME NEW c \in Coords, NEW a \in Apps, NEW b \in Buckets
          PROVE  b \in appBuckets[c][a] <=> owner[c][b] = a
      <3>1. Mapped(c, b)
        BY <2>1, Zenon
      <3> QED BY <3>1, Zenon DEF Mapped
    <2>4. TypeOK
      BY Zenon DEF IInv
    <2> QED BY <2>2, <2>3, <2>4, Zenon DEF BucketMapsAgree
  <1> QED BY <1>1, InitInv, StepInv, PTL DEF Spec

(* A node that has taken all that the coordinator of a bucket ever announced
   has the triggers that it must evaluate, and notifies that coordinator. *)
THEOREM TriggersArrive ==
  ASSUME OwnBuckets, TimedRegistered
  PROVE  Spec => []NoTriggerMissing
  <1>1. IInv => NoTriggerMissing
    <2> SUFFICES ASSUME IInv, NEW c \in Coords, NEW n \in Nodes, NEW b \in Buckets, InStep(c, n)
                 PROVE  /\ \A t \in trig[c][b] \ Timed : nodeTrig[n][b][t] > 0
                        /\ trig[c][b] # {} => nodeCoord[n][b] = c
      BY Zenon DEF NoTriggerMissing
    <2>1. upd[c][n] = <<>> /\ Len(upd[c][n]) + 1 = 1 /\ 1..(1 - 1) = {}
      BY DEF InStep
    <2>2. Msgs(upd[c][n]) = {}
      BY <2>1 DEF Msgs
    <2>3. Served(c, b, trig[c][b], nodeTrig[n][b], nodeCoord[n][b], upd[c][n])
      BY Zenon DEF InStep, IInv, TrigInv
    <2>4. /\ \A t \in trig[c][b] \ Timed : Has(nodeTrig[n][b][t], upd[c][n], b, t, 1)
          /\ trig[c][b] # {} => nodeCoord[n][b] = c
      BY <2>1, <2>2, <2>3, Zenon DEF Served
    <2> QED BY <2>1, <2>4, Zenon DEF Has
  <1> QED BY <1>1, InitInv, StepInv, PTL DEF Spec

(* A node that every coordinator knew before it announced anything never
   searches for a trigger past the end of its vector. *)
THEOREM SearchesEnd ==
  ASSUME OwnBuckets, TimedRegistered
  PROVE  Spec => []NodesSurvive
  <1>1. IInv => NodesSurvive
    BY Zenon DEF IInv
  <1> QED BY <1>1, InitInv, StepInv, PTL DEF Spec
=============================================================================
