-------------------------- MODULE Interleaver_proof --------------------------
(***************************************************************************)
(* What interleave_packets() keeps, for every number of tracks, every      *)
(* duration of a packet and every order in which the packets come.         *)
(***************************************************************************)
EXTENDS Interleaver, Sums_proof

-----------------------------------------------------------------------------
(* Least and greatest elements *)

LEMMA LeastIn ==
  ASSUME NEW T \in SUBSET Nat, T # {}
  PROVE  Min(T) \in T /\ \A y \in T : Min(T) <= y
BY LeastElement DEF Min

(* A function on 1 .. n and a number have a greatest value. *)
LEMMA GreatestOf ==
  ASSUME NEW n \in Nat, NEW f, NEW T \in SUBSET (1 .. n), NEW b \in Int,
         \A i \in T : f[i] \in Int
  PROVE  LET S == {b} \cup {f[i] : i \in T} IN Max(S) \in S /\ \A y \in S : y <= Max(S)
<1> DEFINE U(m) == {b} \cup {f[i] : i \in T \cap (1 .. m)}
           W == {m \in 0 .. n : \E x \in U(m) : \A y \in U(m) : y <= x}
<1>1. 0 \in W
  <2>1. U(0) = {b}
    OBVIOUS
  <2> QED BY <2>1
<1>2. ASSUME NEW m \in 1 .. n, m - 1 \in W
      PROVE  m \in W
  <2>1. PICK x \in U(m - 1) : \A y \in U(m - 1) : y <= x
    BY <1>2
  <2>2. \A i \in T \cap (1 .. m) : i = m \/ i \in T \cap (1 .. m - 1)
    OBVIOUS
  <2>3. U(m - 1) \subseteq U(m) /\ \A y \in U(m) : y \in U(m - 1) \/ (m \in T /\ y = f[m])
    BY <2>2
  <2>4. \A y \in U(m) : y \in Int
    OBVIOUS
  <2>5. m \in T => f[m] \in U(m)
    OBVIOUS
  <2> HIDE DEF U
  <2>6. CASE m \in T /\ x < f[m]
    <3>1. \A y \in U(m) : y <= f[m]
      BY <2>1, <2>3, <2>4, <2>5, <2>6
    <3> QED BY <2>5, <2>6, <3>1
  <2>7. CASE ~ (m \in T /\ x < f[m])
    <3>1. \A y \in U(m) : y <= x
      BY <2>1, <2>3, <2>4, <2>5, <2>7
    <3> QED BY <2>1, <2>3, <3>1
  <2> QED BY <2>6, <2>7
<1>3. n \in W
  <2> HIDE DEF W
  <2>1. \A m \in 0 .. n : m \in W
    BY <1>1, <1>2, IntervalInduction
  <2> QED BY <2>1
<1>4. U(n) = {b} \cup {f[i] : i \in T}
  <2>1. T \cap (1 .. n) = T
    OBVIOUS
  <2> QED BY <2>1
<1>5. PICK x \in U(n) : \A y \in U(n) : y <= x
  BY <1>3
<1>6. \A y \in U(n) : y \in Int
  OBVIOUS
<1> HIDE DEF U
<1>7. \A y \in U(n) : x >= y
  BY <1>5, <1>6
<1>8. Max(U(n)) \in U(n) /\ \A y \in U(n) : Max(U(n)) >= y
  BY <1>5, <1>7 DEF Max
<1>9. \A y \in U(n) : y <= Max(U(n))
  BY <1>6, <1>8
<1> QED BY <1>4, <1>8, <1>9

LEMMA GreatestIn ==
  ASSUME NEW n \in Nat, NEW T \in SUBSET (1 .. n), T # {}
  PROVE  Max(T) \in T /\ \A y \in T : y <= Max(T)
<1> DEFINE id == [i \in 1 .. n |-> i]
<1>1. PICK b \in T : TRUE
  OBVIOUS
<1>2. T = {b} \cup {id[i] : i \in T}
  OBVIOUS
<1>3. b \in Int /\ \A i \in T : id[i] \in Int
  OBVIOUS
<1> HIDE DEF id
<1> QED BY <1>2, <1>3, GreatestOf, ZenonT(40)

-----------------------------------------------------------------------------
(* The list of packets *)

LEMMA FromIs ==
  ASSUME NEW S, NEW seq \in Seq(S), NEW m \in 1 .. Len(seq) + 1
  PROVE  /\ From(seq, m) \in Seq(S) /\ Len(From(seq, m)) = Len(seq) - m + 1
         /\ \A i \in 1 .. Len(seq) - m + 1 : From(seq, m)[i] = seq[m - 1 + i]
<1>1. Len(seq) \in Nat /\ \A i \in 1 .. Len(seq) : seq[i] \in S
  OBVIOUS
<1>2. From(seq, m) = [i \in 1 .. Len(seq) - m + 1 |-> seq[m - 1 + i]]
  <2>1. \A i \in 1 .. Len(seq) - m + 1 : i + m - 1 = m - 1 + i
    BY <1>1
  <2> QED BY <1>1, <2>1 DEF From
<1>3. \A i \in 1 .. Len(seq) - m + 1 : m - 1 + i \in 1 .. Len(seq)
  BY <1>1
<1> QED BY <1>1, <1>2, <1>3

(* p stands at place k, what was there and behind it is one further. *)
InsertedAt(new, old, p, k) ==
  /\ new \in Seq(Packet) /\ Len(new) = Len(old) + 1 /\ k \in 1 .. Len(old) + 1
  /\ \A i \in 1 .. Len(old) + 1 :
       new[i] = IF i < k THEN old[i] ELSE IF i = k THEN p ELSE old[i - 1]

LEMMA InsertIs ==
  ASSUME NEW seq \in Seq(Packet), NEW p \in Packet
  PROVE  \E k \in 1 .. Len(seq) + 1 :
           /\ InsertedAt(Insert(seq, p), seq, p, k)
           /\ \A i \in 1 .. k - 1 : ~ StopsAt(p, seq[i])
           /\ k <= Len(seq) => StopsAt(p, seq[k])
<1> DEFINE len == Len(seq)
           behind == {i \in DOMAIN seq : StopsAt(p, seq[i])}
           k == IF behind = {} THEN len + 1 ELSE Min(behind)
<1>1. len \in Nat /\ DOMAIN seq = 1 .. len /\ \A i \in 1 .. len : seq[i] \in Packet
  OBVIOUS
<1>2. /\ k \in 1 .. len + 1 /\ \A i \in 1 .. k - 1 : ~ StopsAt(p, seq[i])
      /\ k <= len => StopsAt(p, seq[k])
  <2>1. CASE behind = {}
    <3>1. \A i \in 1 .. len : ~ StopsAt(p, seq[i])
      BY <1>1, <2>1
    <3> QED BY <1>1, <2>1, <3>1
  <2>2. CASE behind # {}
    <3>1. behind \in SUBSET Nat
      BY <1>1
    <3>2. k \in behind /\ \A y \in behind : k <= y
      BY <2>2, <3>1, LeastIn
    <3>3. k \in 1 .. len /\ StopsAt(p, seq[k])
      BY <1>1, <3>2
    <3>4. ASSUME NEW i \in 1 .. k - 1 PROVE ~ StopsAt(p, seq[i])
      <4>1. i \in 1 .. len /\ ~ (k <= i)
        BY <1>1, <3>3
      <4>2. i \notin behind
        BY <3>2, <4>1
      <4> QED BY <1>1, <4>1, <4>2
    <3> HIDE DEF k
    <3> QED BY <3>3, <3>4, <1>1
  <2> QED BY <2>1, <2>2
<1>3. Insert(seq, p) = SubSeq(seq, 1, k - 1) \o <<p>> \o SubSeq(seq, k, len)
  BY DEF Insert
<1> HIDE DEF k, behind
<1> DEFINE front == SubSeq(seq, 1, k - 1)
           rear == SubSeq(seq, k, len)
<1>4. front \in Seq(Packet) /\ Len(front) = k - 1 /\ \A i \in 1 .. k - 1 : front[i] = seq[i]
  <2>1. front = [i \in 1 .. k - 1 |-> seq[i]]
    BY <1>1, <1>2
  <2>2. \A i \in 1 .. k - 1 : seq[i] \in Packet
    BY <1>1, <1>2
  <2> HIDE DEF front
  <2> QED BY <1>2, <2>1, <2>2
<1>5. /\ rear \in Seq(Packet) /\ Len(rear) = len - k + 1
      /\ \A i \in 1 .. len - k + 1 : rear[i] = seq[k - 1 + i]
  BY <1>2, FromIs DEF From
<1>6. <<p>> \in Seq(Packet) /\ Len(<<p>>) = 1 /\ <<p>>[1] = p
  OBVIOUS
<1> HIDE DEF front, rear
<1> DEFINE first == front \o <<p>>
<1>7. first \in Seq(Packet) /\ Len(first) = k
      /\ \A i \in 1 .. k : first[i] = IF i < k THEN seq[i] ELSE p
  <2>1. first \in Seq(Packet) /\ Len(first) = k
    BY <1>2, <1>4, <1>6, ConcatProperties
  <2>2. \A i \in 1 .. Len(front) + 1 : first[i] = IF i <= Len(front) THEN front[i] ELSE <<p>>[i - Len(front)]
    BY <1>4, <1>6, ConcatProperties
  <2> HIDE DEF first
  <2>3. ASSUME NEW i \in 1 .. k PROVE first[i] = IF i < k THEN seq[i] ELSE p
    <3>1. CASE i < k
      BY <1>2, <1>4, <2>2, <3>1
    <3>2. CASE i = k
      <4>1. Len(front) + 1 = k /\ ~ (k <= Len(front)) /\ k - Len(front) = 1 /\ k \in 1 .. Len(front) + 1
        BY <1>2, <1>4
      <4>2. first[k] = <<p>>[1]
        BY <2>2, <4>1
      <4> QED BY <1>2, <1>6, <3>2, <4>2
    <3> QED BY <1>2, <3>1, <3>2
  <2> QED BY <2>1, <2>3
<1> HIDE DEF first
<1>8. /\ first \o rear \in Seq(Packet) /\ Len(first \o rear) = len + 1
      /\ \A i \in 1 .. len + 1 :
           (first \o rear)[i] = IF i <= k THEN first[i] ELSE rear[i - k]
  <2>1. Len(first) + Len(rear) = len + 1
    BY <1>1, <1>2, <1>5, <1>7
  <2>2. /\ first \o rear \in Seq(Packet) /\ Len(first \o rear) = Len(first) + Len(rear)
        /\ \A i \in 1 .. Len(first) + Len(rear) :
             (first \o rear)[i] = IF i <= Len(first) THEN first[i] ELSE rear[i - Len(first)]
    BY <1>5, <1>7, ConcatProperties
  <2> QED BY <1>7, <2>1, <2>2
<1>9. ASSUME NEW i \in 1 .. len + 1
      PROVE  (first \o rear)[i] = IF i < k THEN seq[i] ELSE IF i = k THEN p ELSE seq[i - 1]
  <2>1. CASE i <= k
    BY <1>2, <1>7, <1>8, <2>1
  <2>2. CASE i > k
    <3>1. i - k \in 1 .. len - k + 1 /\ k - 1 + (i - k) = i - 1
      BY <1>1, <1>2, <2>2
    <3>2. rear[i - k] = seq[i - 1]
      BY <1>5, <3>1
    <3>3. (first \o rear)[i] = rear[i - k]
      BY <1>2, <1>8, <2>2
    <3> QED BY <1>2, <2>2, <3>2, <3>3
  <2>3. i <= k \/ i > k
    BY <1>1, <1>2
  <2> QED BY <2>1, <2>2, <2>3
<1>10. InsertedAt(first \o rear, seq, p, k)
  BY <1>2, <1>8, <1>9 DEF InsertedAt
<1>11. Insert(seq, p) = first \o rear
  BY <1>3 DEF first, front, rear
<1> QED BY <1>2, <1>10, <1>11

Ordered(seq) == \A i, j \in DOMAIN seq : i < j => seq[i].ts <= seq[j].ts

LEMMA PacketFields ==
  \A p \in Packet : p.stream \in Streams /\ p.at \in Nat /\ p.dts \in Int /\ p.ts \in Int
BY DEF Packet

(* Where p was inserted, what is before is not later, what is behind not    *)
(* earlier; a packet of the same stream behind it is later.                 *)
LEMMA InsertOrders ==
  ASSUME NEW seq \in Seq(Packet), NEW p \in Packet, Ordered(seq)
  PROVE  \E k \in 1 .. Len(seq) + 1 :
           /\ InsertedAt(Insert(seq, p), seq, p, k)
           /\ \A i \in 1 .. k - 1 : seq[i].ts <= p.ts
           /\ \A i \in k .. Len(seq) : p.ts <= seq[i].ts
<1>1. Len(seq) \in Nat /\ DOMAIN seq = 1 .. Len(seq) /\ \A i \in 1 .. Len(seq) : seq[i] \in Packet
  OBVIOUS
<1>2. PICK k \in 1 .. Len(seq) + 1 :
           /\ InsertedAt(Insert(seq, p), seq, p, k)
           /\ \A i \in 1 .. k - 1 : ~ StopsAt(p, seq[i])
           /\ k <= Len(seq) => StopsAt(p, seq[k])
  BY InsertIs
<1>3. ASSUME NEW i \in 1 .. k - 1 PROVE seq[i].ts <= p.ts
  <2>1. seq[i] \in Packet /\ ~ StopsAt(p, seq[i])
    BY <1>1, <1>2
  <2> QED BY <2>1, PacketFields DEF StopsAt
<1>4. ASSUME NEW i \in k .. Len(seq) PROVE p.ts <= seq[i].ts
  <2>1. k \in 1 .. Len(seq) /\ i \in 1 .. Len(seq) /\ StopsAt(p, seq[k])
    BY <1>1, <1>2
  <2>2. p.ts <= seq[k].ts
    BY <1>1, <2>1, PacketFields DEF StopsAt
  <2>3. seq[k].ts <= seq[i].ts
    <3>1. CASE k = i
      BY <1>1, <2>1, <3>1, PacketFields
    <3>2. CASE k < i
      BY <1>1, <2>1, <3>2 DEF Ordered
    <3> QED BY <2>1, <3>1, <3>2
  <2> QED BY <1>1, <2>1, <2>2, <2>3, PacketFields
<1> QED BY <1>2, <1>3, <1>4

LEMMA InsertOrdered ==
  ASSUME NEW seq \in Seq(Packet), NEW new, NEW p \in Packet, NEW k, Ordered(seq),
         InsertedAt(new, seq, p, k),
         \A i \in 1 .. k - 1 : seq[i].ts <= p.ts,
         \A i \in k .. Len(seq) : p.ts <= seq[i].ts
  PROVE  Ordered(new)
<1>1. Len(seq) \in Nat /\ DOMAIN seq = 1 .. Len(seq) /\ \A i \in 1 .. Len(seq) : seq[i] \in Packet
  OBVIOUS
<1>2. DOMAIN new = 1 .. Len(seq) + 1 /\ k \in 1 .. Len(seq) + 1
  BY <1>1 DEF InsertedAt
<1> SUFFICES ASSUME NEW i \in 1 .. Len(seq) + 1, NEW j \in 1 .. Len(seq) + 1, i < j
             PROVE  new[i].ts <= new[j].ts
  BY <1>2 DEF Ordered
<1>3. /\ new[i] = IF i < k THEN seq[i] ELSE IF i = k THEN p ELSE seq[i - 1]
      /\ new[j] = IF j < k THEN seq[j] ELSE IF j = k THEN p ELSE seq[j - 1]
  BY DEF InsertedAt
<1>4. CASE j < k
  <2>1. i \in DOMAIN seq /\ j \in DOMAIN seq /\ i < k
    BY <1>1, <1>2, <1>4
  <2> QED BY <1>3, <1>4, <2>1 DEF Ordered
<1>5. CASE j = k
  BY <1>2, <1>3, <1>5
<1>6. CASE j > k /\ i < k
  <2>1. i \in 1 .. k - 1 /\ j - 1 \in k .. Len(seq) /\ i \in DOMAIN seq /\ j - 1 \in DOMAIN seq /\ i < j - 1
    BY <1>1, <1>2, <1>6
  <2>2. seq[i].ts <= seq[j - 1].ts
    BY <2>1 DEF Ordered
  <2> QED BY <1>2, <1>3, <1>6, <2>2
<1>7. CASE j > k /\ i = k
  BY <1>1, <1>2, <1>3, <1>7
<1>8. CASE i > k
  <2>1. i - 1 \in DOMAIN seq /\ j - 1 \in DOMAIN seq /\ i - 1 < j - 1
    BY <1>1, <1>2, <1>8
  <2>2. seq[i - 1].ts <= seq[j - 1].ts
    BY <2>1 DEF Ordered
  <2>3. j > k
    BY <1>2, <1>8
  <2> QED BY <1>2, <1>3, <1>8, <2>2, <2>3
<1> QED BY <1>2, <1>4, <1>5, <1>6, <1>7, <1>8

-----------------------------------------------------------------------------
(* resort_interleaved_packets() orders the packets and loses none. *)

Sorted(new, f, seq, m) ==
  /\ new \in Seq(Packet) /\ Len(new) = m /\ Ordered(new)
  /\ f \in [1 .. m -> 1 .. m] /\ \A i \in 1 .. m : new[i] = seq[f[i]]
  /\ \A i, j \in 1 .. m : f[i] = f[j] => i = j
  /\ \A l \in 1 .. m : \E i \in 1 .. m : f[i] = l

LEMMA SortedInsert ==
  ASSUME NEW seq \in Seq(Packet), NEW old, NEW f, NEW m \in 1 .. Len(seq),
         Sorted(old, f, seq, m - 1)
  PROVE  \E g : Sorted(Insert(old, seq[m]), g, seq, m)
<1>1. m \in Nat /\ seq[m] \in Packet /\ Len(old) = m - 1 /\ old \in Seq(Packet) /\ Ordered(old)
  BY DEF Sorted
<1>2. PICK k \in 1 .. Len(old) + 1 :
           /\ InsertedAt(Insert(old, seq[m]), old, seq[m], k)
           /\ \A i \in 1 .. k - 1 : old[i].ts <= seq[m].ts
           /\ \A i \in k .. Len(old) : seq[m].ts <= old[i].ts
  BY <1>1, InsertOrders
<1> DEFINE new == Insert(old, seq[m])
           g == [i \in 1 .. m |-> IF i < k THEN f[i] ELSE IF i = k THEN m ELSE f[i - 1]]
<1>3. k \in 1 .. m
  BY <1>1, <1>2
<1>4. new \in Seq(Packet) /\ Len(new) = m
      /\ \A i \in 1 .. m : new[i] = IF i < k THEN old[i] ELSE IF i = k THEN seq[m] ELSE old[i - 1]
  <2>1. Len(old) + 1 = m
    BY <1>1
  <2> QED BY <1>2, <2>1 DEF InsertedAt
<1>5. Ordered(new)
  BY <1>1, <1>2, InsertOrdered
<1> HIDE DEF new
<1>6. /\ \A i \in 1 .. m - 1 : f[i] \in 1 .. m - 1 /\ old[i] = seq[f[i]]
      /\ \A i, j \in 1 .. m - 1 : f[i] = f[j] => i = j
      /\ \A l \in 1 .. m - 1 : \E i \in 1 .. m - 1 : f[i] = l
  BY DEF Sorted
<1>7. \A i \in 1 .. m : \/ i < k /\ i \in 1 .. m - 1
                        \/ i = k
                        \/ i > k /\ i - 1 \in 1 .. m - 1
  BY <1>3
<1>8. \A i \in 1 .. m : g[i] = IF i < k THEN f[i] ELSE IF i = k THEN m ELSE f[i - 1]
  OBVIOUS
<1> DEFINE dom == 1 .. m
<1>9. g = [i \in dom |-> g[i]]
  OBVIOUS
<1> HIDE DEF g
<1>10. ASSUME NEW i \in 1 .. m PROVE g[i] \in 1 .. m /\ new[i] = seq[g[i]]
  <2>1. CASE i < k /\ i \in 1 .. m - 1
    <3>1. g[i] = f[i] /\ new[i] = old[i]
      BY <1>4, <1>8, <2>1
    <3>2. f[i] \in 1 .. m - 1 /\ old[i] = seq[f[i]]
      BY <1>6, <2>1
    <3> QED BY <1>1, <3>1, <3>2
  <2>2. CASE i = k
    BY <1>3, <1>4, <1>8, <2>2
  <2>3. CASE i > k /\ i - 1 \in 1 .. m - 1
    <3>1. ~ (i < k) /\ i # k
      BY <1>3, <2>3
    <3>2. g[i] = f[i - 1] /\ new[i] = old[i - 1]
      BY <1>4, <1>8, <3>1
    <3>3. f[i - 1] \in 1 .. m - 1 /\ old[i - 1] = seq[f[i - 1]]
      BY <1>6, <2>3
    <3> QED BY <1>1, <3>2, <3>3
  <2> QED BY <1>7, <2>1, <2>2, <2>3
<1>11. ASSUME NEW i \in 1 .. m, NEW j \in 1 .. m, g[i] = g[j]
       PROVE  i = j
  <2>1. \A l \in 1 .. m - 1 : l # m /\ f[l] # m
    <3>1. \A l \in 1 .. m - 1 : l # m
      BY <1>1
    <3> QED BY <1>6, <3>1
  <2>2. CASE i = k
    <3>1. g[j] = m
      BY <1>3, <1>8, <1>11, <2>2
    <3> QED BY <1>3, <1>7, <1>8, <2>1, <2>2, <3>1
  <2>3. CASE j = k
    <3>1. g[i] = m
      BY <1>3, <1>8, <1>11, <2>3
    <3> QED BY <1>3, <1>7, <1>8, <2>1, <2>3, <3>1
  <2>4. CASE i < k /\ j < k
    <3>1. f[i] = f[j] /\ i \in 1 .. m - 1 /\ j \in 1 .. m - 1
      BY <1>3, <1>7, <1>8, <1>11, <2>4
    <3> QED BY <1>6, <3>1
  <2>5. CASE i < k /\ j > k
    <3>1. f[i] = f[j - 1] /\ i \in 1 .. m - 1 /\ j - 1 \in 1 .. m - 1
      BY <1>3, <1>7, <1>8, <1>11, <2>5
    <3>2. i = j - 1
      BY <1>6, <3>1
    <3> QED BY <1>3, <2>5, <3>2
  <2>6. CASE i > k /\ j < k
    <3>1. f[i - 1] = f[j] /\ j \in 1 .. m - 1 /\ i - 1 \in 1 .. m - 1
      BY <1>3, <1>7, <1>8, <1>11, <2>6
    <3>2. i - 1 = j
      BY <1>6, <3>1
    <3> QED BY <1>3, <2>6, <3>2
  <2>7. CASE i > k /\ j > k
    <3>1. f[i - 1] = f[j - 1] /\ i - 1 \in 1 .. m - 1 /\ j - 1 \in 1 .. m - 1
      BY <1>3, <1>7, <1>8, <1>11, <2>7
    <3>2. i - 1 = j - 1
      BY <1>6, <3>1
    <3> QED BY <1>1, <3>2
  <2> QED BY <1>3, <2>2, <2>3, <2>4, <2>5, <2>6, <2>7
<1>12. ASSUME NEW l \in 1 .. m PROVE \E i \in 1 .. m : g[i] = l
  <2>1. CASE l = m
    BY <1>3, <1>8, <2>1
  <2>2. CASE l # m
    <3>1. l \in 1 .. m - 1
      BY <1>1, <2>2
    <3>2. PICK i \in 1 .. m - 1 : f[i] = l
      BY <1>6, <3>1
    <3>3. CASE i < k
      <4>1. i \in 1 .. m /\ g[i] = l
        BY <1>1, <1>8, <3>2, <3>3
      <4> QED BY <4>1
    <3>4. CASE i >= k
      <4>1. i + 1 \in 1 .. m /\ ~ (i + 1 < k) /\ i + 1 # k /\ i + 1 - 1 = i
        BY <1>1, <1>3, <3>4
      <4>2. g[i + 1] = l
        BY <1>8, <3>2, <4>1
      <4> QED BY <4>1, <4>2
    <3> QED BY <1>3, <3>3, <3>4
  <2> QED BY <2>1, <2>2
<1>13. Sorted(new, g, seq, m)
  <2>1. g \in [1 .. m -> 1 .. m]
    BY <1>9, <1>10
  <2> QED BY <1>4, <1>5, <1>10, <1>11, <1>12, <2>1 DEF Sorted
<1> QED BY <1>13 DEF new

IsSorting(c, seq, n) ==
  c = [i \in 0 .. n |-> IF i = 0 THEN << >> ELSE Insert(c[i - 1], seq[i])]

LEMMA SortingExists ==
  ASSUME NEW seq, NEW n \in Nat
  PROVE  \E c : IsSorting(c, seq, n)
<1> DEFINE T == {m \in 0 .. n : \E c : IsSorting(c, seq, m)}
<1>1. 0 \in T
  <2>1. IsSorting([i \in 0 .. 0 |-> << >>], seq, 0)
    BY DEF IsSorting
  <2> QED BY <2>1
<1>2. ASSUME NEW m \in 1 .. n, m - 1 \in T
      PROVE  m \in T
  <2>1. PICK c : IsSorting(c, seq, m - 1)
    BY <1>2
  <2> DEFINE h == [i \in 0 .. m |-> IF i = m THEN Insert(c[m - 1], seq[m]) ELSE c[i]]
  <2>2. \A i \in 0 .. m - 1 :
          /\ h[i] = c[i]
          /\ c[i] = IF i = 0 THEN << >> ELSE Insert(c[i - 1], seq[i])
    BY <2>1 DEF IsSorting
  <2>3. h[m] = Insert(c[m - 1], seq[m]) /\ \A i \in 1 .. m : h[i - 1] = c[i - 1]
    <3>1. \A i \in 1 .. m : i - 1 \in 0 .. m - 1
      OBVIOUS
    <3> QED BY <2>2, <3>1
  <2>4. h = [i \in 0 .. m |-> h[i]]
    OBVIOUS
  <2> HIDE DEF h
  <2>5. \A i \in 0 .. m : h[i] = IF i = 0 THEN << >> ELSE Insert(h[i - 1], seq[i])
    <3> TAKE i \in 0 .. m
    <3>1. CASE i = m
      BY <2>3, <3>1
    <3>2. CASE i = 0
      BY <2>2, <3>2
    <3>3. CASE i \in 1 .. m - 1
      BY <2>2, <2>3, <3>3
    <3> QED BY <3>1, <3>2, <3>3
  <2>6. IsSorting(h, seq, m)
    BY <2>4, <2>5 DEF IsSorting
  <2> QED BY <2>6
<1> HIDE DEF T
<1>3. n \in T
  <2>1. \A m \in 0 .. n : m \in T
    BY <1>1, <1>2, IntervalInduction
  <2> QED BY <2>1
<1> QED BY <1>3 DEF T

LEMMA ResortSorts ==
  ASSUME NEW seq \in Seq(Packet)
  PROVE  \E f : Sorted(Resort(seq), f, seq, Len(seq))
<1> DEFINE n == Len(seq)
           c == CHOOSE g : IsSorting(g, seq, n)
           T == {m \in 0 .. n : \E f : Sorted(c[m], f, seq, m)}
<1>1. n \in Nat
  OBVIOUS
<1>2. IsSorting(c, seq, n)
  BY <1>1, SortingExists
<1>3. Resort(seq) = c[n]
  BY DEF Resort, IsSorting
<1> HIDE DEF c
<1>4. 0 \in T
  <2>1. c[0] = << >>
    BY <1>1, <1>2 DEF IsSorting
  <2>2. << >> \in Seq(Packet) /\ Len(<< >>) = 0 /\ Ordered(<< >>)
    BY DEF Ordered
  <2>3. << >> \in [1 .. 0 -> 1 .. 0]
    OBVIOUS
  <2>4. Sorted(<< >>, << >>, seq, 0)
    BY <2>2, <2>3 DEF Sorted
  <2> QED BY <1>1, <2>1, <2>4
<1>5. ASSUME NEW m \in 1 .. n, m - 1 \in T
      PROVE  m \in T
  <2>1. PICK f : Sorted(c[m - 1], f, seq, m - 1)
    BY <1>5
  <2>2. c[m] = Insert(c[m - 1], seq[m])
    BY <1>1, <1>2 DEF IsSorting
  <2>3. \E g : Sorted(Insert(c[m - 1], seq[m]), g, seq, m)
    BY <2>1, SortedInsert
  <2> QED BY <2>2, <2>3
<1> HIDE DEF T
<1>6. n \in T
  <2>1. \A m \in 0 .. n : m \in T
    BY <1>1, <1>4, <1>5, IntervalInduction
  <2> QED BY <1>1, <2>1
<1> QED BY <1>3, <1>6 DEF T

-----------------------------------------------------------------------------
(* The packets of a stream in a list: a duration apart at least, none from  *)
(* n on, and each of them followed by the next one or by n.                 *)

Line(seq, s, n) ==
  /\ \A i, j \in IndicesOf(seq, s) : i < j => seq[i].at + Frame(s) <= seq[j].at
  /\ \A i \in IndicesOf(seq, s) :
       /\ seq[i].at + Frame(s) <= n
       /\ seq[i].at + Frame(s) # n => \E j \in IndicesOf(seq, s) : seq[j].at = seq[i].at + Frame(s)

LEMMA FrameType == \A s \in Streams : Frame(s) \in Nat /\ Frame(s) > 0
BY FramesAssumption DEF Frame, Streams

LEMMA Indices ==
  ASSUME NEW S, NEW seq \in Seq(S), NEW s
  PROVE  /\ IndicesOf(seq, s) \subseteq 1 .. Len(seq)
         /\ \A i \in 1 .. Len(seq) : i \in IndicesOf(seq, s) <=> seq[i].stream = s
BY DEF IndicesOf

LEMMA LineFrom ==
  ASSUME NEW seq \in Seq(Packet), NEW m \in 1 .. Len(seq) + 1, NEW s \in Streams, NEW n,
         Line(seq, s, n)
  PROVE  Line(From(seq, m), s, n)
<1> DEFINE new == From(seq, m)
<1>1. Len(seq) \in Nat /\ \A i \in 1 .. Len(seq) : seq[i] \in Packet
  OBVIOUS
<1>2. new \in Seq(Packet) /\ Len(new) = Len(seq) - m + 1
      /\ \A i \in 1 .. Len(seq) - m + 1 : new[i] = seq[m - 1 + i]
  BY FromIs
<1> HIDE DEF new
<1>3. \A i \in IndicesOf(new, s) :
        i \in Nat /\ i > 0 /\ m - 1 + i \in IndicesOf(seq, s) /\ new[i] = seq[m - 1 + i] /\ new[i].at \in Nat
  <2> TAKE i \in IndicesOf(new, s)
  <2>1. i \in 1 .. Len(seq) - m + 1 /\ new[i].stream = s
    BY <1>2, Indices
  <2>2. m - 1 + i \in 1 .. Len(seq)
    BY <1>1, <2>1
  <2> QED BY <1>1, <1>2, <2>1, <2>2, Indices, PacketFields
<1>4. ASSUME NEW i \in IndicesOf(new, s), NEW j \in IndicesOf(new, s), i < j
      PROVE  new[i].at + Frame(s) <= new[j].at
  <2>1. m - 1 + i < m - 1 + j
    BY <1>1, <1>3, <1>4
  <2> QED BY <1>3, <2>1 DEF Line
<1>5. ASSUME NEW i \in IndicesOf(new, s)
      PROVE  /\ new[i].at + Frame(s) <= n
             /\ new[i].at + Frame(s) # n =>
                  \E j \in IndicesOf(new, s) : new[j].at = new[i].at + Frame(s)
  <2>1. new[i].at + Frame(s) <= n
    BY <1>3 DEF Line
  <2>2. ASSUME new[i].at + Frame(s) # n
        PROVE  \E j \in IndicesOf(new, s) : new[j].at = new[i].at + Frame(s)
    <3> DEFINE q == m - 1 + i
    <3>0. q \in Nat /\ q >= m /\ q \in IndicesOf(seq, s) /\ new[i] = seq[q] /\ seq[q].at \in Nat
      BY <1>3
    <3> HIDE DEF q
    <3>1. PICK l \in IndicesOf(seq, s) : seq[l].at = seq[q].at + Frame(s)
      BY <2>2, <3>0 DEF Line
    <3>2. l \in 1 .. Len(seq) /\ seq[l].stream = s /\ seq[l].at \in Nat
      BY <1>1, Indices, PacketFields
    <3>3. ~ (l < q)
      <4>1. l < q => seq[l].at + Frame(s) <= seq[q].at
        BY <3>0 DEF Line
      <4>2. Frame(s) \in Nat /\ Frame(s) > 0
        BY FrameType
      <4> QED BY <3>0, <3>1, <3>2, <4>1, <4>2
    <3>4. l - m + 1 \in 1 .. Len(seq) - m + 1 /\ m - 1 + (l - m + 1) = l
      <4>1. l >= m
        BY <3>0, <3>2, <3>3
      <4> QED BY <3>2, <4>1
    <3>5. new[l - m + 1] = seq[l]
      BY <1>2, <3>4
    <3>6. l - m + 1 \in IndicesOf(new, s)
      BY <1>2, <3>2, <3>4, <3>5, Indices
    <3> QED BY <3>0, <3>1, <3>5, <3>6
  <2> QED BY <2>1, <2>2
<1> QED BY <1>4, <1>5 DEF Line, new

(* A packet behind all others of its stream, the one that was due. *)
LEMMA LineInsert ==
  ASSUME NEW old \in Seq(Packet), NEW new, NEW p \in Packet, NEW k, NEW s \in Streams, NEW n \in Nat,
         InsertedAt(new, old, p, k), Line(old, s, n),
         p.stream = s => p.at = n /\ \A i \in k .. Len(old) : old[i].stream # s
  PROVE  Line(new, s, IF p.stream = s THEN n + Frame(s) ELSE n)
<1>1. Len(old) \in Nat /\ \A i \in 1 .. Len(old) : old[i] \in Packet
  OBVIOUS
<1>2. new \in Seq(Packet) /\ Len(new) = Len(old) + 1 /\ k \in 1 .. Len(old) + 1
      /\ \A i \in 1 .. Len(old) + 1 :
           new[i] = IF i < k THEN old[i] ELSE IF i = k THEN p ELSE old[i - 1]
  BY DEF InsertedAt
<1> DEFINE was(i) == IF i < k THEN i ELSE i - 1
           is(i) == IF i < k THEN i ELSE i + 1
<1>3. \A i \in IndicesOf(new, s) :
        \/ i = k /\ p.stream = s /\ new[i] = p
        \/ i # k /\ was(i) \in IndicesOf(old, s) /\ new[i] = old[was(i)]
  <2> TAKE i \in IndicesOf(new, s)
  <2>1. i \in 1 .. Len(old) + 1 /\ new[i].stream = s
    BY <1>2, Indices
  <2>2. CASE i = k
    BY <1>2, <2>1, <2>2
  <2>3. CASE i # k
    <3>1. was(i) \in 1 .. Len(old) /\ new[i] = old[was(i)]
      BY <1>1, <1>2, <2>1, <2>3
    <3> QED BY <2>1, <2>3, <3>1, Indices
  <2> QED BY <2>2, <2>3
<1>4. \A i \in IndicesOf(old, s) :
        is(i) \in IndicesOf(new, s) /\ new[is(i)] = old[i] /\ (p.stream = s => i < k)
  <2> TAKE i \in IndicesOf(old, s)
  <2>1. i \in 1 .. Len(old) /\ old[i].stream = s
    BY Indices
  <2>2. is(i) \in 1 .. Len(old) + 1 /\ new[is(i)] = old[i]
    BY <1>1, <1>2, <2>1
  <2>3. is(i) \in IndicesOf(new, s)
    BY <1>2, <2>1, <2>2, Indices
  <2>4. p.stream = s => i < k
    BY <1>1, <1>2, <2>1
  <2> QED BY <2>2, <2>3, <2>4
<1>5. p.stream = s => k \in IndicesOf(new, s) /\ new[k] = p
  BY <1>1, <1>2, Indices
<1>6. \A i \in IndicesOf(old, s) : i \in Nat /\ old[i].at \in Nat /\ old[i].at + Frame(s) <= n
  BY <1>1, Indices, PacketFields DEF Line
<1>7. IndicesOf(new, s) \subseteq Nat /\ k \in Nat /\ Frame(s) \in Nat /\ p.at \in Nat
  BY <1>1, <1>2, Indices, FrameType, PacketFields
<1>8. ASSUME NEW i \in IndicesOf(new, s), NEW j \in IndicesOf(new, s), i < j
      PROVE  new[i].at + Frame(s) <= new[j].at
  <2>1. CASE j = k
    <3>1. new[j] = p /\ p.stream = s /\ i # k
      BY <1>3, <1>7, <1>8, <2>1
    <3>2. was(i) \in IndicesOf(old, s) /\ new[i] = old[was(i)]
      BY <1>3, <3>1
    <3> QED BY <1>6, <3>1, <3>2
  <2>2. CASE i = k
    <3>1. p.stream = s /\ was(j) \in IndicesOf(old, s)
      BY <1>3, <1>7, <1>8, <2>2
    <3>2. was(j) < k
      BY <1>4, <3>1
    <3>3. was(j) = j - 1
      BY <1>7, <1>8, <2>2
    <3> QED BY <1>7, <1>8, <2>2, <3>2, <3>3
  <2>3. CASE i # k /\ j # k
    <3>1. /\ was(i) \in IndicesOf(old, s) /\ new[i] = old[was(i)]
          /\ was(j) \in IndicesOf(old, s) /\ new[j] = old[was(j)]
      BY <1>3, <2>3
    <3>2. was(i) < was(j)
      BY <1>7, <1>8, <2>3
    <3> HIDE DEF was
    <3> QED BY <3>1, <3>2 DEF Line
  <2> QED BY <2>1, <2>2, <2>3
<1> DEFINE last == IF p.stream = s THEN n + Frame(s) ELSE n
<1>9. ASSUME NEW i \in IndicesOf(new, s)
      PROVE  /\ new[i].at + Frame(s) <= last
             /\ new[i].at + Frame(s) # last =>
                  \E j \in IndicesOf(new, s) : new[j].at = new[i].at + Frame(s)
  <2>1. CASE i = k
    BY <1>3, <1>7, <2>1
  <2>2. CASE i # k
    <3>1. was(i) \in IndicesOf(old, s) /\ new[i] = old[was(i)]
      BY <1>3, <2>2
    <3> HIDE DEF was
    <3>2. new[i].at + Frame(s) <= n /\ n <= last
      BY <1>6, <1>7, <3>1
    <3>3. CASE new[i].at + Frame(s) = n
      BY <1>5, <1>7, <3>2, <3>3
    <3>4. CASE new[i].at + Frame(s) # n
      <4>1. PICK j \in IndicesOf(old, s) : old[j].at = old[was(i)].at + Frame(s)
        BY <3>1, <3>4 DEF Line
      <4>2. is(j) \in IndicesOf(new, s) /\ new[is(j)] = old[j]
        BY <1>4
      <4> HIDE DEF is
      <4>3. \E l \in IndicesOf(new, s) : new[l].at = new[i].at + Frame(s)
        BY <3>1, <4>1, <4>2
      <4>4. new[i].at \in Nat
        BY <1>6, <3>1
      <4> QED BY <1>7, <3>2, <4>3, <4>4
    <3> QED BY <3>3, <3>4
  <2> QED BY <2>1, <2>2
<1> QED BY <1>8, <1>9 DEF Line

(* Sorting packets whose times are those of their capture but for something *)
(* that is the same for all packets of a stream.                            *)
LEMMA LineSorted ==
  ASSUME NEW seq \in Seq(Packet), NEW moved \in Seq(Packet), NEW new, NEW f, NEW s \in Streams, NEW n,
         Len(moved) = Len(seq), Sorted(new, f, moved, Len(seq)), Line(seq, s, n), NEW c \in Int,
         \A i \in 1 .. Len(seq) : moved[i].stream = seq[i].stream /\ moved[i].at = seq[i].at,
         \A i \in 1 .. Len(seq) : moved[i].stream = s => moved[i].ts = moved[i].at - c
  PROVE  Line(new, s, n)
<1>1. Len(seq) \in Nat /\ \A i \in 1 .. Len(seq) : seq[i] \in Packet /\ moved[i] \in Packet
  OBVIOUS
<1>2. /\ new \in Seq(Packet) /\ Len(new) = Len(seq) /\ Ordered(new) /\ DOMAIN new = 1 .. Len(seq)
      /\ \A i \in 1 .. Len(seq) : f[i] \in 1 .. Len(seq) /\ new[i] = moved[f[i]]
      /\ \A i, j \in 1 .. Len(seq) : f[i] = f[j] => i = j
      /\ \A l \in 1 .. Len(seq) : \E i \in 1 .. Len(seq) : f[i] = l
  BY DEF Sorted
<1>3. \A i \in IndicesOf(new, s) :
        /\ i \in 1 .. Len(seq) /\ f[i] \in IndicesOf(seq, s) /\ f[i] \in Nat
        /\ new[i].at = seq[f[i]].at /\ new[i].at \in Nat /\ new[i].ts = new[i].at - c
  <2> TAKE i \in IndicesOf(new, s)
  <2>1. i \in 1 .. Len(seq) /\ new[i].stream = s
    BY <1>2, Indices
  <2>2. f[i] \in 1 .. Len(seq) /\ new[i] = moved[f[i]]
    BY <1>2, <2>1
  <2>3. seq[f[i]].stream = s /\ moved[f[i]].at = seq[f[i]].at /\ moved[f[i]].ts = moved[f[i]].at - c
    BY <2>1, <2>2
  <2>4. f[i] \in IndicesOf(seq, s)
    BY <2>2, <2>3, Indices
  <2>5. moved[f[i]].at \in Nat
    BY <1>1, <2>2, PacketFields
  <2> QED BY <1>1, <2>1, <2>2, <2>3, <2>4, <2>5
<1>4. \A l \in IndicesOf(seq, s) : \E i \in IndicesOf(new, s) : f[i] = l
  <2> TAKE l \in IndicesOf(seq, s)
  <2>1. l \in 1 .. Len(seq) /\ seq[l].stream = s
    BY Indices
  <2>2. PICK i \in 1 .. Len(seq) : f[i] = l
    BY <1>2, <2>1
  <2>3. new[i].stream = s
    BY <1>2, <2>1, <2>2
  <2> QED BY <1>2, <2>2, <2>3, Indices
<1>5. Frame(s) \in Nat /\ Frame(s) > 0
  BY FrameType
<1>6. ASSUME NEW i \in IndicesOf(new, s), NEW j \in IndicesOf(new, s), i < j
      PROVE  new[i].at + Frame(s) <= new[j].at
  <2>1. new[i].ts <= new[j].ts
    BY <1>2, <1>3, <1>6 DEF Ordered
  <2>2. new[i].at <= new[j].at
    BY <1>3, <2>1
  <2>3. f[i] # f[j]
    <3>1. i # j
      BY <1>3, <1>6
    <3> QED BY <1>2, <1>3, <3>1
  <2>4. ~ (f[j] < f[i])
    <3>1. f[j] < f[i] => seq[f[j]].at + Frame(s) <= seq[f[i]].at
      BY <1>3 DEF Line
    <3> QED BY <1>3, <1>5, <2>2, <3>1
  <2>5. f[i] < f[j]
    BY <1>3, <2>3, <2>4
  <2> QED BY <1>3, <2>5 DEF Line
<1>7. ASSUME NEW i \in IndicesOf(new, s)
      PROVE  /\ new[i].at + Frame(s) <= n
             /\ new[i].at + Frame(s) # n =>
                  \E j \in IndicesOf(new, s) : new[j].at = new[i].at + Frame(s)
  <2>1. new[i].at + Frame(s) <= n
    BY <1>3 DEF Line
  <2>2. ASSUME new[i].at + Frame(s) # n
        PROVE  \E j \in IndicesOf(new, s) : new[j].at = new[i].at + Frame(s)
    <3>1. PICK l \in IndicesOf(seq, s) : seq[l].at = seq[f[i]].at + Frame(s)
      BY <1>3, <2>2 DEF Line
    <3>2. PICK j \in IndicesOf(new, s) : f[j] = l
      BY <1>4
    <3> QED BY <1>3, <3>1, <3>2
  <2> QED BY <2>1, <2>2
<1> QED BY <1>6, <1>7 DEF Line

-----------------------------------------------------------------------------
(* The invariant *)

Lag(s) == IF s = Video THEN PtsLag ELSE Priming
OffsetOf(s) == IF s = Video THEN video_offset ELSE audio_offsets[s]

(* Before the start packets are compared by the time of the system, later   *)
(* by their rebased timestamps.                                             *)
Fresh(p, from) == p.ts = Boot + p.at /\ p.dts = p.at - from - Lag(p.stream)
Rebased(p) == p.ts = p.dts /\ p.dts = p.at - origin - Lag(p.stream) - OffsetOf(p.stream)

Stamped == \A i \in DOMAIN packets : IF Started THEN Rebased(packets[i]) ELSE Fresh(packets[i], origin)

InLine == \A s \in Streams : Line(sent \o packets, s, next[s])

Flagged ==
  /\ Started <=> sent # << >>
  /\ ~ Started => (received_video <=> Has(packets, Video))
  /\ Started => \A s \in Streams : Has(sent \o packets, s)

Inv == TypeOK /\ Ordered(packets) /\ Stamped /\ InLine /\ Flagged

-----------------------------------------------------------------------------
(* The starting point lies in the list. *)

LEMMA NumTracksType == /\ NumTracks \in Nat /\ NumTracks > 0 /\ NumTracks \in Tracks
                       /\ 1 \in Tracks /\ Tracks \subseteq Streams /\ Video \in Streams
                       /\ Video \notin Tracks /\ Video = 0
BY FramesAssumption DEF Tracks, Streams, Video

LEMMA FirstIs ==
  ASSUME NEW S, NEW seq \in Seq(S), NEW s, Has(seq, s)
  PROVE  /\ FirstIndex(seq, s) \in 1 .. Len(seq) /\ FirstOf(seq, s) \in S
         /\ FirstOf(seq, s).stream = s
         /\ \A i \in 1 .. Len(seq) : seq[i].stream = s => FirstIndex(seq, s) <= i
<1>1. IndicesOf(seq, s) \in SUBSET Nat /\ IndicesOf(seq, s) # {}
  BY Indices DEF Has
<1>2. /\ FirstIndex(seq, s) \in IndicesOf(seq, s)
      /\ \A i \in IndicesOf(seq, s) : FirstIndex(seq, s) <= i
  BY <1>1, LeastIn DEF FirstIndex
<1> QED BY <1>2, Indices DEF FirstOf

LEMMA AudioOf ==
  ASSUME NEW seq \in Seq(Packet), Complete(seq)
  PROVE  /\ AudioIndices(seq) \subseteq 1 .. Len(seq) /\ AudioIndices(seq) # {}
         /\ \A i \in 1 .. Len(seq) : i \in AudioIndices(seq) <=> seq[i].stream \in Tracks
<1>1. /\ AudioIndices(seq) \subseteq 1 .. Len(seq)
      /\ \A i \in 1 .. Len(seq) : i \in AudioIndices(seq) <=> seq[i].stream # Video
  BY DEF AudioIndices
<1>2. \A i \in 1 .. Len(seq) : seq[i].stream \in Streams
  <2>1. \A i \in 1 .. Len(seq) : seq[i] \in Packet
    OBVIOUS
  <2> QED BY <2>1, PacketFields
<1>3. \A i \in 1 .. Len(seq) : i \in AudioIndices(seq) <=> seq[i].stream \in Tracks
  BY <1>1, <1>2, NumTracksType DEF Streams
<1>4. Has(seq, 1)
  BY NumTracksType DEF Complete
<1>5. FirstIndex(seq, 1) \in 1 .. Len(seq) /\ seq[FirstIndex(seq, 1)].stream = 1
  BY <1>4, FirstIs DEF FirstOf
<1> QED BY <1>1, <1>3, <1>5, NumTracksType

LEMMA DistanceType == \A a, b \in Int : Distance(a, b) \in Nat
BY DEF Distance

LEMMA ClosestIs ==
  ASSUME NEW seq \in Seq(Packet), Complete(seq)
  PROVE  /\ ClosestAudio(seq) \in AudioIndices(seq)
         /\ \A i \in AudioIndices(seq) :
              Distance(seq[ClosestAudio(seq)].ts, FirstOf(seq, Video).ts)
                <= Distance(seq[i].ts, FirstOf(seq, Video).ts)
         /\ \A i \in AudioIndices(seq) :
              Distance(seq[i].ts, FirstOf(seq, Video).ts)
                = Distance(seq[ClosestAudio(seq)].ts, FirstOf(seq, Video).ts)
              => ClosestAudio(seq) <= i
<1> DEFINE off(i) == Distance(seq[i].ts, FirstOf(seq, Video).ts)
           offs == {off(i) : i \in AudioIndices(seq)}
           least == Min(offs)
           near == {i \in AudioIndices(seq) : off(i) = least}
<1>1. AudioIndices(seq) \subseteq 1 .. Len(seq) /\ AudioIndices(seq) # {}
  BY AudioOf
<1>2. \A i \in AudioIndices(seq) : off(i) \in Nat
  <2>1. FirstOf(seq, Video) \in Packet
    BY FirstIs, NumTracksType DEF Complete
  <2>2. \A i \in AudioIndices(seq) : seq[i] \in Packet
    BY <1>1
  <2> QED BY <2>1, <2>2, DistanceType, PacketFields
<1> HIDE DEF off
<1>3. least \in offs /\ \A y \in offs : least <= y
  <2>1. offs \in SUBSET Nat /\ offs # {}
    BY <1>1, <1>2
  <2> HIDE DEF offs
  <2> QED BY <2>1, LeastIn
<1>4. near \in SUBSET Nat /\ near # {}
  <2> HIDE DEF least
  <2>1. PICK i \in AudioIndices(seq) : least = off(i)
    BY <1>3
  <2> QED BY <1>1, <2>1
<1>5. Min(near) \in near /\ \A y \in near : Min(near) <= y
  <2> HIDE DEF near
  <2> QED BY <1>4, LeastIn
<1>6. ClosestAudio(seq) = Min(near)
  BY DEF ClosestAudio, off
<1> HIDE DEF least
<1>7. ClosestAudio(seq) \in AudioIndices(seq) /\ off(ClosestAudio(seq)) = least
  BY <1>5, <1>6
<1>8. \A i \in AudioIndices(seq) : off(ClosestAudio(seq)) <= off(i)
  BY <1>3, <1>7
<1>9. \A i \in AudioIndices(seq) : off(i) = off(ClosestAudio(seq)) => ClosestAudio(seq) <= i
  BY <1>5, <1>6, <1>7
<1> QED BY <1>7, <1>8, <1>9 DEF off

(* Not behind the first video packet nor behind the audio closest to it. *)
LEMMA StartIndexIs ==
  ASSUME NEW seq \in Seq(Packet), Complete(seq)
  PROVE  /\ StartIndex(seq) \in 1 .. Len(seq)
         /\ StartIndex(seq) <= FirstIndex(seq, Video)
         /\ StartIndex(seq) <= ClosestAudio(seq)
<1> DEFINE pair == {FirstIndex(seq, Video), ClosestAudio(seq)}
           near == Min(pair)
           early == {near} \cup {FirstIndex(seq, t) : t \in {u \in Tracks : Has(seq, u)}}
<1>1. pair \in SUBSET (1 .. Len(seq)) /\ pair # {} /\ pair \in SUBSET Nat
  BY FirstIs, ClosestIs, AudioOf, NumTracksType DEF Complete
<1>2. near \in pair /\ \A y \in pair : near <= y
  BY <1>1, LeastIn
<1>3. near \in 1 .. Len(seq)
  BY <1>1, <1>2
<1> HIDE DEF near
<1>4. early \in SUBSET (1 .. Len(seq)) /\ early # {} /\ early \in SUBSET Nat
  BY <1>3, FirstIs
<1>5. Min(early) \in early /\ \A y \in early : Min(early) <= y
  BY <1>4, LeastIn
<1>6. StartIndex(seq) \in {near, Min(early)}
  BY DEF StartIndex, near
<1>7. near \in early
  OBVIOUS
<1> HIDE DEF early
<1>8. Min(early) \in 1 .. Len(seq) /\ Min(early) <= near
  BY <1>4, <1>5, <1>7
<1>9. StartIndex(seq) \in 1 .. Len(seq) /\ StartIndex(seq) <= near
  BY <1>3, <1>6, <1>8
<1> QED BY <1>1, <1>2, <1>3, <1>9

LEMMA PruneIs ==
  ASSUME NEW seq \in Seq(Packet), Complete(seq)
  PROVE  \E m \in 1 .. Len(seq) + 1 :
           /\ Prune(seq) = From(seq, m)
           /\ TooFarApart(seq) => \A s \in Streams : FirstIndex(seq, s) < m
           /\ ~ TooFarApart(seq) => m = StartIndex(seq)
<1>1. Len(seq) \in Nat /\ \A s \in Streams : FirstIndex(seq, s) \in 1 .. Len(seq)
  BY FirstIs DEF Complete
<1>2. CASE TooFarApart(seq)
  <2> DEFINE firsts == {FirstIndex(seq, s) : s \in Streams}
  <2>1. firsts \in SUBSET (1 .. Len(seq)) /\ firsts # {}
    BY <1>1, NumTracksType
  <2>2. \A s \in Streams : FirstIndex(seq, s) \in firsts
    OBVIOUS
  <2> HIDE DEF firsts
  <2>3. Max(firsts) \in firsts /\ \A y \in firsts : y <= Max(firsts)
    BY <1>1, <2>1, GreatestIn
  <2>4. Max(firsts) \in 1 .. Len(seq)
    BY <2>1, <2>3
  <2>5. 1 + Max(firsts) \in 1 .. Len(seq) + 1
    BY <1>1, <2>4
  <2>6. \A s \in Streams : FirstIndex(seq, s) < 1 + Max(firsts)
    <3> TAKE s \in Streams
    <3>1. FirstIndex(seq, s) <= Max(firsts)
      BY <2>2, <2>3
    <3> QED BY <1>1, <2>4, <3>1
  <2>7. Prune(seq) = From(seq, 1 + Max(firsts))
    BY <1>2 DEF Prune, firsts
  <2> QED BY <1>2, <2>5, <2>6, <2>7
<1>3. CASE ~ TooFarApart(seq)
  <2>1. StartIndex(seq) \in 1 .. Len(seq) + 1
    BY <1>1, StartIndexIs
  <2> QED BY <1>3, <2>1 DEF Prune
<1> QED BY <1>2, <1>3

LEMMA HighestIs ==
  ASSUME NEW seq \in Seq(Packet), NEW S, NEW before \in Int
  PROVE  LET h == HighestOf(seq, S, before)
         IN /\ h \in Int /\ before <= h
            /\ \A i \in 1 .. Len(seq) : seq[i].stream \in S => seq[i].ts <= h
            /\ h = before \/ \E i \in 1 .. Len(seq) : seq[i].stream \in S /\ seq[i].ts = h
<1> DEFINE T == {j \in DOMAIN seq : seq[j].stream \in S}
           f == [i \in 1 .. Len(seq) |-> seq[i].ts]
           all == {before} \cup {f[i] : i \in T}
<1>1. Len(seq) \in Nat /\ T \in SUBSET (1 .. Len(seq))
  OBVIOUS
<1>2. \A i \in 1 .. Len(seq) : f[i] = seq[i].ts /\ f[i] \in Int
  <2>1. \A i \in 1 .. Len(seq) : seq[i] \in Packet
    OBVIOUS
  <2> QED BY <2>1, PacketFields
<1>3. HighestOf(seq, S, before) = Max(all)
  <2>1. {f[i] : i \in T} = {seq[i].ts : i \in T}
    BY <1>1, <1>2
  <2> HIDE DEF f
  <2> QED BY <2>1 DEF HighestOf
<1>4. \A i \in 1 .. Len(seq) : i \in T <=> seq[i].stream \in S
  OBVIOUS
<1> HIDE DEF f, T
<1>5. Max(all) \in all /\ \A y \in all : y <= Max(all)
  <2>1. \A i \in T : f[i] \in Int
    BY <1>1, <1>2
  <2> QED BY <1>1, <2>1, GreatestOf
<1>6. before \in all /\ \A i \in T : f[i] \in all
  OBVIOUS
<1>7. Max(all) = before \/ \E i \in T : Max(all) = f[i]
  BY <1>5
<1> HIDE DEF all
<1>8. Max(all) \in Int
  BY <1>1, <1>2, <1>7
<1>9. \A i \in 1 .. Len(seq) : seq[i].stream \in S => seq[i].ts <= Max(all)
  BY <1>2, <1>4, <1>5, <1>6
<1>10. Max(all) = before \/ \E i \in 1 .. Len(seq) : seq[i].stream \in S /\ seq[i].ts = Max(all)
  BY <1>1, <1>2, <1>4, <1>7
<1> QED BY <1>3, <1>5, <1>6, <1>8, <1>9, <1>10

-----------------------------------------------------------------------------
(* Before the start *)

Collected(list, nx) ==
  /\ list \in Seq(Packet) /\ Ordered(list) /\ \A s \in Streams : Line(list, s, nx[s])
  /\ \A i \in 1 .. Len(list) : Fresh(list[i], origin)

LEMMA FromOrdered ==
  ASSUME NEW seq \in Seq(Packet), NEW m \in 1 .. Len(seq) + 1, Ordered(seq)
  PROVE  Ordered(From(seq, m))
<1> DEFINE new == From(seq, m)
<1>1. /\ new \in Seq(Packet) /\ Len(new) = Len(seq) - m + 1 /\ Len(seq) \in Nat
      /\ \A i \in 1 .. Len(seq) - m + 1 : new[i] = seq[m - 1 + i]
  BY FromIs
<1> HIDE DEF new
<1>2. ASSUME NEW i \in DOMAIN new, NEW j \in DOMAIN new, i < j
      PROVE  new[i].ts <= new[j].ts
  <2>1. i \in 1 .. Len(seq) - m + 1 /\ j \in 1 .. Len(seq) - m + 1
    BY <1>1
  <2>2. m - 1 + i \in DOMAIN seq /\ m - 1 + j \in DOMAIN seq /\ m - 1 + i < m - 1 + j
    BY <1>1, <1>2, <2>1
  <2> QED BY <1>1, <2>1, <2>2 DEF Ordered
<1>3. Ordered(new)
  BY <1>2 DEF Ordered
<1> QED BY <1>3 DEF new

LEMMA CollectedFrom ==
  ASSUME NEW list, NEW nx, Collected(list, nx), NEW m \in 1 .. Len(list) + 1
  PROVE  Collected(From(list, m), nx)
<1>1. list \in Seq(Packet) /\ Len(list) \in Nat
  BY DEF Collected
<1>2. From(list, m) \in Seq(Packet) /\ Len(From(list, m)) = Len(list) - m + 1
      /\ \A i \in 1 .. Len(list) - m + 1 : From(list, m)[i] = list[m - 1 + i]
  BY <1>1, FromIs
<1>3. \A i \in 1 .. Len(list) - m + 1 : m - 1 + i \in 1 .. Len(list)
  BY <1>1
<1>4. \A i \in 1 .. Len(list) - m + 1 : Fresh(From(list, m)[i], origin)
  BY <1>2, <1>3 DEF Collected
<1>5. \A s \in Streams : Line(From(list, m), s, nx[s])
  BY <1>1, LineFrom DEF Collected
<1>6. Ordered(From(list, m))
  BY <1>1, FromOrdered DEF Collected
<1> QED BY <1>2, <1>4, <1>5, <1>6 DEF Collected

LEMMA ArrivesIs ==
  ASSUME TypeOK, NEW s \in Streams, NEW key \in BOOLEAN, Arrives(s, key)
  PROVE  /\ next' \in [Streams -> Nat] /\ gop' \in 0 .. MaxGop
         /\ \A t \in Streams : next'[t] = IF t = s THEN next[t] + Frame(t) ELSE next[t]
         /\ Arrived(s, key) \in Packet /\ Fresh(Arrived(s, key), origin)
         /\ Arrived(s, key).stream = s /\ Arrived(s, key).at = next[s] /\ Arrived(s, key).key = key
<1>1. next \in [Streams -> Nat] /\ gop \in 0 .. MaxGop /\ MaxGop \in Nat /\ MaxGop > 0 /\ origin \in Nat
      /\ Boot \in Nat /\ PtsLag \in Nat /\ Priming \in Nat
  BY FramesAssumption, TimesAssumption DEF TypeOK
<1>2. next' = [next EXCEPT ![s] = next[s] + Frame(s)] /\ Frame(s) \in Nat
  BY FrameType DEF Arrives
<1>3. next' \in [Streams -> Nat]
      /\ \A t \in Streams : next'[t] = IF t = s THEN next[t] + Frame(t) ELSE next[t]
  BY <1>1, <1>2
<1>4. gop' \in 0 .. MaxGop
  <2>1. gop' = (IF s # Video THEN gop ELSE IF key THEN 1 ELSE gop + 1)
    BY DEF Arrives
  <2>2. s = Video /\ gop = MaxGop => key
    BY DEF Arrives
  <2> QED BY <1>1, <2>1, <2>2
<1>5. Arrived(s, key) = [stream |-> s, key |-> key, at |-> next[s], ts |-> Boot + next[s],
                         dts |-> next[s] - origin - Lag(s)]
  BY DEF Arrived, Lag
<1>6. next[s] \in Nat /\ Lag(s) \in Nat
  BY <1>1 DEF Lag
<1>7. Arrived(s, key) \in Packet
  BY <1>1, <1>5, <1>6 DEF Packet
<1>8. Fresh(Arrived(s, key), origin)
  BY <1>5 DEF Fresh
<1> QED BY <1>3, <1>4, <1>5, <1>7, <1>8

LEMMA NothingSent ==
  ASSUME Inv, ~ Started
  PROVE  sent = << >> /\ packets \in Seq(Packet) /\ Collected(packets, next)
         /\ (received_video <=> Has(packets, Video))
<1>1. sent = << >> /\ packets \in Seq(Packet) /\ (received_video <=> Has(packets, Video))
  BY DEF Inv, Flagged, TypeOK
<1>2. sent \o packets = packets
  BY <1>1, ConcatEmptySeq
<1>3. \A i \in 1 .. Len(packets) : Fresh(packets[i], origin)
  BY <1>1 DEF Inv, Stamped
<1> QED BY <1>1, <1>2, <1>3 DEF Inv, Collected, InLine

LEMMA CollectedInsert ==
  ASSUME Inv, ~ Started, NEW s \in Streams, NEW key \in BOOLEAN, Arrives(s, key)
  PROVE  /\ Collected(Insert(packets, Arrived(s, key)), next')
         /\ Has(Insert(packets, Arrived(s, key)), s)
         /\ \A t \in Streams : Has(Insert(packets, Arrived(s, key)), t) <=> t = s \/ Has(packets, t)
<1> DEFINE p == Arrived(s, key)
           new == Insert(packets, p)
<1>1. /\ next' \in [Streams -> Nat] /\ p \in Packet /\ Fresh(p, origin) /\ p.stream = s /\ p.at = next[s]
      /\ \A t \in Streams : next'[t] = IF t = s THEN next[t] + Frame(t) ELSE next[t]
  BY ArrivesIs DEF Inv
<1>2. packets \in Seq(Packet) /\ Len(packets) \in Nat /\ Collected(packets, next)
  BY NothingSent
<1>3. \A i \in 1 .. Len(packets) : packets[i] \in Packet /\ Fresh(packets[i], origin)
  BY <1>2 DEF Collected
<1> HIDE DEF p
<1>4. PICK k \in 1 .. Len(packets) + 1 :
        /\ InsertedAt(new, packets, p, k)
        /\ \A i \in 1 .. k - 1 : packets[i].ts <= p.ts
        /\ \A i \in k .. Len(packets) : p.ts <= packets[i].ts
  BY <1>1, <1>2, InsertOrders DEF Collected
<1>5. Ordered(new)
  BY <1>1, <1>2, <1>4, InsertOrdered DEF Collected
<1> HIDE DEF new
<1>6. next \in [Streams -> Nat] /\ \A t \in Streams : next[t] \in Nat
  BY DEF Inv, TypeOK
<1>7. \A i \in k .. Len(packets) : packets[i].stream # s
  <2> SUFFICES ASSUME NEW i \in k .. Len(packets), packets[i].stream = s PROVE FALSE
    OBVIOUS
  <2>1. i \in 1 .. Len(packets) /\ i \in IndicesOf(packets, s)
    BY <1>2, Indices
  <2>2. packets[i].at + Frame(s) <= next[s]
    BY <1>2, <2>1 DEF Collected, Line
  <2>3. p.ts = Boot + next[s] /\ packets[i].ts = Boot + packets[i].at
    BY <1>1, <1>3, <2>1 DEF Fresh
  <2>4. p.ts <= packets[i].ts
    BY <1>4
  <2>5. packets[i].at \in Nat /\ next[s] \in Nat /\ Boot \in Nat
    BY <1>3, <1>6, <2>1, PacketFields, TimesAssumption
  <2>6. Frame(s) \in Nat /\ Frame(s) > 0
    BY FrameType
  <2> QED BY <2>2, <2>3, <2>4, <2>5, <2>6
<1>8. \A t \in Streams : Line(new, t, next'[t])
  <2> TAKE t \in Streams
  <2>1. Line(new, t, IF p.stream = t THEN next[t] + Frame(t) ELSE next[t])
    <3>1. Line(packets, t, next[t]) /\ next[t] \in Nat
      BY <1>2, <1>6 DEF Collected
    <3>2. p.stream = t => p.at = next[t] /\ \A i \in k .. Len(packets) : packets[i].stream # t
      BY <1>1, <1>7
    <3> QED BY <1>1, <1>2, <1>4, <3>1, <3>2, LineInsert
  <2> QED BY <1>1, <2>1
<1>9. new \in Seq(Packet) /\ Len(new) = Len(packets) + 1
      /\ \A i \in 1 .. Len(packets) + 1 :
           new[i] = IF i < k THEN packets[i] ELSE IF i = k THEN p ELSE packets[i - 1]
  BY <1>4 DEF InsertedAt
<1>10. \A i \in 1 .. Len(new) : Fresh(new[i], origin)
  <2> TAKE i \in 1 .. Len(new)
  <2>1. i \in 1 .. Len(packets) + 1
    BY <1>9
  <2>2. CASE i < k
    <3>1. i \in 1 .. Len(packets) /\ new[i] = packets[i]
      BY <1>2, <1>9, <2>1, <2>2
    <3> QED BY <1>3, <3>1
  <2>3. CASE i = k
    BY <1>1, <1>9, <2>1, <2>3
  <2>4. CASE i > k
    <3>1. i - 1 \in 1 .. Len(packets) /\ new[i] = packets[i - 1]
      BY <1>2, <1>9, <2>1, <2>4
    <3> QED BY <1>3, <3>1
  <2> QED BY <2>1, <2>2, <2>3, <2>4
<1>11. \A t \in Streams : Has(new, t) <=> t = s \/ Has(packets, t)
  <2> TAKE t \in Streams
  <2>1. ASSUME t = s PROVE Has(new, t)
    <3>1. k \in 1 .. Len(new) /\ new[k] = p
      BY <1>2, <1>9
    <3> QED BY <1>1, <1>9, <2>1, <3>1, Indices DEF Has
  <2>2. ASSUME Has(packets, t) PROVE Has(new, t)
    <3>1. PICK i \in 1 .. Len(packets) : packets[i].stream = t
      BY <1>2, <2>2, Indices DEF Has
    <3>2. \E j \in 1 .. Len(new) : new[j] = packets[i]
      <4>1. CASE i < k
        <5>1. i \in 1 .. Len(new) /\ new[i] = packets[i]
          BY <1>2, <1>9, <4>1
        <5> QED BY <5>1
      <4>2. CASE ~ (i < k)
        <5>1. i + 1 \in 1 .. Len(new) /\ new[i + 1] = packets[i]
          BY <1>2, <1>9, <4>2
        <5> QED BY <5>1
      <4> QED BY <4>1, <4>2
    <3> QED BY <1>9, <3>1, <3>2, Indices DEF Has
  <2>3. ASSUME Has(new, t), t # s PROVE Has(packets, t)
    <3>1. PICK i \in 1 .. Len(new) : new[i].stream = t
      BY <1>9, <2>3, Indices DEF Has
    <3>2. \E j \in 1 .. Len(packets) : new[i] = packets[j]
      <4>1. i # k
        BY <1>1, <1>2, <1>9, <2>3, <3>1
      <4>2. CASE i < k
        <5>1. i \in 1 .. Len(packets) /\ new[i] = packets[i]
          BY <1>2, <1>9, <4>2
        <5> QED BY <5>1
      <4>3. CASE i > k
        <5>1. i - 1 \in 1 .. Len(packets) /\ new[i] = packets[i - 1]
          BY <1>2, <1>9, <4>3
        <5> QED BY <5>1
      <4> QED BY <1>9, <4>1, <4>2, <4>3
    <3> QED BY <1>2, <3>1, <3>2, Indices DEF Has
  <2> QED BY <2>1, <2>2, <2>3
<1>12. Collected(new, next')
  BY <1>5, <1>8, <1>9, <1>10 DEF Collected
<1> QED BY <1>11, <1>12 DEF new, p

(* A step that collects packets and takes back a flag. *)
LEMMA Waiting ==
  ASSUME Inv, ~ Started, NEW list, Collected(list, next'),
         next' \in [Streams -> Nat], gop' \in 0 .. MaxGop,
         packets' = list, received_video' \in BOOLEAN, received_audio' \in BOOLEAN,
         ~ (received_video' /\ received_audio'), received_video' <=> Has(list, Video),
         UNCHANGED <<offsets, highest, max_batch, origin, session, sent>>
  PROVE  Inv'
<1>1. /\ video_offset' = video_offset /\ audio_offsets' = audio_offsets
      /\ highest_video_ts' = highest_video_ts /\ highest_audio_ts' = highest_audio_ts
      /\ max_batch' = max_batch /\ origin' = origin /\ session' = session /\ sent' = << >>
  BY NothingSent DEF offsets, highest
<1>2. ~ Started'
  BY DEF Started
<1>3. TypeOK'
  <2>1. packets' \in Seq(Packet) /\ sent' \in Seq(Packet)
    BY <1>1 DEF Collected
  <2> QED BY <1>1, <2>1 DEF Inv, TypeOK
<1>4. Ordered(packets)'
  BY DEF Collected, Ordered
<1>5. Stamped'
  <2>1. \A i \in DOMAIN list : Fresh(list[i], origin)
    <3>1. list \in Seq(Packet)
      BY DEF Collected
    <3> QED BY <3>1 DEF Collected
  <2> QED BY <1>1, <1>2, <2>1 DEF Stamped, Fresh
<1>6. InLine'
  <2>1. sent' \o packets' = list
    <3>1. list \in Seq(Packet)
      BY DEF Collected
    <3> QED BY <1>1, <3>1, ConcatEmptySeq
  <2>2. \A s \in Streams : Line(list, s, next'[s])
    BY DEF Collected
  <2> QED BY <2>1, <2>2 DEF InLine
<1>7. Flagged'
  BY <1>1, <1>2 DEF Flagged, Has, IndicesOf
<1> QED BY <1>3, <1>4, <1>5, <1>6, <1>7 DEF Inv

LEMMA EmptyCollected == ASSUME NEW nx PROVE Collected(<< >>, nx) /\ ~ Has(<< >>, Video)
BY DEF Collected, Ordered, Line, IndicesOf, Has

LEMMA DiscardInv == Inv /\ Discard => Inv'
<1> SUFFICES ASSUME Inv, Discard PROVE Inv'
  OBVIOUS
<1> DEFINE p == Arrived(Video, FALSE)
           late == {i \in DOMAIN packets : packets[i].ts >= p.ts}
<1>1. ~ received_video /\ ~ Started /\ Arrives(Video, FALSE)
  BY DEF Discard, Started
<1>2. /\ packets \in Seq(Packet) /\ Collected(packets, next) /\ ~ Has(packets, Video)
      /\ received_video \in BOOLEAN /\ received_audio \in BOOLEAN
  BY <1>1, NothingSent DEF Inv, TypeOK
<1>3. /\ next' \in [Streams -> Nat] /\ gop' \in 0 .. MaxGop
      /\ \A t \in Streams : next'[t] = IF t = Video THEN next[t] + Frame(t) ELSE next[t]
  BY <1>1, ArrivesIs, NumTracksType DEF Inv
<1>4. Collected(packets, next')
  <2>1. \A t \in Streams : Line(packets, t, next'[t])
    <3> TAKE t \in Streams
    <3>1. CASE t = Video
      <4>1. IndicesOf(packets, t) = {}
        BY <1>2, <3>1 DEF Has
      <4> QED BY <4>1 DEF Line
    <3>2. CASE t # Video
      BY <1>2, <1>3, <3>2 DEF Collected
    <3> QED BY <3>1, <3>2
  <2> QED BY <1>2, <2>1 DEF Collected
<1>5. packets' = IF late = {} THEN << >> ELSE From(packets, Min(late))
  BY DEF Discard
<1>6. Collected(packets', next') /\ ~ Has(packets', Video)
  <2>1. CASE late = {}
    BY <1>5, <2>1, EmptyCollected
  <2>2. CASE late # {}
    <3> HIDE DEF p
    <3>1. late \in SUBSET (1 .. Len(packets)) /\ late \in SUBSET Nat
      <4>1. DOMAIN packets = 1 .. Len(packets) /\ Len(packets) \in Nat
        BY <1>2
      <4>2. late \subseteq DOMAIN packets
        OBVIOUS
      <4> QED BY <4>1, <4>2
    <3> HIDE DEF late
    <3>2. Min(late) \in 1 .. Len(packets)
      BY <2>2, <3>1, LeastIn
    <3>3. Min(late) \in 1 .. Len(packets) + 1 /\ packets' = From(packets, Min(late))
      BY <1>2, <1>5, <2>2, <3>2
    <3>4. Collected(packets', next')
      BY <1>4, <3>3, CollectedFrom
    <3>5. /\ packets' \in Seq(Packet) /\ Len(packets') = Len(packets) - Min(late) + 1
          /\ \A i \in 1 .. Len(packets) - Min(late) + 1 : packets'[i] = packets[Min(late) - 1 + i]
      BY <1>2, <3>3, FromIs
    <3>6. ASSUME NEW i \in 1 .. Len(packets'), packets'[i].stream = Video PROVE FALSE
      <4>1. Min(late) - 1 + i \in 1 .. Len(packets) /\ packets'[i] = packets[Min(late) - 1 + i]
        BY <1>2, <3>2, <3>5
      <4> QED BY <1>2, <3>6, <4>1, Indices DEF Has
    <3> QED BY <3>4, <3>5, <3>6, Indices DEF Has
  <2> QED BY <2>1, <2>2
<1>7. /\ received_video' = received_video /\ received_audio' = received_audio
      /\ UNCHANGED <<offsets, highest, max_batch, origin, session, sent>>
  BY DEF Discard, flags
<1> HIDE DEF p, late
<1> QED BY <1>1, <1>2, <1>3, <1>6, <1>7, Waiting

(* The list that is kept when a starting point is looked for. *)
Kept(seq) == LET pruned == Prune(seq)
             IN IF Ready(pruned) THEN From(pruned, StartIndex(pruned)) ELSE pruned

LEMMA KeptIs ==
  ASSUME NEW list, NEW nx, Collected(list, nx), Complete(list)
  PROVE  Collected(Prune(list), nx) /\ Collected(Kept(list), nx)
<1>1. list \in Seq(Packet)
  BY DEF Collected
<1>2. Collected(Prune(list), nx)
  <2>1. \E m \in 1 .. Len(list) + 1 : Prune(list) = From(list, m)
    BY <1>1, PruneIs
  <2> QED BY <2>1, CollectedFrom
<1> DEFINE pruned == Prune(list)
<1>3. pruned \in Seq(Packet) /\ Collected(pruned, nx)
  BY <1>2 DEF Collected
<1> HIDE DEF pruned
<1>4. ASSUME Ready(pruned) PROVE Collected(From(pruned, StartIndex(pruned)), nx)
  <2>1. StartIndex(pruned) \in 1 .. Len(pruned) + 1
    <3>1. StartIndex(pruned) \in 1 .. Len(pruned) /\ Len(pruned) \in Nat
      BY <1>3, <1>4, StartIndexIs DEF Ready
    <3> QED BY <3>1
  <2> QED BY <1>3, <2>1, CollectedFrom
<1>5. Kept(list) = IF Ready(pruned) THEN From(pruned, StartIndex(pruned)) ELSE pruned
  BY DEF Kept, pruned
<1> QED BY <1>2, <1>3, <1>4, <1>5

-----------------------------------------------------------------------------
(* The start *)

LEMMA PtsType == \A p \in Packet : Pts(p) \in Int
BY PacketFields, FramesAssumption DEF Pts

LEMMA ApplyIs ==
  ASSUME NEW p \in Packet, NEW video \in Int, NEW audio \in [Tracks -> Int]
  PROVE  LET q == Apply(video, audio, p)
             off == IF p.stream = Video THEN video ELSE audio[p.stream]
         IN q \in Packet /\ q.stream = p.stream /\ q.at = p.at /\ q.key = p.key
            /\ q.dts = p.dts - off /\ q.ts = p.dts - off
<1> DEFINE off == IF p.stream = Video THEN video ELSE audio[p.stream]
           dts == p.dts - off
<1>1. off \in Int /\ dts \in Int
  <2>1. p.stream \in Streams /\ p.dts \in Int
    BY PacketFields
  <2>2. p.stream # Video => p.stream \in Tracks
    BY <2>1 DEF Streams
  <2> QED BY <2>1, <2>2
<1>2. Apply(video, audio, p) = [p EXCEPT !.dts = dts, !.ts = dts]
  BY DEF Apply
<1>3. /\ dts = p.dts - off /\ p \in [stream : Streams, key : BOOLEAN, at : Nat, dts : Int, ts : Int]
  BY DEF Packet
<1> HIDE DEF dts
<1> QED BY <1>1, <1>2, <1>3 DEF Packet

LEMMA AudioOffsetType ==
  ASSUME NEW seq \in Seq(Packet), NEW t, Has(seq, t)
  PROVE  AudioOffset(seq, t) \in Nat
<1>1. FirstOf(seq, t).dts \in Int
  BY FirstIs, PacketFields
<1> QED BY <1>1 DEF AudioOffset

(* The offsets that initialize_interleaved_packets() sets *)
VideoOffsetFrom(kept) == Pts(FirstOf(kept, Video))
AudioOffsetsFrom(kept) == [t \in Tracks |-> AudioOffset(kept, t)]
Moved(kept) == [i \in DOMAIN kept |-> Apply(VideoOffsetFrom(kept), AudioOffsetsFrom(kept), kept[i])]

LEMMA OffsetsType ==
  ASSUME NEW kept \in Seq(Packet), Complete(kept)
  PROVE  VideoOffsetFrom(kept) \in Int /\ AudioOffsetsFrom(kept) \in [Tracks -> Nat]
<1>1. FirstOf(kept, Video) \in Packet
  BY FirstIs, NumTracksType DEF Complete
<1>2. \A t \in Tracks : AudioOffset(kept, t) \in Nat
  BY AudioOffsetType, NumTracksType DEF Complete
<1> QED BY <1>1, <1>2, PtsType DEF VideoOffsetFrom, AudioOffsetsFrom

LEMMA MovedIs ==
  ASSUME NEW kept \in Seq(Packet), Complete(kept)
  PROVE  /\ Moved(kept) \in Seq(Packet) /\ Len(Moved(kept)) = Len(kept)
         /\ \A i \in 1 .. Len(kept) :
              LET off == IF kept[i].stream = Video THEN VideoOffsetFrom(kept)
                         ELSE AudioOffsetsFrom(kept)[kept[i].stream]
              IN /\ Moved(kept)[i].stream = kept[i].stream /\ Moved(kept)[i].at = kept[i].at
                 /\ Moved(kept)[i].key = kept[i].key
                 /\ Moved(kept)[i].dts = kept[i].dts - off /\ Moved(kept)[i].ts = kept[i].dts - off
<1> DEFINE video == VideoOffsetFrom(kept)
           audio == AudioOffsetsFrom(kept)
<1>1. video \in Int /\ audio \in [Tracks -> Nat] /\ audio \in [Tracks -> Int]
  BY OffsetsType
<1>2. DOMAIN kept = 1 .. Len(kept) /\ Len(kept) \in Nat /\ \A i \in 1 .. Len(kept) : kept[i] \in Packet
  OBVIOUS
<1> DEFINE moved(i) == Apply(video, audio, kept[i])
<1>3. Moved(kept) = [i \in 1 .. Len(kept) |-> moved(i)]
  BY <1>2 DEF Moved
<1> HIDE DEF video, audio
<1>4. \A i \in 1 .. Len(kept) : moved(i) \in Packet
  BY <1>1, <1>2, ApplyIs
<1>5. \A i \in 1 .. Len(kept) :
        LET off == IF kept[i].stream = Video THEN video ELSE audio[kept[i].stream]
        IN /\ moved(i).stream = kept[i].stream /\ moved(i).at = kept[i].at /\ moved(i).key = kept[i].key
           /\ moved(i).dts = kept[i].dts - off /\ moved(i).ts = kept[i].dts - off
  BY <1>1, <1>2, ApplyIs
<1> HIDE DEF moved
<1>6. Moved(kept) \in Seq(Packet) /\ Len(Moved(kept)) = Len(kept)
      /\ \A i \in 1 .. Len(kept) : Moved(kept)[i] = moved(i)
  BY <1>2, <1>3, <1>4
<1> QED BY <1>5, <1>6 DEF video, audio

LEMMA HeadAndTail ==
  ASSUME NEW S, NEW seq \in Seq(S), Len(seq) > 0
  PROVE  /\ Head(seq) = seq[1] /\ Head(seq) \in S /\ Tail(seq) \in Seq(S) /\ Tail(seq) = From(seq, 2)
         /\ Append(<< >>, Head(seq)) = <<Head(seq)>> /\ <<Head(seq)>> \in Seq(S)
         /\ Append(<< >>, Head(seq)) \o Tail(seq) = seq
<1>1. Head(seq) = seq[1] /\ seq[1] \in S /\ Tail(seq) \in Seq(S) /\ Len(Tail(seq)) = Len(seq) - 1
      /\ \A i \in 1 .. Len(seq) - 1 : Tail(seq)[i] = seq[i + 1]
  <2>1. seq # << >>
    OBVIOUS
  <2> QED BY <2>1, HeadTailProperties
<1>2. Append(<< >>, Head(seq)) = <<Head(seq)>> /\ <<Head(seq)>> \in Seq(S) /\ Len(<<Head(seq)>>) = 1
      /\ <<Head(seq)>>[1] = seq[1]
  BY <1>1
<1>3. Len(seq) \in Nat
  OBVIOUS
<1> DEFINE all == <<Head(seq)>> \o Tail(seq)
           one == <<Head(seq)>>
<1>4. /\ all \in Seq(S) /\ Len(all) = Len(one) + Len(Tail(seq))
      /\ \A i \in 1 .. Len(one) + Len(Tail(seq)) :
           all[i] = IF i <= Len(one) THEN one[i] ELSE Tail(seq)[i - Len(one)]
  BY <1>1, <1>2, ConcatProperties
<1>5. Len(one) = 1 /\ one[1] = seq[1]
  BY <1>2
<1> HIDE DEF all, one
<1>6. ASSUME NEW i \in 1 .. Len(seq) PROVE all[i] = seq[i]
  <2>1. i \in 1 .. Len(one) + Len(Tail(seq))
    BY <1>1, <1>3, <1>5
  <2>2. CASE i = 1
    BY <1>4, <1>5, <2>1, <2>2
  <2>3. CASE i > 1
    <3>1. i - 1 \in 1 .. Len(seq) - 1 /\ i - 1 + 1 = i
      BY <1>3, <2>3
    <3>2. all[i] = Tail(seq)[i - 1]
      BY <1>4, <1>5, <2>1, <2>3
    <3> QED BY <1>1, <3>1, <3>2
  <2> QED BY <2>2, <2>3
<1>7. all = seq
  <2>1. Len(all) = Len(seq)
    BY <1>1, <1>3, <1>4, <1>5
  <2> QED BY <1>4, <1>6, <2>1, SeqEqual
<1>8. Tail(seq) = From(seq, 2)
  BY <1>1, TailIsSubSeq DEF From
<1> QED BY <1>1, <1>2, <1>7, <1>8 DEF all, one

LEMMA BeginIs ==
  ASSUME NEW kept, Begin(kept)
  PROVE  LET sorted == Resort(Moved(kept))
         IN /\ received_video' = TRUE /\ received_audio' = TRUE
            /\ video_offset' = VideoOffsetFrom(kept) /\ audio_offsets' = AudioOffsetsFrom(kept)
            /\ highest_video_ts' = HighestOf(sorted, {Video}, highest_video_ts)
            /\ highest_audio_ts' = HighestOf(sorted, Tracks, highest_audio_ts - FirstOf(kept, 1).ts)
            /\ packets' = Tail(sorted) /\ sent' = Append(sent, Head(sorted))
BY DEF Begin, Moved, VideoOffsetFrom, AudioOffsetsFrom

(* The packets of the list that is rebased and resorted *)
LEMMA SortedKept ==
  ASSUME NEW kept, NEW nx, Collected(kept, nx), Complete(kept), origin \in Nat
  PROVE  LET sorted == Resort(Moved(kept))
         IN /\ sorted \in Seq(Packet) /\ Len(sorted) = Len(kept) /\ Len(kept) > 0 /\ Ordered(sorted)
            /\ \A s \in Streams : Line(sorted, s, nx[s]) /\ Has(sorted, s)
            /\ \A l \in 1 .. Len(kept) : \E i \in 1 .. Len(sorted) :
                 sorted[i].stream = kept[l].stream /\ sorted[i].at = kept[l].at
            /\ \A i \in 1 .. Len(sorted) : \E l \in 1 .. Len(kept) :
                 /\ sorted[i].stream = kept[l].stream /\ sorted[i].at = kept[l].at
                 /\ sorted[i].key = kept[l].key
            /\ \A i \in 1 .. Len(sorted) :
                 /\ sorted[i].ts = sorted[i].dts
                 /\ sorted[i].dts = sorted[i].at - origin - Lag(sorted[i].stream)
                      - (IF sorted[i].stream = Video THEN VideoOffsetFrom(kept)
                         ELSE AudioOffsetsFrom(kept)[sorted[i].stream])
<1> DEFINE sorted == Resort(Moved(kept))
           off(s) == IF s = Video THEN VideoOffsetFrom(kept) ELSE AudioOffsetsFrom(kept)[s]
<1>1. kept \in Seq(Packet) /\ Len(kept) \in Nat /\ \A i \in 1 .. Len(kept) : Fresh(kept[i], origin)
  BY DEF Collected
<1>2. \A i \in 1 .. Len(kept) : kept[i] \in Packet
  BY <1>1
<1>3. /\ Moved(kept) \in Seq(Packet) /\ Len(Moved(kept)) = Len(kept)
      /\ \A i \in 1 .. Len(kept) :
           /\ Moved(kept)[i].stream = kept[i].stream /\ Moved(kept)[i].at = kept[i].at
           /\ Moved(kept)[i].key = kept[i].key
           /\ Moved(kept)[i].dts = kept[i].dts - off(kept[i].stream)
           /\ Moved(kept)[i].ts = kept[i].dts - off(kept[i].stream)
  BY <1>1, MovedIs
<1>4. \A s \in Streams : off(s) \in Int
  <2>1. VideoOffsetFrom(kept) \in Int /\ AudioOffsetsFrom(kept) \in [Tracks -> Nat]
    BY <1>1, OffsetsType
  <2> QED BY <2>1 DEF Streams
<1> HIDE DEF off
<1>5. PICK f : Sorted(sorted, f, Moved(kept), Len(kept))
  BY <1>3, ResortSorts
<1> HIDE DEF sorted
<1>6. /\ sorted \in Seq(Packet) /\ Len(sorted) = Len(kept) /\ Ordered(sorted)
      /\ \A i \in 1 .. Len(kept) : f[i] \in 1 .. Len(kept) /\ sorted[i] = Moved(kept)[f[i]]
      /\ \A l \in 1 .. Len(kept) : \E i \in 1 .. Len(kept) : f[i] = l
  BY <1>5 DEF Sorted
<1>7. \A i \in 1 .. Len(kept) :
        /\ Moved(kept)[i].ts = Moved(kept)[i].dts
        /\ Moved(kept)[i].dts = Moved(kept)[i].at - origin - Lag(Moved(kept)[i].stream)
                                  - off(Moved(kept)[i].stream)
  BY <1>1, <1>3 DEF Fresh
<1>8. \A i \in 1 .. Len(sorted) :
        /\ sorted[i].ts = sorted[i].dts
        /\ sorted[i].dts = sorted[i].at - origin - Lag(sorted[i].stream) - off(sorted[i].stream)
  <2> TAKE i \in 1 .. Len(sorted)
  <2>1. f[i] \in 1 .. Len(kept) /\ sorted[i] = Moved(kept)[f[i]]
    BY <1>6
  <2> QED BY <1>7, <2>1
<1>9. ASSUME NEW s \in Streams PROVE Line(sorted, s, nx[s]) /\ Has(sorted, s)
  <2> DEFINE c == origin + Lag(s) + off(s)
  <2>1. c \in Int
    <3>1. Lag(s) \in Nat /\ off(s) \in Int
      BY <1>4, FramesAssumption DEF Lag
    <3> QED BY <3>1
  <2>2. \A i \in 1 .. Len(kept) : Moved(kept)[i].stream = s => Moved(kept)[i].ts = Moved(kept)[i].at - c
    <3> SUFFICES ASSUME NEW i \in 1 .. Len(kept), Moved(kept)[i].stream = s
                 PROVE  Moved(kept)[i].ts = Moved(kept)[i].at - c
      OBVIOUS
    <3>1. Moved(kept)[i].ts = Moved(kept)[i].at - origin - Lag(s) - off(s)
      BY <1>7
    <3>2. Moved(kept)[i].at \in Nat
      BY <1>2, <1>3, PacketFields
    <3>3. Lag(s) \in Nat /\ off(s) \in Int
      BY <1>4, FramesAssumption DEF Lag
    <3> QED BY <3>1, <3>2, <3>3
  <2> HIDE DEF c
  <2>3. Line(kept, s, nx[s])
    BY DEF Collected
  <2>4. Line(sorted, s, nx[s])
    BY <1>1, <1>3, <1>5, <2>1, <2>2, <2>3, LineSorted, ZenonT(40)
  <2>5. Has(sorted, s)
    <3>1. PICK l \in 1 .. Len(kept) : kept[l].stream = s
      BY <1>1, Indices DEF Complete, Has
    <3>2. PICK i \in 1 .. Len(kept) : f[i] = l
      BY <1>6
    <3>3. sorted[i].stream = s
      BY <1>3, <1>6, <3>1, <3>2
    <3> QED BY <1>6, <3>3, Indices DEF Has
  <2> QED BY <2>4, <2>5
<1>10. Len(kept) > 0
  <2>1. FirstIndex(kept, Video) \in 1 .. Len(kept)
    BY <1>1, FirstIs, NumTracksType DEF Complete
  <2> QED BY <1>1, <2>1
<1>11. \A l \in 1 .. Len(kept) : \E i \in 1 .. Len(sorted) :
         sorted[i].stream = kept[l].stream /\ sorted[i].at = kept[l].at
  <2> TAKE l \in 1 .. Len(kept)
  <2>1. PICK i \in 1 .. Len(kept) : f[i] = l
    BY <1>6
  <2>2. sorted[i].stream = kept[l].stream /\ sorted[i].at = kept[l].at
    BY <1>3, <1>6, <2>1
  <2> QED BY <1>6, <2>2
<1>12. \A i \in 1 .. Len(sorted) : \E l \in 1 .. Len(kept) :
         /\ sorted[i].stream = kept[l].stream /\ sorted[i].at = kept[l].at
         /\ sorted[i].key = kept[l].key
  <2> TAKE i \in 1 .. Len(sorted)
  <2>1. f[i] \in 1 .. Len(kept) /\ sorted[i] = Moved(kept)[f[i]]
    BY <1>6
  <2> QED BY <1>3, <2>1
<1> QED BY <1>6, <1>8, <1>9, <1>10, <1>11, <1>12 DEF sorted, off

LEMMA BeginInv ==
  ASSUME Inv, ~ Started, NEW kept, Collected(kept, next'), Complete(kept), Begin(kept),
         next' \in [Streams -> Nat], gop' \in 0 .. MaxGop,
         UNCHANGED <<max_batch, origin, session>>
  PROVE  Inv'
<1> DEFINE sorted == Resort(Moved(kept))
<1>1. origin \in Nat /\ kept \in Seq(Packet)
  BY DEF Inv, TypeOK, Collected
<1>2. /\ sorted \in Seq(Packet) /\ Len(sorted) = Len(kept) /\ Len(kept) > 0 /\ Ordered(sorted)
      /\ \A s \in Streams : Line(sorted, s, next'[s]) /\ Has(sorted, s)
      /\ \A i \in 1 .. Len(sorted) :
           /\ sorted[i].ts = sorted[i].dts
           /\ sorted[i].dts = sorted[i].at - origin - Lag(sorted[i].stream)
                - (IF sorted[i].stream = Video THEN VideoOffsetFrom(kept)
                   ELSE AudioOffsetsFrom(kept)[sorted[i].stream])
  BY <1>1, SortedKept
<1>3. /\ received_video' = TRUE /\ received_audio' = TRUE
      /\ video_offset' = VideoOffsetFrom(kept) /\ audio_offsets' = AudioOffsetsFrom(kept)
      /\ highest_video_ts' = HighestOf(sorted, {Video}, highest_video_ts)
      /\ highest_audio_ts' = HighestOf(sorted, Tracks, highest_audio_ts - FirstOf(kept, 1).ts)
      /\ packets' = Tail(sorted) /\ sent' = Append(<< >>, Head(sorted))
  BY BeginIs, NothingSent
<1>4. max_batch' = max_batch /\ origin' = origin /\ session' = session
  OBVIOUS
<1> HIDE DEF sorted
<1>5. Len(sorted) > 0
  BY <1>2
<1>6. /\ packets' = From(sorted, 2) /\ packets' \in Seq(Packet)
      /\ sent' = <<Head(sorted)>> /\ sent' \in Seq(Packet) /\ sent' \o packets' = sorted
  BY <1>2, <1>3, <1>5, HeadAndTail
<1>7. Started' /\ sent' # << >>
  BY <1>3, <1>6 DEF Started
<1>8. TypeOK'
  <2>1. video_offset' \in Int /\ audio_offsets' \in [Tracks -> Nat]
    BY <1>1, <1>3, OffsetsType
  <2>2. highest_video_ts \in Int /\ highest_audio_ts \in Int
    BY DEF Inv, TypeOK
  <2>3. FirstOf(kept, 1).ts \in Int
    <3>1. Has(kept, 1)
      BY NumTracksType DEF Complete
    <3> QED BY <1>1, <3>1, FirstIs, PacketFields
  <2>4. highest_video_ts' \in Int /\ highest_audio_ts' \in Int
    BY <1>2, <1>3, <2>2, <2>3, HighestIs
  <2> QED BY <1>3, <1>4, <1>6, <2>1, <2>4 DEF Inv, TypeOK
<1>9. Ordered(packets)'
  <2>1. 2 \in 1 .. Len(sorted) + 1
    BY <1>2, <1>5
  <2>2. Ordered(packets')
    BY <1>2, <1>6, <2>1, FromOrdered
  <2> QED BY <2>2 DEF Ordered
<1>10. Stamped'
  <2>1. 2 \in 1 .. Len(sorted) + 1 /\ Len(sorted) \in Nat
    BY <1>2, <1>5
  <2>2. /\ Len(packets') = Len(sorted) - 2 + 1
        /\ \A i \in 1 .. Len(sorted) - 2 + 1 : packets'[i] = sorted[2 - 1 + i]
    BY <1>2, <1>6, <2>1, FromIs
  <2>3. \A i \in 1 .. Len(packets') : \E j \in 1 .. Len(sorted) : packets'[i] = sorted[j]
    <3> TAKE i \in 1 .. Len(packets')
    <3>1. i \in 1 .. Len(sorted) - 2 + 1 /\ 2 - 1 + i \in 1 .. Len(sorted)
      BY <2>1, <2>2
    <3> QED BY <2>2, <3>1
  <2>4. \A i \in 1 .. Len(packets') : (Rebased(packets[i]))'
    <3> TAKE i \in 1 .. Len(packets')
    <3>1. PICK j \in 1 .. Len(sorted) : packets'[i] = sorted[j]
      BY <2>3
    <3> DEFINE q == packets'[i]
    <3>2. /\ q.ts = q.dts
          /\ q.dts = q.at - origin' - Lag(q.stream)
                       - (IF q.stream = Video THEN video_offset' ELSE audio_offsets'[q.stream])
      BY <1>2, <1>3, <1>4, <3>1
    <3> QED BY <3>2 DEF Rebased, OffsetOf
  <2>5. DOMAIN packets' = 1 .. Len(packets')
    BY <1>6
  <2> QED BY <1>7, <2>4, <2>5 DEF Stamped
<1>11. InLine'
  BY <1>2, <1>6 DEF InLine
<1>12. Flagged'
  <2>1. \A s \in Streams : Has(sent' \o packets', s)
    BY <1>2, <1>6
  <2> QED BY <1>7, <2>1 DEF Flagged, Has, IndicesOf
<1> QED BY <1>8, <1>9, <1>10, <1>11, <1>12 DEF Inv

LEMMA CollectInv ==
  ASSUME Inv, NEW s \in Streams, NEW key \in BOOLEAN, Collect(s, key)
  PROVE  Inv'
<1> DEFINE seq == Insert(packets, Arrived(s, key))
           video == received_video \/ s = Video
           audio == received_audio \/ s # Video
           pruned == Prune(seq)
           kept == Kept(seq)
<1>1. ~ Started /\ Arrives(s, key) /\ UNCHANGED <<max_batch, origin, session>>
  BY DEF Collect
<1>2. next' \in [Streams -> Nat] /\ gop' \in 0 .. MaxGop
  BY <1>1, ArrivesIs DEF Inv
<1>3. /\ Collected(seq, next') /\ \A t \in Streams : Has(seq, t) <=> t = s \/ Has(packets, t)
  BY <1>1, CollectedInsert
<1>4. received_video \in BOOLEAN /\ received_audio \in BOOLEAN
  BY DEF Inv, TypeOK
<1>5. video <=> Has(seq, Video)
  BY <1>1, <1>3, NothingSent, NumTracksType
<1>6. \/ ~ (video /\ audio) /\ Wait(seq, video, audio)
      \/ video /\ audio /\ ~ Complete(seq) /\ Wait(seq, TRUE, ~ Has(seq, Video))
      \/ /\ video /\ audio /\ Complete(seq) /\ ~ Complete(kept)
         /\ Wait(kept, Has(kept, Video), ~ Has(kept, Video))
      \/ /\ video /\ audio /\ Complete(seq) /\ Complete(kept) /\ ~ Ready(pruned)
         /\ Wait(kept, TRUE, FALSE)
      \/ /\ video /\ audio /\ Complete(seq) /\ Complete(kept) /\ Ready(pruned)
         /\ Begin(kept)
  BY DEF Collect, Kept
<1>7. Complete(seq) => Collected(kept, next')
  BY <1>3, KeptIs
<1>8. \A l : Has(l, Video) \in BOOLEAN
  BY DEF Has
<1> HIDE DEF seq, pruned, kept
<1>9. CASE ~ (video /\ audio) /\ Wait(seq, video, audio)
  <2>1. /\ packets' = seq /\ received_video' = video /\ received_audio' = audio
        /\ UNCHANGED <<offsets, highest, max_batch, origin, session, sent>>
    BY <1>1, <1>9 DEF Wait
  <2>2. video \in BOOLEAN /\ audio \in BOOLEAN
    OBVIOUS
  <2> HIDE DEF video, audio
  <2> QED BY <1>1, <1>2, <1>3, <1>5, <1>9, <2>1, <2>2, Waiting
<1>10. CASE video /\ audio /\ ~ Complete(seq) /\ Wait(seq, TRUE, ~ Has(seq, Video))
  <2>1. /\ packets' = seq /\ received_video' = TRUE /\ received_audio' = ~ Has(seq, Video)
        /\ UNCHANGED <<offsets, highest, max_batch, origin, session, sent>>
    BY <1>1, <1>10 DEF Wait
  <2>2. Has(seq, Video) /\ received_audio' = FALSE
    BY <1>5, <1>10, <2>1
  <2> QED BY <1>1, <1>2, <1>3, <2>1, <2>2, Waiting
<1>11. CASE /\ video /\ audio /\ Complete(seq) /\ ~ Complete(kept)
            /\ Wait(kept, Has(kept, Video), ~ Has(kept, Video))
  <2>1. /\ packets' = kept /\ received_video' = Has(kept, Video) /\ received_audio' = ~ Has(kept, Video)
        /\ UNCHANGED <<offsets, highest, max_batch, origin, session, sent>>
    BY <1>1, <1>11 DEF Wait
  <2>2. Collected(kept, next')
    BY <1>7, <1>11
  <2>3. Has(kept, Video) \in BOOLEAN
    BY <1>8
  <2> QED BY <1>1, <1>2, <2>1, <2>2, <2>3, Waiting
<1>12. CASE /\ video /\ audio /\ Complete(seq) /\ Complete(kept) /\ ~ Ready(pruned)
            /\ Wait(kept, TRUE, FALSE)
  <2>1. /\ packets' = kept /\ received_video' = TRUE /\ received_audio' = FALSE
        /\ UNCHANGED <<offsets, highest, max_batch, origin, session, sent>>
    BY <1>1, <1>12 DEF Wait
  <2>2. Collected(kept, next') /\ Has(kept, Video)
    BY <1>7, <1>12, NumTracksType DEF Complete
  <2> QED BY <1>1, <1>2, <2>1, <2>2, Waiting
<1>13. CASE /\ video /\ audio /\ Complete(seq) /\ Complete(kept) /\ Ready(pruned)
            /\ Begin(kept)
  BY <1>1, <1>2, <1>7, <1>13, BeginInv
<1> HIDE DEF video, audio
<1> QED BY <1>6, <1>9, <1>10, <1>11, <1>12, <1>13

-----------------------------------------------------------------------------
(* After the start *)

LEMMA StreamableIs ==
  ASSUME NEW seq \in Seq(Packet), NEW video, NEW audio
  PROVE  /\ Streamable(seq, video, audio) \in 0 .. Len(seq)
         /\ \A i \in 1 .. Streamable(seq, video, audio) : HasHigherOpposing(seq[i], video, audio)
<1> DEFINE stuck == {i \in DOMAIN seq : ~ HasHigherOpposing(seq[i], video, audio)}
<1>1. DOMAIN seq = 1 .. Len(seq) /\ Len(seq) \in Nat
  OBVIOUS
<1>2. Streamable(seq, video, audio) = IF stuck = {} THEN Len(seq) ELSE Min(stuck) - 1
  BY DEF Streamable
<1>3. \A i \in 1 .. Len(seq) : i \notin stuck => HasHigherOpposing(seq[i], video, audio)
  BY <1>1
<1>4. stuck \subseteq 1 .. Len(seq)
  BY <1>1
<1> HIDE DEF stuck
<1>5. CASE stuck = {}
  BY <1>1, <1>2, <1>3, <1>5
<1>6. CASE stuck # {}
  <2>1. Min(stuck) \in stuck /\ \A y \in stuck : Min(stuck) <= y
    <3>1. stuck \in SUBSET Nat
      BY <1>4
    <3> QED BY <1>6, <3>1, LeastIn
  <2>2. Min(stuck) \in 1 .. Len(seq)
    BY <1>4, <2>1
  <2>3. \A i \in 1 .. Min(stuck) - 1 : i \in 1 .. Len(seq) /\ i \notin stuck
    <3> SUFFICES ASSUME NEW i \in 1 .. Min(stuck) - 1 PROVE i \in 1 .. Len(seq) /\ i \notin stuck
      OBVIOUS
    <3>1. i \in 1 .. Len(seq) /\ ~ (Min(stuck) <= i)
      BY <1>1, <2>2
    <3> QED BY <2>1, <3>1
  <2> QED BY <1>1, <1>2, <1>3, <1>6, <2>2, <2>3
<1> QED BY <1>5, <1>6

(* What goes leaves the front of the list for the end of what was sent. *)
LEMMA SendIs ==
  ASSUME NEW seq \in Seq(Packet), NEW streamable \in 0 .. Len(seq), max_batch \in Nat,
         sent \in Seq(Packet), Send(seq, streamable)
  PROVE  \E n \in 0 .. streamable :
           /\ packets' = From(seq, n + 1) /\ sent' = sent \o SubSeq(seq, 1, n)
           /\ packets' \in Seq(Packet) /\ sent' \in Seq(Packet)
           /\ sent' \o packets' = sent \o seq
<1> DEFINE n == IF streamable = 0 THEN 0 ELSE IF streamable - 1 > max_batch THEN 2 ELSE 1
<1>1. n \in 0 .. streamable /\ n \in 0 .. Len(seq) /\ Len(seq) \in Nat
  OBVIOUS
<1>2. packets' = From(seq, n + 1) /\ sent' = sent \o SubSeq(seq, 1, n)
  BY DEF Send
<1> HIDE DEF n
<1> DEFINE front == SubSeq(seq, 1, n)
<1>3. front \in Seq(Packet) /\ packets' \in Seq(Packet)
  <2>1. n + 1 \in 1 .. Len(seq) + 1
    BY <1>1
  <2>2. packets' \in Seq(Packet)
    BY <1>2, <2>1, FromIs
  <2>3. \A i \in 1 .. n : seq[i] \in Packet
    BY <1>1
  <2> QED BY <1>1, <2>2, <2>3, SubSeqProperties
<1>4. front \o packets' = seq
  <2> DEFINE rear == packets'
  <2>1. /\ rear \in Seq(Packet) /\ Len(rear) = Len(seq) - n
        /\ \A i \in 1 .. Len(seq) - n : rear[i] = seq[n + i]
    <3>1. n + 1 \in 1 .. Len(seq) + 1
      BY <1>1
    <3> DEFINE m == n + 1
    <3>2. m \in 1 .. Len(seq) + 1 /\ packets' = From(seq, m) /\ m = n + 1
      BY <1>2, <3>1
    <3> HIDE DEF m
    <3>3. /\ rear \in Seq(Packet) /\ Len(rear) = Len(seq) - m + 1
          /\ \A i \in 1 .. Len(seq) - m + 1 : rear[i] = seq[m - 1 + i]
      BY <3>2, FromIs
    <3>4. Len(seq) - m + 1 = Len(seq) - n /\ \A i \in 1 .. Len(seq) - n : m - 1 + i = n + i
      BY <1>1, <3>2
    <3> HIDE DEF rear
    <3> QED BY <3>3, <3>4
  <2>2. Len(front) = n /\ \A i \in 1 .. n : front[i] = seq[i]
    <3>1. front = [i \in 1 .. n |-> seq[i]]
      BY <1>1
    <3> QED BY <1>1, <3>1
  <2>3. /\ front \o rear \in Seq(Packet) /\ Len(front \o rear) = Len(front) + Len(rear)
        /\ \A i \in 1 .. Len(front) + Len(rear) :
             (front \o rear)[i] = IF i <= Len(front) THEN front[i] ELSE rear[i - Len(front)]
    BY <1>3, <2>1, ConcatProperties
  <2> HIDE DEF front, rear
  <2>4. Len(front) + Len(rear) = Len(seq)
    BY <1>1, <2>1, <2>2
  <2>5. ASSUME NEW i \in 1 .. Len(seq) PROVE (front \o rear)[i] = seq[i]
    <3>1. CASE i <= n
      BY <1>1, <2>2, <2>3, <2>4, <3>1
    <3>2. CASE i > n
      <4>1. i - n \in 1 .. Len(seq) - n /\ n + (i - n) = i
        BY <1>1, <3>2
      <4>2. rear[i - n] = seq[i]
        BY <2>1, <4>1
      <4>3. (front \o rear)[i] = rear[i - n]
        BY <1>1, <2>2, <2>3, <2>4, <3>2
      <4> QED BY <4>2, <4>3
    <3>3. i <= n \/ i > n
      BY <1>1
    <3> QED BY <3>1, <3>2, <3>3
  <2>6. front \o rear = seq
    BY <2>3, <2>4, <2>5, SeqEqual
  <2> QED BY <2>6 DEF rear
<1>5. sent' = sent \o front /\ sent' \in Seq(Packet)
  BY <1>2, <1>3, ConcatProperties
<1> HIDE DEF front
<1>6. (sent \o front) \o packets' = sent \o (front \o packets')
  BY <1>3, ConcatAssociative
<1>7. sent' \o packets' = sent \o seq
  BY <1>4, <1>5, <1>6
<1>8. sent' = sent \o SubSeq(seq, 1, n)
  BY <1>5 DEF front
<1> QED BY <1>1, <1>2, <1>3, <1>5, <1>7, <1>8

LEMMA InsertedBehind ==
  ASSUME NEW pre \in Seq(Packet), NEW old \in Seq(Packet), NEW new, NEW p, NEW k, InsertedAt(new, old, p, k)
  PROVE  InsertedAt(pre \o new, pre \o old, p, Len(pre) + k)
<1>1. /\ new \in Seq(Packet) /\ Len(new) = Len(old) + 1 /\ k \in 1 .. Len(old) + 1
      /\ \A i \in 1 .. Len(old) + 1 :
           new[i] = IF i < k THEN old[i] ELSE IF i = k THEN p ELSE old[i - 1]
  BY DEF InsertedAt
<1>2. Len(pre) \in Nat /\ Len(old) \in Nat
  OBVIOUS
<1>3. /\ pre \o old \in Seq(Packet) /\ Len(pre \o old) = Len(pre) + Len(old)
      /\ \A i \in 1 .. Len(pre) + Len(old) :
           (pre \o old)[i] = IF i <= Len(pre) THEN pre[i] ELSE old[i - Len(pre)]
  BY ConcatProperties
<1>4. /\ pre \o new \in Seq(Packet) /\ Len(pre \o new) = Len(pre) + Len(new)
      /\ \A i \in 1 .. Len(pre) + Len(new) :
           (pre \o new)[i] = IF i <= Len(pre) THEN pre[i] ELSE new[i - Len(pre)]
  BY <1>1, ConcatProperties
<1> DEFINE a == pre \o old
           b == pre \o new
           q == Len(pre) + k
<1>5. /\ a \in Seq(Packet) /\ Len(a) = Len(pre) + Len(old)
      /\ \A i \in 1 .. Len(pre) + Len(old) : a[i] = IF i <= Len(pre) THEN pre[i] ELSE old[i - Len(pre)]
      /\ b \in Seq(Packet) /\ Len(b) = Len(pre) + Len(new)
      /\ \A i \in 1 .. Len(pre) + Len(new) : b[i] = IF i <= Len(pre) THEN pre[i] ELSE new[i - Len(pre)]
  BY <1>3, <1>4
<1> HIDE DEF a, b
<1>6. ASSUME NEW i \in 1 .. Len(a) + 1
      PROVE  b[i] = IF i < q THEN a[i] ELSE IF i = q THEN p ELSE a[i - 1]
  <2>1. i \in 1 .. Len(pre) + Len(new)
    BY <1>1, <1>2, <1>5
  <2>2. CASE i <= Len(pre)
    BY <1>1, <1>2, <1>5, <2>1, <2>2, SMTT(40)
  <2>3. CASE i > Len(pre)
    <3> DEFINE d == i - Len(pre)
    <3>1. d \in 1 .. Len(old) + 1 /\ b[i] = new[d]
      BY <1>1, <1>2, <1>5, <2>1, <2>3
    <3>2. CASE d < k
      <4>1. i < q /\ i \in 1 .. Len(pre) + Len(old)
        BY <1>1, <1>2, <2>3, <3>1, <3>2
      <4>2. a[i] = old[d]
        BY <1>2, <1>5, <2>3, <4>1
      <4> QED BY <1>1, <3>1, <3>2, <4>1, <4>2
    <3>3. CASE d = k
      <4>1. i = q
        BY <1>1, <1>2, <3>3
      <4>2. ~ (i < q) /\ ~ (d < k)
        BY <1>1, <1>2, <4>1, <3>3
      <4> QED BY <1>1, <3>1, <3>3, <4>1, <4>2
    <3>4. CASE d > k
      <4>1. ~ (i < q) /\ i # q /\ i - 1 \in 1 .. Len(pre) + Len(old) /\ ~ (i - 1 <= Len(pre))
        BY <1>1, <1>2, <2>3, <3>1, <3>4
      <4>2. a[i - 1] = old[i - 1 - Len(pre)] /\ i - 1 - Len(pre) = d - 1
        BY <1>2, <1>5, <4>1
      <4>3. new[d] = old[d - 1]
        <5>1. ~ (d < k) /\ d # k
          BY <1>1, <3>1, <3>4
        <5> QED BY <1>1, <3>1, <5>1
      <4> QED BY <3>1, <4>1, <4>2, <4>3
    <3> QED BY <1>1, <3>1, <3>2, <3>3, <3>4, SMTT(40)
  <2> QED BY <1>2, <2>2, <2>3
<1>7. q \in 1 .. Len(a) + 1 /\ Len(b) = Len(a) + 1
  BY <1>1, <1>2, <1>5
<1>8. InsertedAt(b, a, p, q)
  BY <1>5, <1>6, <1>7 DEF InsertedAt
<1> QED BY <1>8 DEF a, b

(* A packet of the list lies in what was sent and is to be sent. *)
LEMMA QueuedIn ==
  ASSUME Inv, NEW i \in 1 .. Len(packets)
  PROVE  /\ Len(sent) + i \in 1 .. Len(sent \o packets)
         /\ (sent \o packets)[Len(sent) + i] = packets[i]
         /\ packets[i] \in Packet
         /\ packets[i].at + Frame(packets[i].stream) <= next[packets[i].stream]
<1>1. packets \in Seq(Packet) /\ sent \in Seq(Packet)
  BY DEF Inv, TypeOK
<1>2. Len(packets) \in Nat /\ Len(sent) \in Nat /\ packets[i] \in Packet
  BY <1>1
<1>3. /\ sent \o packets \in Seq(Packet) /\ Len(sent \o packets) = Len(sent) + Len(packets)
      /\ \A j \in 1 .. Len(sent) + Len(packets) :
           (sent \o packets)[j] = IF j <= Len(sent) THEN sent[j] ELSE packets[j - Len(sent)]
  BY <1>1, ConcatProperties
<1>4. /\ Len(sent) + i \in 1 .. Len(sent) + Len(packets) /\ ~ (Len(sent) + i <= Len(sent))
      /\ Len(sent) + i - Len(sent) = i
  BY <1>2
<1>5. (sent \o packets)[Len(sent) + i] = packets[i]
  BY <1>3, <1>4
<1>6. Len(sent) + i \in IndicesOf(sent \o packets, packets[i].stream)
  BY <1>3, <1>4, <1>5, Indices
<1>7. packets[i].stream \in Streams
  BY <1>2, PacketFields
<1> QED BY <1>2, <1>3, <1>4, <1>5, <1>6, <1>7 DEF Inv, InLine, Line

LEMMA InterleaveInv ==
  ASSUME Inv, NEW s \in Streams, NEW key \in BOOLEAN, Interleave(s, key)
  PROVE  Inv'
<1> DEFINE p == Apply(video_offset, audio_offsets, Arrived(s, key))
           seq == Insert(packets, p)
           video == HighestOf(<<p>>, {Video}, highest_video_ts)
           audio == HighestOf(<<p>>, Tracks, highest_audio_ts)
<1>1. /\ Started /\ Arrives(s, key) /\ highest_video_ts' = video /\ highest_audio_ts' = audio
      /\ Send(seq, Streamable(seq, video, audio))
      /\ UNCHANGED <<flags, offsets, max_batch, origin, session>>
  BY DEF Interleave
<1>2. /\ packets \in Seq(Packet) /\ sent \in Seq(Packet) /\ Len(packets) \in Nat /\ Len(sent) \in Nat
      /\ video_offset \in Int /\ audio_offsets \in [Tracks -> Nat] /\ audio_offsets \in [Tracks -> Int]
      /\ max_batch \in Nat /\ highest_video_ts \in Int /\ highest_audio_ts \in Int
      /\ next \in [Streams -> Nat] /\ \A t \in Streams : next[t] \in Nat
  BY DEF Inv, TypeOK
<1>3. /\ next' \in [Streams -> Nat] /\ gop' \in 0 .. MaxGop
      /\ \A t \in Streams : next'[t] = IF t = s THEN next[t] + Frame(t) ELSE next[t]
      /\ Arrived(s, key) \in Packet /\ Fresh(Arrived(s, key), origin)
      /\ Arrived(s, key).stream = s /\ Arrived(s, key).at = next[s]
  BY <1>1, ArrivesIs DEF Inv
<1>4. p \in Packet /\ p.stream = s /\ p.at = next[s] /\ Rebased(p)
  <2> DEFINE a == Arrived(s, key)
             off == IF a.stream = Video THEN video_offset ELSE audio_offsets[a.stream]
  <2>1. p \in Packet /\ p.stream = a.stream /\ p.at = a.at /\ p.dts = a.dts - off /\ p.ts = a.dts - off
    BY <1>2, <1>3, ApplyIs
  <2>2. a.stream = s /\ a.at = next[s] /\ a.dts = a.at - origin - Lag(a.stream)
    BY <1>3 DEF Fresh
  <2> HIDE DEF a, p
  <2> QED BY <2>1, <2>2 DEF Rebased, OffsetOf
<1>5. /\ video \in Int /\ audio \in Int
  <2>1. <<p>> \in Seq(Packet)
    BY <1>4
  <2> QED BY <1>2, <2>1, HighestIs
<1> HIDE DEF p, video, audio
<1>6. PICK k \in 1 .. Len(packets) + 1 :
        /\ InsertedAt(seq, packets, p, k)
        /\ \A i \in 1 .. k - 1 : packets[i].ts <= p.ts
        /\ \A i \in k .. Len(packets) : p.ts <= packets[i].ts
  BY <1>2, <1>4, InsertOrders DEF Inv
<1>7. Ordered(seq)
  BY <1>2, <1>4, <1>6, InsertOrdered DEF Inv
<1> HIDE DEF seq
<1>8. /\ seq \in Seq(Packet) /\ Len(seq) = Len(packets) + 1
      /\ \A i \in 1 .. Len(packets) + 1 :
           seq[i] = IF i < k THEN packets[i] ELSE IF i = k THEN p ELSE packets[i - 1]
  BY <1>6 DEF InsertedAt
<1>9. \A i \in 1 .. Len(packets) : Rebased(packets[i])
  BY <1>1, <1>2 DEF Inv, Stamped
<1>10. \A i \in k .. Len(packets) : packets[i].stream # s
  <2> SUFFICES ASSUME NEW i \in k .. Len(packets), packets[i].stream = s PROVE FALSE
    OBVIOUS
  <2>1. i \in 1 .. Len(packets) /\ p.ts <= packets[i].ts
    BY <1>2, <1>6
  <2>2. packets[i] \in Packet /\ packets[i].at + Frame(s) <= next[s]
    BY <2>1, QueuedIn
  <2>3. /\ p.ts = next[s] - origin - Lag(s) - OffsetOf(s)
        /\ packets[i].ts = packets[i].at - origin - Lag(s) - OffsetOf(s)
    BY <1>4, <1>9, <2>1 DEF Rebased
  <2>4. Lag(s) \in Nat /\ OffsetOf(s) \in Int /\ origin \in Nat
    BY <1>2, FramesAssumption DEF Lag, OffsetOf, Streams, Inv, TypeOK
  <2>5. packets[i].at \in Nat /\ next[s] \in Nat /\ Frame(s) \in Nat /\ Frame(s) > 0
    BY <1>2, <2>2, PacketFields, FrameType
  <2> QED BY <2>1, <2>2, <2>3, <2>4, <2>5, SMTT(40)
<1>11. \A i \in 1 .. Len(seq) : Rebased(seq[i])
  <2> TAKE i \in 1 .. Len(seq)
  <2>1. i \in 1 .. Len(packets) + 1
    BY <1>8
  <2>2. CASE i < k
    <3>1. i \in 1 .. Len(packets) /\ seq[i] = packets[i]
      BY <1>2, <1>8, <2>1, <2>2
    <3> QED BY <1>9, <3>1
  <2>3. CASE i = k
    BY <1>4, <1>8, <2>1, <2>3
  <2>4. CASE i > k
    <3>1. i - 1 \in 1 .. Len(packets) /\ seq[i] = packets[i - 1]
      BY <1>2, <1>8, <2>1, <2>4
    <3> QED BY <1>9, <3>1
  <2> QED BY <2>1, <2>2, <2>3, <2>4
<1> DEFINE old == sent \o packets
           all == sent \o seq
<1>12. InsertedAt(all, old, p, Len(sent) + k)
  BY <1>2, <1>6, InsertedBehind
<1>13. old \in Seq(Packet) /\ Len(old) = Len(sent) + Len(packets)
       /\ \A j \in 1 .. Len(sent) + Len(packets) :
            old[j] = IF j <= Len(sent) THEN sent[j] ELSE packets[j - Len(sent)]
  BY <1>2, ConcatProperties
<1> HIDE DEF old, all
<1>14. \A i \in Len(sent) + k .. Len(old) : old[i].stream # s
  <2> TAKE i \in Len(sent) + k .. Len(old)
  <2>1. i - Len(sent) \in k .. Len(packets) /\ ~ (i <= Len(sent)) /\ i \in 1 .. Len(sent) + Len(packets)
    BY <1>2, <1>13
  <2>2. old[i] = packets[i - Len(sent)]
    BY <1>13, <2>1
  <2> QED BY <1>10, <2>1, <2>2
<1>15. \A t \in Streams : Line(all, t, next'[t])
  <2> TAKE t \in Streams
  <2>1. Line(old, t, next[t]) /\ next[t] \in Nat
    BY <1>2 DEF Inv, InLine, old
  <2>2. p.stream = t => p.at = next[t] /\ \A i \in Len(sent) + k .. Len(old) : old[i].stream # t
    BY <1>4, <1>14
  <2>3. Line(all, t, IF p.stream = t THEN next[t] + Frame(t) ELSE next[t])
    BY <1>4, <1>12, <1>13, <2>1, <2>2, LineInsert
  <2> QED BY <1>3, <1>4, <2>3
<1>16. \A t \in Streams : Has(all, t)
  <2> TAKE t \in Streams
  <2>1. /\ all \in Seq(Packet) /\ Len(all) = Len(old) + 1 /\ Len(sent) + k \in 1 .. Len(old) + 1
        /\ \A i \in 1 .. Len(old) + 1 :
             all[i] = IF i < Len(sent) + k THEN old[i] ELSE IF i = Len(sent) + k THEN p ELSE old[i - 1]
    BY <1>12 DEF InsertedAt
  <2>2. PICK i \in 1 .. Len(old) : old[i].stream = t
    <3>1. Has(old, t)
      BY <1>1 DEF Inv, Flagged, old
    <3> QED BY <1>13, <3>1, Indices DEF Has
  <2>3. \E j \in 1 .. Len(all) : all[j] = old[i]
    <3>1. CASE i < Len(sent) + k
      <4>1. i \in 1 .. Len(old) + 1 /\ all[i] = old[i]
        BY <1>2, <2>1, <3>1
      <4> QED BY <2>1, <4>1
    <3>2. CASE ~ (i < Len(sent) + k)
      <4>1. /\ i + 1 \in 1 .. Len(old) + 1 /\ ~ (i + 1 < Len(sent) + k) /\ i + 1 # Len(sent) + k
            /\ i + 1 - 1 = i
        BY <1>2, <2>1, <3>2
      <4>2. all[i + 1] = old[i]
        BY <2>1, <4>1
      <4> QED BY <2>1, <4>1, <4>2
    <3> QED BY <3>1, <3>2
  <2> QED BY <2>1, <2>2, <2>3, Indices DEF Has
<1>17. PICK n \in 0 .. Streamable(seq, video, audio) :
         /\ packets' = From(seq, n + 1) /\ packets' \in Seq(Packet) /\ sent' \in Seq(Packet)
         /\ sent' = sent \o SubSeq(seq, 1, n) /\ sent' \o packets' = all
  BY <1>1, <1>2, <1>8, StreamableIs, SendIs DEF all
<1>18. Streamable(seq, video, audio) \in 0 .. Len(seq) /\ Len(seq) \in Nat
  BY <1>8, StreamableIs
<1> DEFINE m == n + 1
<1>19. m \in 1 .. Len(seq) + 1 /\ packets' = From(seq, m)
  BY <1>17, <1>18
<1> HIDE DEF m
<1>20. /\ received_video' = received_video /\ received_audio' = received_audio
       /\ video_offset' = video_offset /\ audio_offsets' = audio_offsets
       /\ max_batch' = max_batch /\ origin' = origin /\ session' = session
  BY <1>1 DEF flags, offsets
<1>21. Started'
  BY <1>1, <1>20 DEF Started
<1>22. TypeOK'
  BY <1>1, <1>3, <1>5, <1>17, <1>20 DEF Inv, TypeOK
<1>23. Ordered(packets)'
  <2>1. Ordered(packets')
    BY <1>7, <1>8, <1>19, FromOrdered
  <2> QED BY <2>1 DEF Ordered
<1>24. Stamped'
  <2>1. /\ Len(packets') = Len(seq) - m + 1
        /\ \A i \in 1 .. Len(seq) - m + 1 : packets'[i] = seq[m - 1 + i]
    BY <1>8, <1>19, FromIs
  <2>2. \A i \in DOMAIN packets' : Rebased(packets'[i])
    <3> TAKE i \in DOMAIN packets'
    <3>1. i \in 1 .. Len(seq) - m + 1
      BY <1>17, <2>1
    <3>2. m - 1 + i \in 1 .. Len(seq)
      BY <1>18, <1>19, <3>1
    <3> QED BY <1>11, <2>1, <3>1, <3>2
  <2> QED BY <1>20, <1>21, <2>2 DEF Stamped, Rebased, OffsetOf
<1>25. InLine'
  BY <1>15, <1>17 DEF InLine
<1>26. Flagged'
  <2>1. sent # << >> /\ sent' # << >>
    <3>1. sent # << >>
      BY <1>1 DEF Inv, Flagged
    <3>2. Len(sent) > 0
      BY <1>2, <3>1
    <3>3. SubSeq(seq, 1, n) \in Seq(Packet)
      <4>1. \A i \in 1 .. n : seq[i] \in Packet
        BY <1>8, <1>18
      <4> QED BY <1>18, <4>1, SubSeqProperties
    <3>4. Len(sent') = Len(sent) + Len(SubSeq(seq, 1, n)) /\ Len(SubSeq(seq, 1, n)) \in Nat
      BY <1>2, <1>17, <3>3, ConcatProperties
    <3>5. Len(sent') > 0
      BY <1>2, <3>2, <3>4
    <3> QED BY <3>1, <3>5
  <2> QED BY <1>16, <1>17, <1>21, <2>1 DEF Flagged, Has, IndicesOf
<1> QED BY <1>22, <1>23, <1>24, <1>25, <1>26 DEF Inv

-----------------------------------------------------------------------------
(* Starts of the output *)

LEMMA Quotient == \A a \in Nat, b \in Nat \ {0} : a \div b \in Nat
OBVIOUS

LEMMA PairMax ==
  ASSUME NEW a \in Nat, NEW b \in Nat
  PROVE  Max({a, b}) \in {a, b} /\ a <= Max({a, b}) /\ b <= Max({a, b})
<1>1. \E x \in {a, b} : \A y \in {a, b} : x >= y
  <2>1. a >= a /\ b >= b /\ (a >= b \/ b >= a)
    OBVIOUS
  <2> QED BY <2>1
<1>2. Max({a, b}) \in {a, b} /\ \A y \in {a, b} : Max({a, b}) >= y
  BY <1>1 DEF Max
<1> QED BY <1>2

LEMMA BatchType == BatchSize \in Nat
<1> DEFINE pair == {VideoFrame, AudioFrame}
           largest == Max(pair)
<1>1. VideoFrame \in Nat \ {0} /\ AudioFrame \in Nat \ {0} /\ NumTracks \in Nat
  BY FramesAssumption
<1>2. largest \in Nat
  BY <1>1, PairMax
<1> HIDE DEF largest
<1> DEFINE v == (2 * largest) \div VideoFrame
           a == (2 * largest) \div AudioFrame
<1>3. 2 * largest \in Nat
  BY <1>2
<1>4. v \in Nat /\ a \in Nat
  BY <1>1, <1>3, Quotient
<1>5. BatchSize = v + NumTracks * a
  BY DEF BatchSize, largest
<1> HIDE DEF v, a
<1>6. NumTracks * a \in Nat
  BY <1>1, <1>4
<1> QED BY <1>4, <1>5, <1>6

LEMMA BeginsType == \A b \in Begins : b \in [Streams -> Nat]
<1> DEFINE bound == MaxAge + MaxGop * VideoFrame + AudioFrame
<1>1. Begins \subseteq {[s \in Streams |-> 0]} \cup [Streams -> 0 .. bound]
  BY DEF Begins
<1>2. [s \in Streams |-> 0] \in [Streams -> Nat]
  OBVIOUS
<1> HIDE DEF bound
<1>3. \A b \in [Streams -> 0 .. bound] : b \in [Streams -> Nat]
  OBVIOUS
<1> QED BY <1>1, <1>2, <1>3

LEMMA NothingYet ==
  ASSUME packets = << >>, sent = << >>, received_video = FALSE
  PROVE  Ordered(packets) /\ Stamped /\ InLine /\ Flagged
<1>1. sent \o packets = << >>
  BY ConcatEmptySeq
<1>2. IndicesOf(<< >>, Video) = {} /\ \A s : IndicesOf(<< >>, s) = {}
  BY DEF IndicesOf
<1>3. Ordered(packets) /\ Stamped
  BY DEF Ordered, Stamped
<1>4. InLine
  BY <1>1, <1>2 DEF InLine, Line
<1>5. Flagged
  BY <1>2 DEF Flagged, Started, Has
<1> QED BY <1>3, <1>4, <1>5

LEMMA InitInv == Init => Inv
<1> SUFFICES ASSUME Init PROVE Inv
  OBVIOUS
<1>1. << >> \in Seq(Packet)
  OBVIOUS
<1>2. -Boot \in Int /\ 0 \in 0 .. MaxGop
  BY TimesAssumption, FramesAssumption
<1>3. [t \in Tracks |-> 0] \in [Tracks -> Nat]
  OBVIOUS
<1>4. TypeOK
  <2>1. next \in [Streams -> Nat] /\ max_batch \in Nat
    BY BatchType, BeginsType DEF Init
  <2>2. /\ packets \in Seq(Packet) /\ sent \in Seq(Packet) /\ audio_offsets \in [Tracks -> Nat]
        /\ highest_video_ts \in Int /\ gop \in 0 .. MaxGop
    BY <1>1, <1>2, <1>3 DEF Init
  <2>3. received_video \in BOOLEAN /\ received_audio \in BOOLEAN
    BY DEF Init
  <2>4. video_offset \in Int /\ highest_audio_ts \in Int /\ origin \in Nat /\ session \in Nat
    BY DEF Init
  <2> QED BY <2>1, <2>2, <2>3, <2>4 DEF TypeOK
<1>5. Ordered(packets) /\ Stamped /\ InLine /\ Flagged
  BY NothingYet DEF Init
<1> QED BY <1>4, <1>5 DEF Inv

LEMMA RestartInv == Inv /\ Restart => Inv'
<1> SUFFICES ASSUME Inv, Restart PROVE Inv'
  OBVIOUS
<1>1. /\ packets' = << >> /\ sent' = << >> /\ received_video' = FALSE /\ received_audio' = FALSE
      /\ video_offset' = 0 /\ audio_offsets' = [t \in Tracks |-> 0]
      /\ highest_video_ts' = -Boot /\ highest_audio_ts' = 0
      /\ max_batch' = max_batch + BatchSize /\ session' = session + 1 /\ gop' = 0
      /\ origin' = Max({next[s] : s \in Streams})
      /\ \E b \in Begins : next' = [s \in Streams |-> origin' + b[s]]
  BY DEF Restart, ResetPackets
<1>2. next \in [Streams -> Nat] /\ max_batch \in Nat /\ session \in Nat
  BY DEF Inv, TypeOK
<1>3. origin' \in Nat
  <2> DEFINE values == {next[Video]} \cup {next[s] : s \in Tracks}
  <2>1. \A s \in Streams : next[s] \in Nat
    BY <1>2
  <2>2. Tracks \in SUBSET (1 .. NumTracks)
    BY DEF Tracks
  <2>3. next[Video] \in Int /\ \A s \in Tracks : next[s] \in Int
    BY <2>1, NumTracksType
  <2>4. Max(values) \in values
    BY <2>2, <2>3, NumTracksType, GreatestOf
  <2>5. values = {next[s] : s \in Streams}
    BY DEF Streams
  <2>6. \A v \in values : v \in Nat
    BY <2>1, NumTracksType
  <2> HIDE DEF values
  <2> QED BY <1>1, <2>4, <2>5, <2>6
<1>4. next' \in [Streams -> Nat]
  <2>1. PICK b \in Begins : next' = [s \in Streams |-> origin' + b[s]]
    BY <1>1
  <2>2. \A s \in Streams : origin' + b[s] \in Nat
    BY <1>3, BeginsType
  <2> QED BY <2>1, <2>2
<1>5. TypeOK'
  <2>1. << >> \in Seq(Packet)
    OBVIOUS
  <2>2. -Boot \in Int /\ 0 \in 0 .. MaxGop
    BY TimesAssumption, FramesAssumption
  <2>3. [t \in Tracks |-> 0] \in [Tracks -> Nat]
    OBVIOUS
  <2>4. max_batch' \in Nat /\ session' \in Nat
    BY <1>1, <1>2, BatchType
  <2>5. /\ packets' \in Seq(Packet) /\ sent' \in Seq(Packet) /\ audio_offsets' \in [Tracks -> Nat]
        /\ highest_video_ts' \in Int /\ gop' \in 0 .. MaxGop
    BY <1>1, <2>1, <2>2, <2>3
  <2>6. received_video' \in BOOLEAN /\ received_audio' \in BOOLEAN
    BY <1>1
  <2>7. video_offset' \in Int /\ highest_audio_ts' \in Int
    BY <1>1
  <2> QED BY <1>3, <1>4, <2>4, <2>5, <2>6, <2>7 DEF TypeOK
<1>6. (Ordered(packets) /\ Stamped /\ InLine /\ Flagged)'
  <2>1. sent' \o packets' = << >>
    BY <1>1, ConcatEmptySeq
  <2>2. \A s : IndicesOf(<< >>, s) = {}
    BY DEF IndicesOf
  <2>3. Ordered(packets)' /\ Stamped'
    BY <1>1 DEF Ordered, Stamped
  <2>4. \A s \in Streams : Line(<< >>, s, next'[s])
    BY <2>2 DEF Line
  <2>5. InLine'
    BY <2>1, <2>4 DEF InLine
  <2>6. Flagged'
    BY <1>1, <2>2 DEF Flagged, Started, Has, IndicesOf
  <2> QED BY <2>3, <2>5, <2>6
<1> QED BY <1>5, <1>6 DEF Inv

LEMMA NextInv == Inv /\ [Next]_vars => Inv'
<1> SUFFICES ASSUME Inv, [Next]_vars PROVE Inv'
  OBVIOUS
<1>1. CASE Restart
  BY <1>1, RestartInv
<1>2. CASE Discard
  BY <1>2, DiscardInv
<1>3. ASSUME NEW s \in Streams, NEW key \in BOOLEAN, Collect(s, key)
      PROVE  Inv'
  BY <1>3, CollectInv
<1>4. ASSUME NEW s \in Streams, NEW key \in BOOLEAN, Interleave(s, key)
      PROVE  Inv'
  BY <1>4, InterleaveInv
<1>5. CASE UNCHANGED vars
  <2>1. Inv' <=> Inv
    BY <1>5 DEF vars, Inv, TypeOK, Ordered, Stamped, Fresh, Rebased, OffsetOf, Lag, InLine, Line,
                IndicesOf, Flagged, Started, Has
  <2> QED BY <2>1
<1> QED BY <1>1, <1>2, <1>3, <1>4, <1>5 DEF Next

LEMMA AlwaysInv == Spec => []Inv
BY InitInv, NextInv, PTL DEF Spec

(* The types of the list, of the offsets and of the clocks, whatever the    *)
(* encoders hand over: an audio offset is never negative, and the search    *)
(* for a starting point never cuts outside the list.                        *)
THEOREM TypeCorrect == Spec => []TypeOK
<1>1. Inv => TypeOK
  BY DEF Inv
<1> QED BY <1>1, AlwaysInv, PTL

LEMMA LineUnbroken ==
  ASSUME NEW seq \in Seq(Packet), NEW s \in Streams, Line(seq, s, next[s]), Has(seq, s), next[s] \in Nat
  PROVE  Unbroken(seq, s)
<1> DEFINE own == IndicesOf(seq, s)
           following(i, j) == i < j /\ ~ \E k \in own : i < k /\ k < j
<1>1. own \subseteq 1 .. Len(seq) /\ own # {} /\ Len(seq) \in Nat
  BY Indices DEF Has
<1>2. \A i \in own : i \in Nat /\ seq[i].at \in Nat
  <2>1. \A i \in 1 .. Len(seq) : seq[i] \in Packet
    OBVIOUS
  <2> QED BY <1>1, <2>1, PacketFields
<1>3. Frame(s) \in Nat /\ Frame(s) > 0
  BY FrameType
<1>4. /\ \A i, j \in own : i < j => seq[i].at + Frame(s) <= seq[j].at
      /\ \A i \in own : /\ seq[i].at + Frame(s) <= next[s]
                        /\ seq[i].at + Frame(s) # next[s] =>
                             \E j \in own : seq[j].at = seq[i].at + Frame(s)
  BY DEF Line
<1>5. Max(own) \in own /\ \A y \in own : y <= Max(own)
  BY <1>1, GreatestIn
<1> HIDE DEF own
<1> DEFINE last == Max(own)
<1> HIDE DEF last
<1>6. seq[last].at = next[s] - Frame(s)
  <2>1. last \in own /\ \A y \in own : y <= last
    BY <1>5 DEF last
  <2>2. ASSUME NEW j \in own, seq[j].at = seq[last].at + Frame(s) PROVE FALSE
    <3>1. j < last \/ j = last
      BY <1>2, <2>1
    <3>2. j < last => seq[j].at + Frame(s) <= seq[last].at
      BY <1>4, <2>1
    <3> QED BY <1>2, <1>3, <2>1, <2>2, <3>1, <3>2
  <2>3. seq[last].at + Frame(s) = next[s]
    BY <1>4, <2>1, <2>2
  <2> QED BY <1>2, <1>3, <2>1, <2>3
<1>7. ASSUME NEW i \in own, NEW j \in own, following(i, j)
      PROVE  seq[j].at = seq[i].at + Frame(s)
  <2>1. seq[i].at + Frame(s) <= seq[j].at /\ seq[j].at + Frame(s) <= next[s]
    BY <1>4, <1>7
  <2>2. seq[i].at + Frame(s) # next[s]
    BY <1>2, <1>3, <2>1
  <2>3. PICK l \in own : seq[l].at = seq[i].at + Frame(s)
    BY <1>4, <2>2
  <2>4. ~ (l < i) /\ l # i
    <3>1. l < i => seq[l].at + Frame(s) <= seq[i].at
      BY <1>4
    <3> QED BY <1>2, <1>3, <2>3, <3>1
  <2>5. ~ (j < l)
    <3>1. j < l => seq[j].at + Frame(s) <= seq[l].at
      BY <1>4
    <3> QED BY <1>2, <1>3, <2>1, <2>3, <3>1
  <2>6. ~ (i < l /\ l < j)
    BY <1>7
  <2>7. l = j
    BY <1>2, <2>4, <2>5, <2>6
  <2> QED BY <2>3, <2>7
<1>8. /\ own # {} /\ seq[Max(own)].at = next[s] - Frame(s)
      /\ \A i, j \in own : following(i, j) => seq[j].at = seq[i].at + Frame(s)
  BY <1>1, <1>6, <1>7 DEF last
<1> QED BY <1>8 DEF Unbroken, own

(* No packet of a stream is lost, repeated or overtaken by a later one of   *)
(* its stream from the first one on that is sent, and the output starts     *)
(* exactly when both flags are set: for every number of tracks, frame       *)
(* duration, delay and order of arrival.                                    *)
THEOREM WholeStreams == Spec => []StreamsWhole
<1>1. Inv => StreamsWhole
  <2> SUFFICES ASSUME Inv PROVE StreamsWhole
    OBVIOUS
  <2>1. Started <=> sent # << >>
    BY DEF Inv, Flagged
  <2>2. sent \o packets \in Seq(Packet) /\ \A s \in Streams : next[s] \in Nat
    <3>1. packets \in Seq(Packet) /\ sent \in Seq(Packet) /\ next \in [Streams -> Nat]
      BY DEF Inv, TypeOK
    <3> QED BY <3>1, ConcatProperties
  <2>3. ASSUME Started, NEW s \in Streams PROVE Unbroken(sent \o packets, s)
    BY <2>2, <2>3, LineUnbroken DEF Inv, InLine, Flagged
  <2> QED BY <2>1, <2>3 DEF StreamsWhole
<1> QED BY <1>1, AlwaysInv, PTL

-----------------------------------------------------------------------------
(* The two outcomes of a packet before the start: a flag is missing or      *)
(* taken back, or the output starts.                                        *)

Waits(list) ==
  /\ packets' = list /\ sent' = << >> /\ ~ Started'
  /\ UNCHANGED <<offsets, highest, max_batch, origin, session>>

Starts(list) ==
  /\ Complete(list) /\ Collected(list, next') /\ Begin(list) /\ Started'
  /\ UNCHANGED <<max_batch, origin, session>>

LEMMA CollectIs ==
  ASSUME Inv, NEW s \in Streams, NEW key \in BOOLEAN, Collect(s, key)
  PROVE  LET seq == Insert(packets, Arrived(s, key))
             kept == Kept(seq)
         IN /\ ~ Started /\ Arrives(s, key) /\ sent = << >> /\ Collected(seq, next')
            /\ s = Video /\ ~ received_video => key
            /\ \/ /\ Waits(seq)
                  /\ Complete(seq) => s = Video /\ ~ received_audio
               \/ Complete(seq) /\ Waits(kept) /\ ~ (Complete(kept) /\ Ready(Prune(seq)))
               \/ Complete(seq) /\ Ready(Prune(seq)) /\ Starts(kept)
            /\ received_video' \/ received_audio'
<1> DEFINE seq == Insert(packets, Arrived(s, key))
           video == received_video \/ s = Video
           audio == received_audio \/ s # Video
           pruned == Prune(seq)
           kept == Kept(seq)
<1>1. /\ ~ Started /\ Arrives(s, key) /\ UNCHANGED <<max_batch, origin, session>>
      /\ s = Video /\ ~ received_video => key
  BY DEF Collect
<1>2. Collected(seq, next') /\ sent = << >>
  BY <1>1, CollectedInsert, NothingSent
<1>3. \/ ~ (video /\ audio) /\ Wait(seq, video, audio)
      \/ video /\ audio /\ ~ Complete(seq) /\ Wait(seq, TRUE, ~ Has(seq, Video))
      \/ /\ video /\ audio /\ Complete(seq) /\ ~ Complete(kept)
         /\ Wait(kept, Has(kept, Video), ~ Has(kept, Video))
      \/ /\ video /\ audio /\ Complete(seq) /\ Complete(kept) /\ ~ Ready(pruned)
         /\ Wait(kept, TRUE, FALSE)
      \/ /\ video /\ audio /\ Complete(seq) /\ Complete(kept) /\ Ready(pruned)
         /\ Begin(kept)
  BY DEF Collect, Kept
<1>4. /\ video => Has(seq, Video)
      /\ Complete(seq) => video
  BY <1>1, CollectedInsert, NothingSent, NumTracksType DEF Complete
<1>5. Complete(seq) => Collected(kept, next')
  BY <1>2, KeptIs
<1>6. video \/ audio
  OBVIOUS
<1> HIDE DEF seq, kept, pruned, video, audio
<1>7. ASSUME NEW list, NEW v, NEW a, Wait(list, v, a), ~ (v /\ a)
      PROVE  Waits(list)
  <2>1. /\ packets' = list /\ received_video' = v /\ received_audio' = a
        /\ UNCHANGED <<offsets, highest, sent>>
    BY <1>7 DEF Wait
  <2>2. ~ Started'
    BY <1>7, <2>1 DEF Started
  <2>3. sent' = << >>
    BY <1>2, <2>1
  <2>4. UNCHANGED <<offsets, highest, max_batch, origin, session>>
    BY <1>1, <2>1
  <2> QED BY <2>1, <2>2, <2>3, <2>4 DEF Waits
<1>8. ASSUME video, Wait(seq, TRUE, ~ Has(seq, Video)) PROVE Waits(seq)
  <2>1. ~ (TRUE /\ ~ Has(seq, Video))
    BY <1>4, <1>8
  <2> QED BY <1>7, <1>8, <2>1
<1>9. ASSUME Wait(kept, Has(kept, Video), ~ Has(kept, Video)) PROVE Waits(kept)
  <2> DEFINE here == Has(kept, Video)
             gone == ~ here
  <2>1. Wait(kept, here, gone) /\ ~ (here /\ gone)
    BY <1>9
  <2> HIDE DEF here, gone
  <2> QED BY <1>7, <2>1
<1>10. ASSUME Wait(kept, TRUE, FALSE) PROVE Waits(kept)
  <2>1. ~ (TRUE /\ FALSE)
    OBVIOUS
  <2> QED BY <1>7, <1>10, <2>1
<1>11. ASSUME Complete(seq), Complete(kept), Begin(kept) PROVE Starts(kept)
  <2>1. Started'
    <3>1. received_video' = TRUE /\ received_audio' = TRUE
      BY <1>11, BeginIs
    <3> QED BY <3>1 DEF Started
  <2> QED BY <1>1, <1>5, <1>11, <2>1 DEF Starts
<1>12. ASSUME ~ (video /\ audio), Wait(seq, video, audio) PROVE Waits(seq)
  BY <1>7, <1>12
<1>13. \/ Waits(seq) /\ (Complete(seq) => ~ (video /\ audio))
       \/ Complete(seq) /\ Waits(kept) /\ ~ (Complete(kept) /\ Ready(pruned))
       \/ Complete(seq) /\ Ready(pruned) /\ Starts(kept)
  BY <1>3, <1>8, <1>9, <1>10, <1>11, <1>12, ZenonT(60)
<1>14. Complete(seq) /\ ~ (video /\ audio) => s = Video /\ ~ received_audio
  BY <1>4 DEF video, audio
<1>15. received_video' \/ received_audio'
  <2>1. ASSUME NEW list, NEW v, NEW a, Wait(list, v, a), v \/ a
        PROVE  received_video' \/ received_audio'
    BY <2>1 DEF Wait
  <2>2. CASE Wait(kept, Has(kept, Video), ~ Has(kept, Video))
    <3> DEFINE here == Has(kept, Video)
               gone == ~ here
    <3>1. Wait(kept, here, gone) /\ (here \/ gone)
      BY <2>2
    <3> HIDE DEF here, gone
    <3> QED BY <2>1, <3>1
  <2>3. CASE Wait(seq, TRUE, ~ Has(seq, Video)) \/ Wait(kept, TRUE, FALSE)
    BY <2>3 DEF Wait
  <2>4. CASE Wait(seq, video, audio)
    BY <1>6, <2>1, <2>4
  <2>5. CASE Begin(kept)
    BY <2>5 DEF Begin
  <2> QED BY <1>3, <2>2, <2>3, <2>4, <2>5
<1> QED BY <1>1, <1>2, <1>13, <1>14, <1>15 DEF seq, kept, pruned

-----------------------------------------------------------------------------
(* The clocks.  Due is the timestamp the next packet of a stream will have. *)

Due(s) == next[s] - origin - Lag(s) - OffsetOf(s)

Late(list) == \A i \in DOMAIN list : list[i].at >= origin

Recent == (\A s \in Streams : next[s] >= origin) /\ (~ Started => Late(packets))

Clocks ==
  /\ ~ Started => highest_video_ts = -Boot /\ highest_audio_ts = 0
  /\ Started => /\ highest_video_ts + VideoFrame <= Due(Video)
                /\ \E t \in Tracks : highest_audio_ts + AudioFrame <= Due(t)

LEMMA LateFrom ==
  ASSUME NEW list \in Seq(Packet), NEW m \in 1 .. Len(list) + 1, Late(list)
  PROVE  Late(From(list, m))
<1>1. /\ From(list, m) \in Seq(Packet) /\ Len(From(list, m)) = Len(list) - m + 1
      /\ \A i \in 1 .. Len(list) - m + 1 : From(list, m)[i] = list[m - 1 + i]
  BY FromIs
<1>2. \A i \in 1 .. Len(list) - m + 1 : m - 1 + i \in DOMAIN list
  OBVIOUS
<1> QED BY <1>1, <1>2 DEF Late

(* What holds of every rear part of a list holds of the list that is kept. *)
LEMMA KeptFrom ==
  ASSUME NEW list \in Seq(Packet), Complete(list)
  PROVE  /\ \E m \in 1 .. Len(list) + 1 : Prune(list) = From(list, m)
         /\ Prune(list) \in Seq(Packet)
         /\ \/ Kept(list) = Prune(list)
            \/ \E m \in 1 .. Len(Prune(list)) + 1 : Kept(list) = From(Prune(list), m)
<1>1. PICK m \in 1 .. Len(list) + 1 : Prune(list) = From(list, m)
  BY PruneIs
<1> DEFINE pruned == Prune(list)
<1>2. pruned \in Seq(Packet)
  BY <1>1, FromIs
<1> HIDE DEF pruned
<1>3. ASSUME Ready(pruned) PROVE StartIndex(pruned) \in 1 .. Len(pruned) + 1
  <2>1. StartIndex(pruned) \in 1 .. Len(pruned) /\ Len(pruned) \in Nat
    BY <1>2, <1>3, StartIndexIs DEF Ready
  <2> QED BY <2>1
<1>4. Kept(list) = IF Ready(pruned) THEN From(pruned, StartIndex(pruned)) ELSE pruned
  BY DEF Kept, pruned
<1>5. Kept(list) = pruned \/ \E n \in 1 .. Len(pruned) + 1 : Kept(list) = From(pruned, n)
  BY <1>3, <1>4
<1> QED BY <1>1, <1>2, <1>5 DEF pruned

(* The members of a list with a packet inserted *)
LEMMA InsertedMembers ==
  ASSUME NEW old \in Seq(Packet), NEW new, NEW p, NEW k, InsertedAt(new, old, p, k)
  PROVE  /\ \A i \in 1 .. Len(new) : new[i] = p \/ \E j \in 1 .. Len(old) : new[i] = old[j]
         /\ \E i \in 1 .. Len(new) : new[i] = p
         /\ \A j \in 1 .. Len(old) : \E i \in 1 .. Len(new) : new[i] = old[j]
<1>1. /\ Len(new) = Len(old) + 1 /\ Len(old) \in Nat /\ k \in 1 .. Len(old) + 1
      /\ \A i \in 1 .. Len(old) + 1 :
           new[i] = IF i < k THEN old[i] ELSE IF i = k THEN p ELSE old[i - 1]
  BY DEF InsertedAt
<1>2. ASSUME NEW i \in 1 .. Len(new)
      PROVE  new[i] = p \/ \E j \in 1 .. Len(old) : new[i] = old[j]
  <2>1. CASE i < k
    <3>1. i \in 1 .. Len(old) /\ new[i] = old[i]
      BY <1>1, <2>1
    <3> QED BY <3>1
  <2>2. CASE i = k
    BY <1>1, <2>2
  <2>3. CASE i > k
    <3>1. i - 1 \in 1 .. Len(old) /\ new[i] = old[i - 1]
      BY <1>1, <2>3
    <3> QED BY <3>1
  <2> QED BY <1>1, <2>1, <2>2, <2>3
<1>3. k \in 1 .. Len(new) /\ new[k] = p
  BY <1>1
<1>4. ASSUME NEW j \in 1 .. Len(old) PROVE \E i \in 1 .. Len(new) : new[i] = old[j]
  <2>1. CASE j < k
    <3>1. j \in 1 .. Len(old) + 1 /\ new[j] = old[j]
      BY <1>1, <2>1
    <3> QED BY <1>1, <3>1
  <2>2. CASE ~ (j < k)
    <3>1. j + 1 \in 1 .. Len(old) + 1 /\ ~ (j + 1 < k) /\ j + 1 # k /\ j + 1 - 1 = j
      BY <1>1, <2>2
    <3>2. new[j + 1] = old[j]
      BY <1>1, <3>1
    <3> QED BY <1>1, <3>1, <3>2
  <2> QED BY <2>1, <2>2
<1> QED BY <1>2, <1>3, <1>4

LEMMA InsertMembers ==
  ASSUME NEW seq \in Seq(Packet), NEW p \in Packet
  PROVE  /\ Insert(seq, p) \in Seq(Packet) /\ Len(Insert(seq, p)) = Len(seq) + 1
         /\ \A i \in 1 .. Len(Insert(seq, p)) :
              Insert(seq, p)[i] = p \/ \E j \in 1 .. Len(seq) : Insert(seq, p)[i] = seq[j]
         /\ \E i \in 1 .. Len(Insert(seq, p)) : Insert(seq, p)[i] = p
         /\ \A j \in 1 .. Len(seq) : \E i \in 1 .. Len(Insert(seq, p)) : Insert(seq, p)[i] = seq[j]
<1> DEFINE new == Insert(seq, p)
<1>1. PICK k \in 1 .. Len(seq) + 1 : InsertedAt(new, seq, p, k)
  BY InsertIs
<1> HIDE DEF new
<1>2. new \in Seq(Packet) /\ Len(new) = Len(seq) + 1
  BY <1>1 DEF InsertedAt
<1>3. /\ \A i \in 1 .. Len(new) : new[i] = p \/ \E j \in 1 .. Len(seq) : new[i] = seq[j]
      /\ \E i \in 1 .. Len(new) : new[i] = p
      /\ \A j \in 1 .. Len(seq) : \E i \in 1 .. Len(new) : new[i] = seq[j]
  BY <1>1, InsertedMembers
<1> QED BY <1>2, <1>3 DEF new

LEMMA LateKept ==
  ASSUME NEW list \in Seq(Packet), Complete(list), Late(list)
  PROVE  Late(Prune(list)) /\ Late(Kept(list))
<1>1. PICK m \in 1 .. Len(list) + 1 : Prune(list) = From(list, m)
  BY KeptFrom
<1>2. Late(Prune(list)) /\ Prune(list) \in Seq(Packet)
  BY <1>1, LateFrom, KeptFrom
<1>3. \/ Kept(list) = Prune(list)
      \/ \E n \in 1 .. Len(Prune(list)) + 1 : Kept(list) = From(Prune(list), n)
  BY KeptFrom
<1> QED BY <1>2, <1>3, LateFrom

LEMMA RecentInsert ==
  ASSUME Inv, Recent, ~ Started, NEW s \in Streams, NEW key \in BOOLEAN, Arrives(s, key)
  PROVE  Late(Insert(packets, Arrived(s, key)))
<1> DEFINE p == Arrived(s, key)
           seq == Insert(packets, p)
<1>1. p \in Packet /\ p.at = next[s] /\ packets \in Seq(Packet)
  BY ArrivesIs DEF Inv, TypeOK
<1> HIDE DEF p
<1>2. /\ seq \in Seq(Packet) /\ Len(seq) = Len(packets) + 1
      /\ \A i \in 1 .. Len(seq) : seq[i] = p \/ \E j \in 1 .. Len(packets) : seq[i] = packets[j]
  BY <1>1, InsertMembers
<1>3. p.at >= origin /\ \A j \in 1 .. Len(packets) : packets[j].at >= origin
  BY <1>1 DEF Recent, Late
<1> HIDE DEF seq
<1>4. Late(seq)
  BY <1>2, <1>3 DEF Late
<1> QED BY <1>4 DEF seq, p

LEMMA RecentStep == Inv /\ Recent /\ [Next]_vars => Recent'
<1> SUFFICES ASSUME Inv, Recent, [Next]_vars PROVE Recent'
  OBVIOUS
<1>1. next \in [Streams -> Nat] /\ origin \in Nat /\ packets \in Seq(Packet) /\ \A s \in Streams : next[s] \in Nat
  BY DEF Inv, TypeOK
<1>2. ASSUME NEW s \in Streams, NEW key \in BOOLEAN, Arrives(s, key), origin' = origin
      PROVE  \A t \in Streams : next'[t] >= origin'
  <2>1. \A t \in Streams : next'[t] = IF t = s THEN next[t] + Frame(t) ELSE next[t]
    BY <1>2, ArrivesIs DEF Inv
  <2> QED BY <1>1, <1>2, <2>1, FrameType DEF Recent
<1>3. CASE Restart
  <2>1. packets' = << >> /\ \E b \in Begins : next' = [s \in Streams |-> origin' + b[s]]
    BY <1>3 DEF Restart, ResetPackets
  <2>2. origin' \in Nat
    BY <1>3, RestartInv DEF Inv, TypeOK
  <2>3. \A s \in Streams : next'[s] >= origin'
    <3>1. PICK b \in Begins : next' = [s \in Streams |-> origin' + b[s]]
      BY <2>1
    <3>2. \A s \in Streams : b[s] \in Nat
      BY BeginsType
    <3> QED BY <2>2, <3>1, <3>2
  <2>4. Late(packets)'
    BY <2>1 DEF Late
  <2> QED BY <2>3, <2>4 DEF Recent
<1>4. CASE Discard
  <2>1. ~ received_video /\ Arrives(Video, FALSE) /\ origin' = origin /\ UNCHANGED flags
    BY <1>4 DEF Discard
  <2>2. \A t \in Streams : next'[t] >= origin'
    BY <1>2, <2>1, NumTracksType
  <2>3. Late(packets)
    BY <2>1 DEF Recent, Started
  <2>4. Late(packets')
    <3> DEFINE p == Arrived(Video, FALSE)
               kept == {i \in DOMAIN packets : packets[i].ts >= p.ts}
    <3>1. packets' = IF kept = {} THEN << >> ELSE From(packets, Min(kept))
      BY <1>4 DEF Discard
    <3> HIDE DEF p
    <3>2. kept \in SUBSET (1 .. Len(packets)) /\ kept \in SUBSET Nat
      <4>1. DOMAIN packets = 1 .. Len(packets) /\ Len(packets) \in Nat
        BY <1>1
      <4>2. kept \subseteq DOMAIN packets
        OBVIOUS
      <4> QED BY <4>1, <4>2
    <3> HIDE DEF kept
    <3>3. CASE kept = {}
      BY <3>1, <3>3 DEF Late
    <3>4. CASE kept # {}
      <4>1. Min(kept) \in 1 .. Len(packets)
        BY <3>2, <3>4, LeastIn
      <4>2. Min(kept) \in 1 .. Len(packets) + 1 /\ packets' = From(packets, Min(kept))
        BY <1>1, <3>1, <3>4, <4>1
      <4> QED BY <1>1, <2>3, <4>2, LateFrom
    <3> QED BY <3>3, <3>4
  <2>5. Late(packets)'
    BY <2>1, <2>4 DEF Late
  <2> QED BY <2>2, <2>5 DEF Recent
<1>5. ASSUME NEW s \in Streams, NEW key \in BOOLEAN, Collect(s, key)
      PROVE  Recent'
  <2> DEFINE seq == Insert(packets, Arrived(s, key))
             kept == Kept(seq)
  <2>1. /\ ~ Started /\ Arrives(s, key) /\ Collected(seq, next')
        /\ Waits(seq) \/ (Complete(seq) /\ Waits(kept)) \/ Started'
    BY <1>5, CollectIs DEF Starts
  <2>2. origin' = origin
    BY <1>5 DEF Collect
  <2>3. \A t \in Streams : next'[t] >= origin'
    BY <1>2, <2>1, <2>2
  <2>4. seq \in Seq(Packet) /\ Late(seq)
    BY <2>1, RecentInsert DEF Collected
  <2>5. Complete(seq) => Late(kept)
    BY <2>4, LateKept
  <2> HIDE DEF seq, kept
  <2>6. ~ Started' => Late(packets')
    BY <2>1, <2>4, <2>5 DEF Waits
  <2>7. ~ Started' => Late(packets)'
    BY <2>2, <2>6 DEF Late
  <2> QED BY <2>3, <2>7 DEF Recent
<1>6. ASSUME NEW s \in Streams, NEW key \in BOOLEAN, Interleave(s, key)
      PROVE  Recent'
  <2>1. Started /\ Arrives(s, key) /\ origin' = origin /\ UNCHANGED flags
    BY <1>6 DEF Interleave
  <2>2. Started'
    BY <2>1 DEF Started, flags
  <2>3. \A t \in Streams : next'[t] >= origin'
    BY <1>2, <2>1
  <2> QED BY <2>2, <2>3 DEF Recent
<1>7. CASE UNCHANGED vars
  BY <1>7 DEF vars, Recent, Started, Late
<1> QED BY <1>3, <1>4, <1>5, <1>6, <1>7 DEF Next

LEMMA RecentInit == Init => Recent
<1> SUFFICES ASSUME Init PROVE Recent
  OBVIOUS
<1>1. packets = << >> /\ origin = 0 /\ \A s \in Streams : next[s] \in Nat
  BY BeginsType DEF Init
<1>2. Late(packets)
  BY <1>1 DEF Late
<1> QED BY <1>1, <1>2 DEF Recent

-----------------------------------------------------------------------------
(* A packet after the start *)

LEMMA DueType == TypeOK => \A s \in Streams : Due(s) \in Int /\ OffsetOf(s) \in Int /\ Lag(s) \in Nat
<1> SUFFICES ASSUME TypeOK, NEW s \in Streams PROVE Due(s) \in Int /\ OffsetOf(s) \in Int /\ Lag(s) \in Nat
  OBVIOUS
<1>1. next[s] \in Nat /\ origin \in Nat /\ video_offset \in Int /\ audio_offsets \in [Tracks -> Nat]
  BY DEF TypeOK
<1>2. Lag(s) \in Nat
  BY FramesAssumption DEF Lag
<1>3. OffsetOf(s) \in Int
  BY <1>1 DEF OffsetOf, Streams
<1> QED BY <1>1, <1>2, <1>3 DEF Due

LEMMA InterleaveIs ==
  ASSUME Inv, NEW s \in Streams, NEW key \in BOOLEAN, Interleave(s, key)
  PROVE  LET p == Apply(video_offset, audio_offsets, Arrived(s, key))
             seq == Insert(packets, p)
             video == HighestOf(<<p>>, {Video}, highest_video_ts)
             audio == HighestOf(<<p>>, Tracks, highest_audio_ts)
         IN /\ Started /\ Started' /\ Arrives(s, key) /\ UNCHANGED <<offsets, max_batch, origin, session>>
            /\ p \in Packet /\ p.stream = s /\ p.at = next[s] /\ p.ts = Due(s) /\ p.key = key
            /\ \A t \in Streams : /\ Due(t) \in Int
                                  /\ Due(t)' = IF t = s THEN Due(t) + Frame(t) ELSE Due(t)
            /\ seq \in Seq(Packet) /\ Ordered(seq)
            /\ highest_video_ts' = video /\ highest_audio_ts' = audio
            /\ \E n \in 0 .. Streamable(seq, video, audio) :
                 packets' = From(seq, n + 1) /\ sent' = sent \o SubSeq(seq, 1, n)
            /\ sent' \o packets' = sent \o seq
<1> DEFINE p == Apply(video_offset, audio_offsets, Arrived(s, key))
           seq == Insert(packets, p)
           video == HighestOf(<<p>>, {Video}, highest_video_ts)
           audio == HighestOf(<<p>>, Tracks, highest_audio_ts)
<1>1. /\ Started /\ Arrives(s, key) /\ highest_video_ts' = video /\ highest_audio_ts' = audio
      /\ Send(seq, Streamable(seq, video, audio))
      /\ UNCHANGED <<flags, offsets, max_batch, origin, session>>
  BY DEF Interleave
<1>2. /\ packets \in Seq(Packet) /\ sent \in Seq(Packet) /\ max_batch \in Nat
      /\ video_offset \in Int /\ audio_offsets \in [Tracks -> Nat] /\ audio_offsets \in [Tracks -> Int]
      /\ next \in [Streams -> Nat] /\ \A t \in Streams : next[t] \in Nat
  BY DEF Inv, TypeOK
<1>3. /\ \A t \in Streams : next'[t] = IF t = s THEN next[t] + Frame(t) ELSE next[t]
      /\ Arrived(s, key) \in Packet /\ Fresh(Arrived(s, key), origin)
      /\ Arrived(s, key).stream = s /\ Arrived(s, key).at = next[s] /\ Arrived(s, key).key = key
  BY <1>1, ArrivesIs DEF Inv
<1>4. p \in Packet /\ p.stream = s /\ p.at = next[s] /\ p.ts = Due(s) /\ p.key = key
  <2> DEFINE a == Arrived(s, key)
             off == IF a.stream = Video THEN video_offset ELSE audio_offsets[a.stream]
  <2>1. /\ p \in Packet /\ p.stream = a.stream /\ p.at = a.at /\ p.key = a.key
        /\ p.ts = a.dts - off
    BY <1>2, <1>3, ApplyIs
  <2>2. a.stream = s /\ a.at = next[s] /\ a.dts = a.at - origin - Lag(a.stream) /\ a.key = key
    BY <1>3 DEF Fresh
  <2> HIDE DEF a, p
  <2> QED BY <2>1, <2>2 DEF Due, OffsetOf
<1>5. \A t \in Streams : /\ Due(t) \in Int
                         /\ Due(t)' = IF t = s THEN Due(t) + Frame(t) ELSE Due(t)
  <2> TAKE t \in Streams
  <2>1. Due(t) \in Int /\ OffsetOf(t) \in Int /\ Lag(t) \in Nat /\ origin \in Nat
    BY DueType DEF Inv, TypeOK
  <2>2. OffsetOf(t)' = OffsetOf(t) /\ origin' = origin
    BY <1>1 DEF OffsetOf, offsets
  <2>3. Lag(t)' = Lag(t)
    BY DEF Lag
  <2>4. next'[t] = (IF t = s THEN next[t] + Frame(t) ELSE next[t]) /\ next[t] \in Nat /\ Frame(t) \in Nat
    BY <1>2, <1>3, FrameType
  <2>5. Due(t)' = next'[t] - origin - Lag(t) - OffsetOf(t) /\ Due(t) = next[t] - origin - Lag(t) - OffsetOf(t)
    BY <2>2, <2>3 DEF Due
  <2> QED BY <2>1, <2>4, <2>5
<1> HIDE DEF p, video, audio
<1>6. PICK k \in 1 .. Len(packets) + 1 :
        /\ InsertedAt(seq, packets, p, k)
        /\ \A i \in 1 .. k - 1 : packets[i].ts <= p.ts
        /\ \A i \in k .. Len(packets) : p.ts <= packets[i].ts
  BY <1>2, <1>4, InsertOrders DEF Inv
<1>7. Ordered(seq)
  BY <1>2, <1>4, <1>6, InsertOrdered DEF Inv
<1> HIDE DEF seq
<1>8. seq \in Seq(Packet)
  BY <1>6 DEF InsertedAt
<1>9. /\ \E n \in 0 .. Streamable(seq, video, audio) :
           packets' = From(seq, n + 1) /\ sent' = sent \o SubSeq(seq, 1, n)
      /\ sent' \o packets' = sent \o seq
  BY <1>1, <1>2, <1>8, StreamableIs, SendIs
<1>10. Started'
  BY <1>1 DEF Started, flags
<1> QED BY <1>1, <1>4, <1>5, <1>7, <1>8, <1>9, <1>10 DEF p, seq, video, audio

(* The clocks stay a packet behind what is due. *)
LEMMA ClocksInterleave ==
  ASSUME Inv, Clocks, NEW s \in Streams, NEW key \in BOOLEAN, Interleave(s, key)
  PROVE  Clocks'
<1> DEFINE p == Apply(video_offset, audio_offsets, Arrived(s, key))
<1>1. /\ Started /\ Started' /\ p \in Packet /\ p.stream = s /\ p.ts = Due(s)
      /\ \A t \in Streams : /\ Due(t) \in Int
                            /\ Due(t)' = IF t = s THEN Due(t) + Frame(t) ELSE Due(t)
      /\ highest_video_ts' = HighestOf(<<p>>, {Video}, highest_video_ts)
      /\ highest_audio_ts' = HighestOf(<<p>>, Tracks, highest_audio_ts)
  BY InterleaveIs
<1> HIDE DEF p
<1>2. /\ highest_video_ts \in Int /\ highest_audio_ts \in Int
      /\ highest_video_ts + VideoFrame <= Due(Video)
      /\ \E t \in Tracks : highest_audio_ts + AudioFrame <= Due(t)
  BY <1>1 DEF Inv, TypeOK, Clocks
<1>3. <<p>> \in Seq(Packet) /\ Len(<<p>>) = 1 /\ <<p>>[1] = p
  BY <1>1
<1>4. /\ highest_video_ts' = highest_video_ts \/ (s = Video /\ highest_video_ts' = p.ts)
      /\ highest_audio_ts' = highest_audio_ts \/ (s \in Tracks /\ highest_audio_ts' = p.ts)
  <2>1. highest_video_ts' = highest_video_ts
        \/ \E i \in 1 .. Len(<<p>>) : <<p>>[i].stream \in {Video} /\ <<p>>[i].ts = highest_video_ts'
    BY <1>1, <1>2, <1>3, HighestIs
  <2>2. highest_audio_ts' = highest_audio_ts
        \/ \E i \in 1 .. Len(<<p>>) : <<p>>[i].stream \in Tracks /\ <<p>>[i].ts = highest_audio_ts'
    BY <1>1, <1>2, <1>3, HighestIs
  <2>3. \A i \in 1 .. Len(<<p>>) : <<p>>[i] = p
    BY <1>3
  <2> QED BY <1>1, <2>1, <2>2, <2>3
<1>5. Frame(Video) = VideoFrame /\ Video \in Streams /\ \A t \in Tracks : t \in Streams /\ Frame(t) = AudioFrame
  BY NumTracksType DEF Frame, Streams, Tracks, Video
<1>6. VideoFrame \in Nat /\ AudioFrame \in Nat
  BY FramesAssumption
<1>7. highest_video_ts' + VideoFrame <= Due(Video)'
  <2>1. Due(Video)' = IF Video = s THEN Due(Video) + VideoFrame ELSE Due(Video)
    BY <1>1, <1>5
  <2>2. Due(Video) \in Int
    BY <1>1, <1>5
  <2>3. CASE highest_video_ts' = highest_video_ts
    BY <1>2, <1>6, <2>1, <2>2, <2>3
  <2>4. CASE s = Video /\ highest_video_ts' = p.ts
    BY <1>1, <1>6, <2>1, <2>2, <2>4
  <2> QED BY <1>4, <2>3, <2>4
<1>8. \E t \in Tracks : highest_audio_ts' + AudioFrame <= Due(t)'
  <2>1. CASE highest_audio_ts' = highest_audio_ts
    <3>1. PICK t \in Tracks : highest_audio_ts + AudioFrame <= Due(t)
      BY <1>2
    <3>2. Due(t) \in Int /\ Due(t)' = IF t = s THEN Due(t) + AudioFrame ELSE Due(t)
      BY <1>1, <1>5
    <3>3. highest_audio_ts' + AudioFrame <= Due(t)'
      BY <1>2, <1>6, <2>1, <3>1, <3>2
    <3> QED BY <3>3
  <2>2. CASE s \in Tracks /\ highest_audio_ts' = p.ts
    <3>1. Due(s) \in Int /\ Due(s)' = Due(s) + AudioFrame
      BY <1>1, <1>5, <2>2
    <3>2. highest_audio_ts' + AudioFrame <= Due(s)'
      BY <1>1, <1>6, <2>2, <3>1
    <3> QED BY <2>2, <3>2
  <2> QED BY <1>4, <2>1, <2>2
<1> QED BY <1>1, <1>7, <1>8 DEF Clocks

-----------------------------------------------------------------------------
(* The start *)

LEMMA StartsIs ==
  ASSUME Inv, ~ Started, NEW kept, Starts(kept), next' \in [Streams -> Nat]
  PROVE  LET sorted == Resort(Moved(kept))
         IN /\ kept \in Seq(Packet) /\ sorted \in Seq(Packet) /\ Len(sorted) > 0 /\ Ordered(sorted)
            /\ \A s \in Streams : Has(kept, s) /\ Has(sorted, s)
            /\ \A l \in 1 .. Len(kept) : \E i \in 1 .. Len(sorted) :
                 sorted[i].stream = kept[l].stream /\ sorted[i].at = kept[l].at
            /\ \A i \in 1 .. Len(sorted) :
                 LET s == sorted[i].stream
                 IN /\ s \in Streams /\ sorted[i] \in Packet /\ sorted[i].at + Frame(s) <= next'[s]
                    /\ sorted[i].ts = sorted[i].at - origin - Lag(s) - OffsetOf(s)'
                    /\ sorted[i].ts + Frame(s) <= Due(s)'
            /\ \A s \in Streams : Due(s)' \in Int /\ OffsetOf(s)' \in Int
            /\ video_offset' = VideoOffsetFrom(kept) /\ audio_offsets' = AudioOffsetsFrom(kept)
            /\ highest_video_ts' = HighestOf(sorted, {Video}, highest_video_ts)
            /\ highest_audio_ts' = HighestOf(sorted, Tracks, highest_audio_ts - FirstOf(kept, 1).ts)
            /\ packets' = From(sorted, 2) /\ sent' = <<sorted[1]>> /\ origin' = origin
<1> DEFINE sorted == Resort(Moved(kept))
<1>1. origin \in Nat /\ kept \in Seq(Packet) /\ Complete(kept) /\ Collected(kept, next') /\ Begin(kept)
      /\ origin' = origin
  BY DEF Inv, TypeOK, Collected, Starts
<1>2. /\ sorted \in Seq(Packet) /\ Len(sorted) = Len(kept) /\ Len(kept) > 0 /\ Ordered(sorted)
      /\ \A s \in Streams : Line(sorted, s, next'[s]) /\ Has(sorted, s)
      /\ \A l \in 1 .. Len(kept) : \E i \in 1 .. Len(sorted) :
           sorted[i].stream = kept[l].stream /\ sorted[i].at = kept[l].at
      /\ \A i \in 1 .. Len(sorted) :
           /\ sorted[i].ts = sorted[i].dts
           /\ sorted[i].dts = sorted[i].at - origin - Lag(sorted[i].stream)
                - (IF sorted[i].stream = Video THEN VideoOffsetFrom(kept)
                   ELSE AudioOffsetsFrom(kept)[sorted[i].stream])
  BY <1>1, SortedKept
<1>3. /\ video_offset' = VideoOffsetFrom(kept) /\ audio_offsets' = AudioOffsetsFrom(kept)
      /\ highest_video_ts' = HighestOf(sorted, {Video}, highest_video_ts)
      /\ highest_audio_ts' = HighestOf(sorted, Tracks, highest_audio_ts - FirstOf(kept, 1).ts)
      /\ packets' = Tail(sorted) /\ sent' = Append(<< >>, Head(sorted))
  BY <1>1, BeginIs, NothingSent
<1> HIDE DEF sorted
<1>4. packets' = From(sorted, 2) /\ sent' = <<sorted[1]>>
  BY <1>2, <1>3, HeadAndTail
<1>5. ASSUME NEW s \in Streams
      PROVE  /\ Lag(s) \in Nat /\ OffsetOf(s)' \in Int /\ Due(s)' \in Int /\ next'[s] \in Nat
             /\ OffsetOf(s)' = IF s = Video THEN VideoOffsetFrom(kept) ELSE AudioOffsetsFrom(kept)[s]
             /\ Due(s)' = next'[s] - origin - Lag(s) - OffsetOf(s)'
  <2>1. VideoOffsetFrom(kept) \in Int /\ AudioOffsetsFrom(kept) \in [Tracks -> Nat]
    BY <1>1, OffsetsType
  <2>2. OffsetOf(s)' = IF s = Video THEN VideoOffsetFrom(kept) ELSE AudioOffsetsFrom(kept)[s]
    BY <1>3 DEF OffsetOf
  <2>3. OffsetOf(s)' \in Int
    BY <2>1, <2>2 DEF Streams
  <2>4. Lag(s) \in Nat /\ Lag(s)' = Lag(s) /\ next'[s] \in Nat
    BY FramesAssumption DEF Lag
  <2>5. Due(s)' = next'[s] - origin - Lag(s) - OffsetOf(s)'
    BY <1>1, <2>4 DEF Due
  <2> QED BY <1>1, <2>2, <2>3, <2>4, <2>5
<1>6. ASSUME NEW i \in 1 .. Len(sorted), NEW s, s = sorted[i].stream
      PROVE  /\ s \in Streams /\ sorted[i] \in Packet /\ sorted[i].at + Frame(s) <= next'[s]
             /\ sorted[i].ts = sorted[i].at - origin - Lag(s) - OffsetOf(s)'
             /\ sorted[i].ts + Frame(s) <= Due(s)'
  <2>1. sorted[i] \in Packet /\ s \in Streams /\ sorted[i].at \in Nat /\ Frame(s) \in Nat
    BY <1>2, <1>6, PacketFields, FrameType
  <2>2. i \in IndicesOf(sorted, s)
    BY <1>2, <1>6, Indices
  <2>3. sorted[i].at + Frame(s) <= next'[s]
    BY <1>2, <2>1, <2>2 DEF Line
  <2>4. sorted[i].ts = sorted[i].at - origin - Lag(s) - OffsetOf(s)'
    BY <1>2, <1>5, <1>6, <2>1
  <2>5. sorted[i].ts + Frame(s) <= Due(s)'
    BY <1>1, <1>5, <2>1, <2>3, <2>4, SMTT(40)
  <2> QED BY <2>1, <2>3, <2>4, <2>5
<1>7. \A s \in Streams : Has(kept, s) /\ Has(sorted, s)
  BY <1>1, <1>2 DEF Complete
<1> QED BY <1>1, <1>2, <1>3, <1>4, <1>5, <1>6, <1>7 DEF sorted

LEMMA ClocksStarts ==
  ASSUME Inv, Clocks, ~ Started, NEW kept, Late(kept), Starts(kept), next' \in [Streams -> Nat]
  PROVE  Clocks'
<1> DEFINE sorted == Resort(Moved(kept))
<1>1. /\ kept \in Seq(Packet) /\ sorted \in Seq(Packet)
      /\ \A s \in Streams : Has(kept, s) /\ Has(sorted, s)
      /\ \A l \in 1 .. Len(kept) : \E i \in 1 .. Len(sorted) :
           sorted[i].stream = kept[l].stream /\ sorted[i].at = kept[l].at
      /\ \A i \in 1 .. Len(sorted) :
           LET s == sorted[i].stream
           IN /\ s \in Streams /\ sorted[i] \in Packet /\ sorted[i].at + Frame(s) <= next'[s]
              /\ sorted[i].ts = sorted[i].at - origin - Lag(s) - OffsetOf(s)'
              /\ sorted[i].ts + Frame(s) <= Due(s)'
      /\ video_offset' = VideoOffsetFrom(kept) /\ audio_offsets' = AudioOffsetsFrom(kept)
      /\ highest_video_ts' = HighestOf(sorted, {Video}, highest_video_ts)
      /\ highest_audio_ts' = HighestOf(sorted, Tracks, highest_audio_ts - FirstOf(kept, 1).ts)
      /\ \A s \in Streams : Due(s)' \in Int /\ OffsetOf(s)' \in Int
  BY StartsIs
<1>2. Started' /\ Collected(kept, next')
  BY DEF Starts
<1>3. highest_video_ts = -Boot /\ highest_audio_ts = 0
  BY DEF Clocks
<1>4. /\ Boot \in Nat /\ PtsLag \in Nat /\ Priming \in Nat /\ Boot > PtsLag + Priming
      /\ VideoFrame \in Nat /\ AudioFrame \in Nat /\ origin \in Nat
  BY FramesAssumption, TimesAssumption DEF Inv, TypeOK
<1>5. /\ Frame(Video) = VideoFrame /\ Video \in Streams /\ 1 \in Tracks
      /\ \A t \in Tracks : t \in Streams /\ Frame(t) = AudioFrame /\ t # Video
  BY NumTracksType DEF Frame, Streams, Tracks, Video
<1> HIDE DEF sorted
(* The first packet of a stream after the rebase *)
<1>6. ASSUME NEW s \in Streams
      PROVE  /\ FirstOf(kept, s).ts = Boot + FirstOf(kept, s).at
             /\ FirstOf(kept, s).dts = FirstOf(kept, s).at - origin - Lag(s)
             /\ FirstOf(kept, s).at \in Nat /\ FirstOf(kept, s).at >= origin
             /\ FirstOf(kept, s).stream = s
             /\ \E i \in 1 .. Len(sorted) : sorted[i].stream = s
                  /\ sorted[i].ts = FirstOf(kept, s).dts - OffsetOf(s)'
  <2>1. /\ FirstIndex(kept, s) \in 1 .. Len(kept) /\ FirstOf(kept, s) \in Packet
        /\ FirstOf(kept, s).stream = s /\ FirstOf(kept, s) = kept[FirstIndex(kept, s)]
    BY <1>1, FirstIs DEF FirstOf
  <2>2. Fresh(FirstOf(kept, s), origin) /\ FirstOf(kept, s).at >= origin
    <3>1. DOMAIN kept = 1 .. Len(kept)
      BY <1>1
    <3> QED BY <1>2, <2>1, <3>1 DEF Collected, Late
  <2>3. PICK i \in 1 .. Len(sorted) : sorted[i].stream = s /\ sorted[i].at = FirstOf(kept, s).at
    BY <1>1, <2>1
  <2>4. FirstOf(kept, s).at \in Nat /\ sorted[i].ts = sorted[i].at - origin - Lag(s) - OffsetOf(s)'
    BY <1>1, <2>1, <2>3, PacketFields
  <2>5. FirstOf(kept, s).dts = FirstOf(kept, s).at - origin - Lag(s) /\ FirstOf(kept, s).ts = Boot + FirstOf(kept, s).at
    BY <2>1, <2>2 DEF Fresh
  <2> QED BY <2>1, <2>2, <2>3, <2>4, <2>5
<1>7. highest_video_ts' + VideoFrame <= Due(Video)'
  <2>1. PICK i \in 1 .. Len(sorted) : sorted[i].stream = Video
          /\ sorted[i].ts = FirstOf(kept, Video).dts - OffsetOf(Video)'
    BY <1>5, <1>6
  <2>2. OffsetOf(Video)' = FirstOf(kept, Video).dts + PtsLag
    BY <1>1, <1>5, <1>6 DEF OffsetOf, VideoOffsetFrom, Pts
  <2>3. FirstOf(kept, Video).dts \in Int
    BY <1>1, <1>5, FirstIs, PacketFields
  <2>4. sorted[i].ts = -PtsLag
    BY <1>4, <2>1, <2>2, <2>3
  <2>5. /\ -Boot \in Int
        /\ \A j \in 1 .. Len(sorted) : sorted[j].stream \in {Video} => sorted[j].ts <= highest_video_ts'
        /\ highest_video_ts' = -Boot
           \/ \E j \in 1 .. Len(sorted) : sorted[j].stream \in {Video} /\ sorted[j].ts = highest_video_ts'
    <3>1. -Boot \in Int
      BY <1>4
    <3>2. highest_video_ts' = HighestOf(sorted, {Video}, -Boot)
      BY <1>1, <1>3
    <3>3. sorted \in Seq(Packet)
      BY <1>1
    <3> QED BY <3>1, <3>2, <3>3, HighestIs
  <2>6. highest_video_ts' # -Boot
    BY <1>4, <2>1, <2>4, <2>5
  <2>7. PICK j \in 1 .. Len(sorted) : sorted[j].stream = Video /\ sorted[j].ts = highest_video_ts'
    BY <2>5, <2>6
  <2>8. sorted[j].ts + Frame(sorted[j].stream) <= Due(sorted[j].stream)'
    BY <1>1, <2>7
  <2>9. sorted[j].ts + VideoFrame <= Due(Video)'
    BY <1>5, <2>7, <2>8
  <2> QED BY <2>7, <2>9
<1>8. \E t \in Tracks : highest_audio_ts' + AudioFrame <= Due(t)'
  <2> DEFINE first == FirstOf(kept, 1)
             before == 0 - first.ts
  <2>1. PICK i \in 1 .. Len(sorted) : sorted[i].stream = 1 /\ sorted[i].ts = first.dts - OffsetOf(1)'
    BY <1>5, <1>6
  <2>2. /\ first.at \in Nat /\ first.at >= origin /\ first.ts = Boot + first.at
        /\ first.dts = first.at - origin - Priming
    BY <1>5, <1>6 DEF Lag
  <2>3. OffsetOf(1)' = IF first.dts > 0 THEN first.dts ELSE 0
    <3>1. OffsetOf(1)' = audio_offsets'[1]
      BY <1>5 DEF OffsetOf
    <3> QED BY <1>1, <1>5, <3>1 DEF AudioOffsetsFrom, AudioOffset
  <2> HIDE DEF first
  <2>4. sorted[i].ts >= -Priming
    BY <1>4, <2>1, <2>2, <2>3
  <2>5. before \in Int /\ before < -Priming
    BY <1>4, <2>2
  <2>6. highest_audio_ts' = HighestOf(sorted, Tracks, before)
    BY <1>1, <1>3 DEF first
  <2> HIDE DEF before
  <2>7. /\ \A j \in 1 .. Len(sorted) : sorted[j].stream \in Tracks => sorted[j].ts <= highest_audio_ts'
        /\ highest_audio_ts' = before
           \/ \E j \in 1 .. Len(sorted) : sorted[j].stream \in Tracks /\ sorted[j].ts = highest_audio_ts'
    <3>1. sorted \in Seq(Packet)
      BY <1>1
    <3> QED BY <2>5, <2>6, <3>1, HighestIs
  <2>8. highest_audio_ts' # before
    <3>1. sorted[i].ts <= highest_audio_ts' /\ sorted[i].ts \in Int
      BY <1>1, <1>5, <2>1, <2>7, PacketFields
    <3> QED BY <1>4, <2>4, <2>5, <3>1
  <2>9. PICK j \in 1 .. Len(sorted) : sorted[j].stream \in Tracks /\ sorted[j].ts = highest_audio_ts'
    BY <2>7, <2>8
  <2>10. sorted[j].ts + Frame(sorted[j].stream) <= Due(sorted[j].stream)'
    BY <1>1, <2>9
  <2> DEFINE t == sorted[j].stream
  <2>11. t \in Tracks /\ Frame(t) = AudioFrame
    BY <1>5, <2>9
  <2>12. highest_audio_ts' + AudioFrame <= Due(t)'
    BY <2>9, <2>10, <2>11
  <2> QED BY <2>11, <2>12
<1> QED BY <1>2, <1>7, <1>8 DEF Clocks

-----------------------------------------------------------------------------
(* The order of what is sent *)

(* Nothing that is queued or due will be earlier than what has been sent.   *)
InOrder ==
  /\ Ordered(sent)
  /\ \A i \in DOMAIN sent :
       /\ \A j \in DOMAIN packets : sent[i].ts <= packets[j].ts
       /\ \A s \in Streams : sent[i].ts <= Due(s)

(* On the clocks of the output no track is more than a packet behind        *)
(* another.                                                                 *)
InPhase == Started => \A t, u \in Tracks : Due(t) - AudioFrame <= Due(u)

LEMMA OrderStarts ==
  ASSUME Inv, ~ Started, NEW kept, Starts(kept), next' \in [Streams -> Nat]
  PROVE  InOrder'
<1> DEFINE sorted == Resort(Moved(kept))
<1>1. /\ sorted \in Seq(Packet) /\ Len(sorted) > 0 /\ Ordered(sorted)
      /\ \A s \in Streams : Has(sorted, s)
      /\ \A i \in 1 .. Len(sorted) :
           LET s == sorted[i].stream
           IN /\ s \in Streams /\ sorted[i] \in Packet
              /\ sorted[i].ts + Frame(s) <= Due(s)'
      /\ packets' = From(sorted, 2) /\ sent' = <<sorted[1]>>
      /\ \A s \in Streams : Due(s)' \in Int
  BY StartsIs
<1> HIDE DEF sorted
<1>2. Len(sorted) \in Nat /\ 1 \in 1 .. Len(sorted) /\ DOMAIN sorted = 1 .. Len(sorted)
  BY <1>1
<1>3. DOMAIN sent' = {1} /\ sent'[1] = sorted[1]
  BY <1>1
<1>4. \A i \in 1 .. Len(sorted) : sorted[1].ts <= sorted[i].ts
  <2> TAKE i \in 1 .. Len(sorted)
  <2>1. sorted[1].ts \in Int
    BY <1>1, <1>2, PacketFields
  <2> QED BY <1>1, <1>2, <2>1, SMTT(40) DEF Ordered
<1>5. \A j \in DOMAIN packets' : sorted[1].ts <= packets'[j].ts
  <2>1. 2 \in 1 .. Len(sorted) + 1
    BY <1>1, <1>2
  <2>2. /\ packets' \in Seq(Packet) /\ Len(packets') = Len(sorted) - 2 + 1
        /\ \A j \in 1 .. Len(sorted) - 2 + 1 : packets'[j] = sorted[2 - 1 + j]
    BY <1>1, <2>1, FromIs
  <2> TAKE j \in DOMAIN packets'
  <2>3. j \in 1 .. Len(sorted) - 2 + 1 /\ 2 - 1 + j \in 1 .. Len(sorted)
    BY <1>2, <2>2
  <2> QED BY <1>4, <2>2, <2>3
<1>6. \A s \in Streams : sorted[1].ts <= Due(s)'
  <2> TAKE s \in Streams
  <2>1. PICK i \in 1 .. Len(sorted) : sorted[i].stream = s
    BY <1>1, Indices DEF Has
  <2>2. sorted[i].ts + Frame(s) <= Due(s)' /\ sorted[i].ts \in Int /\ sorted[1].ts \in Int
    BY <1>1, <1>2, <2>1, PacketFields
  <2> QED BY <1>1, <1>4, <2>1, <2>2, FrameType
<1>7. Ordered(sent')
  BY <1>3 DEF Ordered
<1>8. \A i \in DOMAIN sent' : /\ \A j \in DOMAIN packets' : sent'[i].ts <= packets'[j].ts
                             /\ \A s \in Streams : sent'[i].ts <= Due(s)'
  BY <1>3, <1>5, <1>6
<1> QED BY <1>7, <1>8 DEF InOrder, Ordered

(* What is streamable is not later than anything that is due. *)
LEMMA StreamableDue ==
  ASSUME Inv, Clocks, NEW s \in Streams, NEW key \in BOOLEAN, Interleave(s, key), InPhase',
         NEW q \in Packet, q.ts + Frame(q.stream) <= Due(q.stream)',
         HasHigherOpposing(q, highest_video_ts', highest_audio_ts'),
         highest_video_ts' \in Int, highest_audio_ts' \in Int, NEW u \in Streams
  PROVE  q.ts <= Due(u)'
<1>1. Clocks' /\ Started'
  BY ClocksInterleave, InterleaveIs
<1>2. /\ highest_video_ts' + VideoFrame <= Due(Video)'
      /\ \E t \in Tracks : highest_audio_ts' + AudioFrame <= Due(t)'
  BY <1>1 DEF Clocks
<1>3. \A t, v \in Tracks : Due(t)' - AudioFrame <= Due(v)'
  BY <1>1 DEF InPhase
<1>4. \A t \in Streams : Due(t)' \in Int
  <2> TAKE t \in Streams
  <2>1. Due(t) \in Int /\ Due(t)' = (IF t = s THEN Due(t) + Frame(t) ELSE Due(t)) /\ Frame(t) \in Nat
    BY InterleaveIs, FrameType
  <2> QED BY <2>1
<1>5. /\ q.ts \in Int /\ q.stream \in Streams
      /\ IF q.stream = Video THEN highest_audio_ts' > q.ts ELSE highest_video_ts' > q.ts
  BY PacketFields DEF HasHigherOpposing
<1>6. /\ Frame(Video) = VideoFrame /\ Video \in Streams
      /\ \A t \in Streams : t # Video => t \in Tracks /\ Frame(t) = AudioFrame
      /\ \A t \in Tracks : t \in Streams /\ t # Video
      /\ VideoFrame \in Nat /\ AudioFrame \in Nat
  BY NumTracksType, FramesAssumption DEF Frame, Streams, Tracks, Video
<1>7. CASE q.stream = Video
  <2>1. CASE u = Video
    BY <1>4, <1>5, <1>6, <1>7, <2>1
  <2>2. CASE u # Video
    <3>1. PICK t \in Tracks : highest_audio_ts' + AudioFrame <= Due(t)'
      BY <1>2
    <3>2. Due(t)' - AudioFrame <= Due(u)' /\ Due(t)' \in Int /\ Due(u)' \in Int
      BY <1>3, <1>4, <1>6, <2>2
    <3> QED BY <1>5, <1>6, <1>7, <3>1, <3>2
  <2> QED BY <2>1, <2>2
<1>8. CASE q.stream # Video
  <2>1. CASE u = Video
    BY <1>2, <1>4, <1>5, <1>6, <1>8, <2>1
  <2>2. CASE u # Video
    <3> DEFINE t == q.stream
    <3>1. q.ts + AudioFrame <= Due(t)' /\ t \in Tracks /\ u \in Tracks
      BY <1>5, <1>6, <1>8, <2>2
    <3>2. Due(t)' - AudioFrame <= Due(u)' /\ Due(t)' \in Int /\ Due(u)' \in Int
      BY <1>3, <1>4, <1>6, <3>1
    <3> QED BY <1>5, <1>6, <3>1, <3>2
  <2> QED BY <2>1, <2>2
<1> QED BY <1>7, <1>8

LEMMA OrderInterleave ==
  ASSUME Inv, Clocks, InOrder, NEW s \in Streams, NEW key \in BOOLEAN, Interleave(s, key), InPhase'
  PROVE  InOrder'
<1> DEFINE p == Apply(video_offset, audio_offsets, Arrived(s, key))
           seq == Insert(packets, p)
           video == HighestOf(<<p>>, {Video}, highest_video_ts)
           audio == HighestOf(<<p>>, Tracks, highest_audio_ts)
<1>1. /\ Started /\ Started' /\ p \in Packet /\ p.stream = s /\ p.ts = Due(s)
      /\ \A t \in Streams : /\ Due(t) \in Int
                            /\ Due(t)' = IF t = s THEN Due(t) + Frame(t) ELSE Due(t)
      /\ seq \in Seq(Packet) /\ Ordered(seq)
      /\ highest_video_ts' = video /\ highest_audio_ts' = audio
      /\ \E n \in 0 .. Streamable(seq, video, audio) :
           packets' = From(seq, n + 1) /\ sent' = sent \o SubSeq(seq, 1, n)
  BY InterleaveIs, ZenonT(40)
<1>2. packets \in Seq(Packet) /\ sent \in Seq(Packet) /\ Len(packets) \in Nat /\ Len(sent) \in Nat
      /\ DOMAIN packets = 1 .. Len(packets) /\ DOMAIN sent = 1 .. Len(sent)
  BY DEF Inv, TypeOK
<1>3. /\ Len(seq) = Len(packets) + 1
      /\ \A i \in 1 .. Len(seq) : seq[i] = p \/ \E j \in 1 .. Len(packets) : seq[i] = packets[j]
  BY <1>1, <1>2, InsertMembers
<1>4. highest_video_ts' \in Int /\ highest_audio_ts' \in Int
  BY InterleaveInv DEF Inv, TypeOK
<1> HIDE DEF p, seq, video, audio
(* All that has been sent is before all of the list and what is due. *)
<1>5. \A i \in 1 .. Len(sent), j \in 1 .. Len(seq) : sent[i].ts <= seq[j].ts
  <2> TAKE i \in 1 .. Len(sent), j \in 1 .. Len(seq)
  <2>1. /\ \A l \in 1 .. Len(packets) : sent[i].ts <= packets[l].ts
        /\ sent[i].ts <= Due(s)
    BY <1>2 DEF InOrder
  <2> QED BY <1>1, <1>3, <2>1
<1>6. \A i \in 1 .. Len(sent), u \in Streams : sent[i].ts <= Due(u)'
  <2> TAKE i \in 1 .. Len(sent), u \in Streams
  <2>1. sent[i].ts <= Due(u)
    BY <1>2 DEF InOrder
  <2>2. sent[i] \in Packet /\ Due(u) \in Int /\ Frame(u) \in Nat
    BY <1>1, <1>2, FrameType
  <2>3. sent[i].ts \in Int
    BY <2>2, PacketFields
  <2>4. Due(u)' = IF u = s THEN Due(u) + Frame(u) ELSE Due(u)
    BY <1>1
  <2> QED BY <2>1, <2>2, <2>3, <2>4
(* The next packet of a stream is behind all of the stream. *)
<1>7. ASSUME NEW j \in 1 .. Len(seq), NEW q, q = seq[j], NEW t, t = q.stream
      PROVE  q \in Packet /\ q.ts + Frame(t) <= Due(t)'
  <2>1. q \in Packet /\ t \in Streams /\ Frame(t) \in Nat
    BY <1>1, <1>7, PacketFields, FrameType
  <2>2. Due(t) \in Int /\ Due(t)' = IF t = s THEN Due(t) + Frame(t) ELSE Due(t)
    BY <1>1, <2>1
  <2>3. CASE q = p
    <3>1. t = s /\ q.ts = Due(t)
      BY <1>1, <1>7, <2>3
    <3> QED BY <2>1, <2>2, <3>1
  <2>4. CASE \E l \in 1 .. Len(packets) : q = packets[l]
    <3>1. PICK l \in 1 .. Len(packets) : q = packets[l]
      BY <2>4
    <3>2. q.at + Frame(t) <= next[t] /\ q.at \in Nat
      BY <1>7, <2>1, <3>1, QueuedIn, PacketFields
    <3>3. q.ts = q.at - origin - Lag(t) - OffsetOf(t)
      BY <1>1, <1>2, <1>7, <3>1 DEF Inv, Stamped, Rebased
    <3>4. Due(t) = next[t] - origin - Lag(t) - OffsetOf(t)
      BY DEF Due
    <3>5. next[t] \in Nat /\ origin \in Nat /\ Lag(t) \in Nat /\ OffsetOf(t) \in Int
      BY <2>1, DueType DEF Inv, TypeOK
    <3>6. q.ts + Frame(t) <= Due(t)
      BY <2>1, <3>2, <3>3, <3>4, <3>5, SMTT(40)
    <3>7. q.ts \in Int
      BY <2>1, PacketFields
    <3> QED BY <2>1, <2>2, <3>6, <3>7
  <2> QED BY <1>3, <1>7, <2>3, <2>4
<1>8. PICK n \in 0 .. Streamable(seq, video, audio) :
        packets' = From(seq, n + 1) /\ sent' = sent \o SubSeq(seq, 1, n)
  BY <1>1
<1>9. /\ n \in 0 .. Len(seq) /\ Len(seq) \in Nat
      /\ \A i \in 1 .. n : HasHigherOpposing(seq[i], video, audio)
  BY <1>1, <1>2, <1>3, <1>8, StreamableIs, SMTT(40)
<1>10. ASSUME NEW i \in 1 .. n, NEW u \in Streams PROVE seq[i].ts <= Due(u)'
  <2>1. i \in 1 .. Len(seq) /\ HasHigherOpposing(seq[i], highest_video_ts', highest_audio_ts')
    BY <1>1, <1>9
  <2>2. \A q, t : q = seq[i] /\ t = q.stream => q \in Packet /\ q.ts + Frame(t) <= Due(t)'
    BY <1>7, <2>1
  <2>3. \A q : q = seq[i] => q.ts <= Due(u)'
    <3> SUFFICES ASSUME NEW q, q = seq[i] PROVE q.ts <= Due(u)'
      OBVIOUS
    <3> DEFINE t == q.stream
    <3>1. q \in Packet /\ q.ts + Frame(t) <= Due(t)'
      BY <2>2
    <3>2. HasHigherOpposing(q, highest_video_ts', highest_audio_ts')
      BY <2>1
    <3> QED BY <1>4, <3>1, <3>2, StreamableDue
  <2> QED BY <2>3
<1> DEFINE m == n + 1
           out == SubSeq(seq, 1, n)
<1>11. /\ packets' \in Seq(Packet) /\ Len(packets') = Len(seq) - n
       /\ \A j \in 1 .. Len(seq) - n : packets'[j] = seq[n + j]
  <2>1. m \in 1 .. Len(seq) + 1 /\ packets' = From(seq, m)
    BY <1>8, <1>9
  <2>2. m - 1 = n /\ Len(seq) - m + 1 = Len(seq) - n
    BY <1>9
  <2> HIDE DEF m
  <2>3. /\ packets' \in Seq(Packet) /\ Len(packets') = Len(seq) - m + 1
        /\ \A j \in 1 .. Len(seq) - m + 1 : packets'[j] = seq[m - 1 + j]
    BY <1>1, <2>1, FromIs
  <2> QED BY <2>2, <2>3
<1>12. /\ out \in Seq(Packet) /\ Len(out) = n /\ \A j \in 1 .. n : out[j] = seq[j]
  <2>1. \A i \in 1 .. n : seq[i] \in Packet
    BY <1>1, <1>9
  <2> QED BY <1>9, <2>1, SubSeqProperties
<1>13. /\ sent' \in Seq(Packet) /\ Len(sent') = Len(sent) + n
       /\ \A i \in 1 .. Len(sent) + n : sent'[i] = IF i <= Len(sent) THEN sent[i] ELSE seq[i - Len(sent)]
  <2>1. /\ sent' \in Seq(Packet) /\ Len(sent') = Len(sent) + Len(out)
        /\ \A i \in 1 .. Len(sent) + Len(out) :
             sent'[i] = IF i <= Len(sent) THEN sent[i] ELSE out[i - Len(sent)]
    BY <1>2, <1>8, <1>12, ConcatProperties
  <2>2. \A i \in 1 .. Len(sent) + n : ~ (i <= Len(sent)) => i - Len(sent) \in 1 .. n
    BY <1>2, <1>9
  <2> HIDE DEF out
  <2> QED BY <1>12, <2>1, <2>2
<1> HIDE DEF m, out
<1>14. ASSUME NEW i \in 1 .. Len(sent) + n
       PROVE  \/ i <= Len(sent) /\ i \in 1 .. Len(sent) /\ sent'[i] = sent[i]
              \/ i > Len(sent) /\ i - Len(sent) \in 1 .. n /\ sent'[i] = seq[i - Len(sent)]
  BY <1>2, <1>9, <1>13
<1>15. \A i, j \in 1 .. Len(seq) : i < j => seq[i].ts <= seq[j].ts
  <2>1. DOMAIN seq = 1 .. Len(seq)
    BY <1>1
  <2> QED BY <1>1, <2>1 DEF Ordered
<1>16. Ordered(sent')
  <2> SUFFICES ASSUME NEW i \in 1 .. Len(sent) + n, NEW j \in 1 .. Len(sent) + n, i < j
               PROVE  sent'[i].ts <= sent'[j].ts
    <3>1. DOMAIN sent' = 1 .. Len(sent) + n
      BY <1>13
    <3> QED BY <3>1 DEF Ordered
  <2>1. CASE j <= Len(sent)
    <3>1. i <= Len(sent) /\ i \in 1 .. Len(sent) /\ j \in 1 .. Len(sent)
      BY <1>2, <1>9, <2>1
    <3>2. sent[i].ts <= sent[j].ts
      BY <1>2, <3>1 DEF InOrder, Ordered
    <3> QED BY <1>13, <2>1, <3>1, <3>2
  <2>2. CASE j > Len(sent)
    <3>1. j - Len(sent) \in 1 .. n /\ sent'[j] = seq[j - Len(sent)] /\ j - Len(sent) \in 1 .. Len(seq)
      BY <1>2, <1>9, <1>14, <2>2
    <3>2. CASE i <= Len(sent)
      <4>1. i \in 1 .. Len(sent) /\ sent'[i] = sent[i]
        BY <1>2, <1>9, <1>14, <3>2
      <4> QED BY <1>5, <3>1, <4>1
    <3>3. CASE i > Len(sent)
      <4>1. i - Len(sent) \in 1 .. n /\ sent'[i] = seq[i - Len(sent)] /\ i - Len(sent) \in 1 .. Len(seq)
            /\ i - Len(sent) < j - Len(sent)
        BY <1>2, <1>9, <1>14, <3>3
      <4> QED BY <1>15, <3>1, <4>1
    <3> QED BY <1>2, <1>9, <3>2, <3>3
  <2> QED BY <1>2, <1>9, <2>1, <2>2
<1>17. ASSUME NEW i \in 1 .. Len(sent) + n
       PROVE  /\ \A j \in 1 .. Len(packets') : sent'[i].ts <= packets'[j].ts
              /\ \A u \in Streams : sent'[i].ts <= Due(u)'
  <2>1. \A j \in 1 .. Len(packets') : packets'[j] = seq[n + j] /\ n + j \in 1 .. Len(seq) /\ n < n + j
    BY <1>9, <1>11
  <2>2. CASE i \in 1 .. Len(sent) /\ sent'[i] = sent[i]
    BY <1>5, <1>6, <2>1, <2>2
  <2>3. CASE i - Len(sent) \in 1 .. n /\ sent'[i] = seq[i - Len(sent)]
    <3>1. \A j \in 1 .. Len(packets') : i - Len(sent) < n + j /\ i - Len(sent) \in 1 .. Len(seq)
      BY <1>2, <1>9, <1>11, <2>3
    <3>2. \A u \in Streams : sent'[i].ts <= Due(u)'
      BY <1>10, <2>3
    <3> QED BY <1>15, <2>1, <2>3, <3>1, <3>2
  <2> QED BY <1>14, <2>2, <2>3
<1>18. DOMAIN sent' = 1 .. Len(sent) + n /\ DOMAIN packets' = 1 .. Len(packets')
  BY <1>11, <1>13
<1> QED BY <1>16, <1>17, <1>18 DEF InOrder, Ordered

LEMMA ClocksStep == Inv /\ Recent /\ Clocks /\ [Next]_vars => Clocks'
<1> SUFFICES ASSUME Inv, Recent, Clocks, [Next]_vars PROVE Clocks'
  OBVIOUS
<1>1. CASE Restart
  BY <1>1 DEF Restart, ResetPackets, Clocks, Started
<1>2. CASE Discard
  <2>1. ~ received_video /\ UNCHANGED <<flags, highest>>
    BY <1>2 DEF Discard
  <2> QED BY <2>1 DEF Clocks, Started, flags, highest
<1>3. ASSUME NEW s \in Streams, NEW key \in BOOLEAN, Collect(s, key)
      PROVE  Clocks'
  <2> DEFINE seq == Insert(packets, Arrived(s, key))
             kept == Kept(seq)
  <2>1. /\ ~ Started /\ Arrives(s, key) /\ Collected(seq, next')
        /\ Waits(seq) \/ (Complete(seq) /\ Waits(kept)) \/ (Complete(seq) /\ Starts(kept))
    BY <1>3, CollectIs
  <2>2. seq \in Seq(Packet) /\ Late(seq) /\ next' \in [Streams -> Nat]
    BY <2>1, RecentInsert, ArrivesIs DEF Collected, Inv
  <2>3. Complete(seq) => Late(kept)
    BY <2>2, LateKept
  <2> HIDE DEF seq, kept
  <2>4. ASSUME NEW list, Waits(list) PROVE Clocks'
    BY <2>1, <2>4 DEF Waits, Clocks, Started, highest
  <2>5. ASSUME Late(kept), Starts(kept) PROVE Clocks'
    BY <2>1, <2>2, <2>5, ClocksStarts
  <2> QED BY <2>1, <2>3, <2>4, <2>5
<1>4. ASSUME NEW s \in Streams, NEW key \in BOOLEAN, Interleave(s, key)
      PROVE  Clocks'
  BY <1>4, ClocksInterleave
<1>5. CASE UNCHANGED vars
  BY <1>5 DEF vars, Clocks, Started, Due, OffsetOf, Lag
<1> QED BY <1>1, <1>2, <1>3, <1>4, <1>5 DEF Next

LEMMA OrderStep == Inv /\ Clocks /\ InOrder /\ InPhase' /\ [Next]_vars => InOrder'
<1> SUFFICES ASSUME Inv, Clocks, InOrder, InPhase', [Next]_vars PROVE InOrder'
  OBVIOUS
<1>1. sent' = << >> => InOrder'
  BY DEF InOrder, Ordered
<1>2. CASE Restart
  BY <1>1, <1>2 DEF Restart
<1>3. CASE Discard
  <2>1. ~ Started /\ sent' = sent
    BY <1>3 DEF Discard, Started
  <2> QED BY <1>1, <2>1, NothingSent
<1>4. ASSUME NEW s \in Streams, NEW key \in BOOLEAN, Collect(s, key)
      PROVE  InOrder'
  <2> DEFINE seq == Insert(packets, Arrived(s, key))
             kept == Kept(seq)
  <2>1. /\ ~ Started /\ Arrives(s, key)
        /\ Waits(seq) \/ Waits(kept) \/ Starts(kept)
    BY <1>4, CollectIs
  <2>2. next' \in [Streams -> Nat]
    BY <2>1, ArrivesIs DEF Inv
  <2> HIDE DEF seq, kept
  <2>3. \A list : Waits(list) => InOrder'
    BY <1>1 DEF Waits
  <2>4. Starts(kept) => InOrder'
    BY <2>1, <2>2, OrderStarts
  <2> QED BY <2>1, <2>3, <2>4
<1>5. ASSUME NEW s \in Streams, NEW key \in BOOLEAN, Interleave(s, key)
      PROVE  InOrder'
  BY <1>5, OrderInterleave
<1>6. CASE UNCHANGED vars
  BY <1>6 DEF vars, InOrder, Ordered, Due, OffsetOf, Lag
<1> QED BY <1>2, <1>3, <1>4, <1>5, <1>6 DEF Next

(* What is sent is in the order of its timestamps, whatever the delays, as  *)
(* long as the offsets do not bring the tracks more than a packet apart:    *)
(* the comment of the code, with the condition under which it holds.        *)
THEOREM OrderInPhase == Spec /\ []InPhase => []SentInOrder
<1>1. Init => Clocks /\ InOrder
  BY DEF Init, Clocks, InOrder, Ordered, Started
<1>2. Inv /\ InOrder => SentInOrder
  <2> SUFFICES ASSUME Inv, InOrder, NEW i \in 1 .. Len(sent) - 1
               PROVE  sent[i].ts <= sent[i + 1].ts
    BY DEF SentInOrder
  <2>1. sent \in Seq(Packet) /\ Len(sent) \in Nat /\ DOMAIN sent = 1 .. Len(sent)
    BY DEF Inv, TypeOK
  <2>2. i \in DOMAIN sent /\ i + 1 \in DOMAIN sent /\ i < i + 1
    BY <2>1
  <2> QED BY <2>2 DEF InOrder, Ordered
<1>3. Inv /\ Recent /\ Clocks /\ InOrder /\ InPhase' /\ [Next]_vars => Clocks' /\ InOrder'
  BY ClocksStep, OrderStep
<1> QED BY <1>1, <1>2, <1>3, AlwaysInv, RecentInit, RecentStep, PTL DEF Spec

(* The audio encoders are fed together, one track after the other. *)
Even == \A t, u \in Tracks : next[t] <= next[u] + AudioFrame

LEMMA EvenBegins == \A b \in Begins : \A t, u \in Tracks : b[t] <= b[u] + AudioFrame
<1> SUFFICES ASSUME NEW b \in Begins, NEW t \in Tracks, NEW u \in Tracks
             PROVE  b[t] <= b[u] + AudioFrame
  OBVIOUS
<1>1. b[t] \in Nat /\ b[u] \in Nat /\ AudioFrame \in Nat /\ t \in Streams /\ u \in Streams
  BY BeginsType, FramesAssumption DEF Streams
<1>2. b[t] - b[u] \in {-AudioFrame, 0, AudioFrame}
  <2>1. CASE b = [s \in Streams |-> 0]
    <3>1. b[t] - b[u] = 0
      BY <1>1, <2>1
    <3> QED BY <3>1
  <2>2. CASE b # [s \in Streams |-> 0]
    BY <2>2 DEF Begins
  <2> QED BY <2>1, <2>2
<1> QED BY <1>1, <1>2

LEMMA EvenStep == Inv /\ Even /\ [Next]_vars => Even'
<1> SUFFICES ASSUME Inv, Even, [Next]_vars PROVE Even'
  OBVIOUS
<1>1. /\ \A t \in Tracks : next[t] \in Nat /\ t \in Streams /\ Frame(t) = AudioFrame /\ t # Video
      /\ AudioFrame \in Nat
  BY FramesAssumption DEF Inv, TypeOK, Streams, Frame, Tracks, Video
<1>2. ASSUME NEW s \in Streams, NEW key \in BOOLEAN, Arrives(s, key) PROVE Even'
  <2>1. \A t \in Streams : next'[t] = IF t = s THEN next[t] + Frame(t) ELSE next[t]
    BY <1>2, ArrivesIs DEF Inv
  <2>2. \A t \in Tracks : next'[t] = IF t = s THEN next[t] + AudioFrame ELSE next[t]
    BY <1>1, <2>1
  <2>3. s \in Tracks => \A t \in Tracks : next[s] <= next[t]
    BY <1>1, <1>2 DEF Arrives
  <2>4. ASSUME NEW t \in Tracks, NEW u \in Tracks PROVE next'[t] <= next'[u] + AudioFrame
    <3>1. next[t] <= next[u] + AudioFrame
      BY DEF Even
    <3>2. CASE t = s
      BY <1>1, <2>2, <2>3, <3>2
    <3>3. CASE t # s
      BY <1>1, <2>2, <3>1, <3>3
    <3> QED BY <3>2, <3>3
  <2> QED BY <2>4 DEF Even
<1>3. CASE Restart
  <2>1. \E b \in Begins : next' = [s \in Streams |-> origin' + b[s]]
    BY <1>3 DEF Restart
  <2>2. PICK b \in Begins : next' = [s \in Streams |-> origin' + b[s]]
    BY <2>1
  <2>3. origin' \in Nat
    BY <1>3, RestartInv DEF Inv, TypeOK
  <2>4. ASSUME NEW t \in Tracks, NEW u \in Tracks PROVE next'[t] <= next'[u] + AudioFrame
    <3>1. b[t] <= b[u] + AudioFrame /\ b[t] \in Nat /\ b[u] \in Nat
      BY <1>1, EvenBegins, BeginsType
    <3>2. next'[t] = origin' + b[t] /\ next'[u] = origin' + b[u]
      BY <1>1, <2>2
    <3> QED BY <1>1, <2>3, <3>1, <3>2
  <2> QED BY <2>4 DEF Even
<1>4. CASE Discard
  BY <1>2, <1>4, NumTracksType DEF Discard
<1>5. ASSUME NEW s \in Streams, NEW key \in BOOLEAN, Collect(s, key) \/ Interleave(s, key) PROVE Even'
  BY <1>2, <1>5 DEF Collect, Interleave
<1>6. CASE UNCHANGED vars
  BY <1>6 DEF vars, Even
<1> QED BY <1>3, <1>4, <1>5, <1>6 DEF Next

(* The offsets of all tracks are equal. *)
EqualOffsets == Started => \A t, u \in Tracks : audio_offsets[t] = audio_offsets[u]

LEMMA EqualInPhase == Inv /\ Even /\ EqualOffsets => InPhase
<1> SUFFICES ASSUME Inv, Even, EqualOffsets, Started, NEW t \in Tracks, NEW u \in Tracks
             PROVE  Due(t) - AudioFrame <= Due(u)
  BY DEF InPhase
<1>1. t \in Streams /\ u \in Streams /\ t # Video /\ u # Video
  BY DEF Streams, Tracks, Video
<1>2. /\ next[t] \in Nat /\ next[u] \in Nat /\ origin \in Nat /\ Priming \in Nat /\ AudioFrame \in Nat
      /\ audio_offsets[t] \in Nat
  BY <1>1, FramesAssumption DEF Inv, TypeOK
<1>3. next[t] <= next[u] + AudioFrame /\ audio_offsets[t] = audio_offsets[u]
  BY DEF Even, EqualOffsets
<1>4. /\ Due(t) = next[t] - origin - Priming - audio_offsets[t]
      /\ Due(u) = next[u] - origin - Priming - audio_offsets[u]
  BY <1>1 DEF Due, Lag, OffsetOf
<1> QED BY <1>2, <1>3, <1>4

LEMMA EvenInit == Init => Even
BY EvenBegins DEF Init, Even

(* In particular if the tracks begin at the same time, so that they get the *)
(* same offset.                                                             *)
THEOREM OrderTogether == Spec /\ []EqualOffsets => []SentInOrder
<1>1. Spec => []Even
  BY AlwaysInv, EvenInit, EvenStep, PTL DEF Spec
<1> QED BY <1>1, AlwaysInv, EqualInPhase, OrderInPhase, PTL

(* With a single track there is nothing to differ. *)
THEOREM OrderOneTrack == NumTracks = 1 => (Spec => []SentInOrder)
<1> SUFFICES ASSUME NumTracks = 1 PROVE Spec => []SentInOrder
  OBVIOUS
<1>1. EqualOffsets
  BY DEF EqualOffsets, Tracks
<1>2. []EqualOffsets
  BY <1>1, PTL
<1> QED BY <1>2, OrderTogether, PTL

-----------------------------------------------------------------------------
(* Where the streams begin *)

LEMMA AtOrdered ==
  ASSUME NEW list, NEW nx, Collected(list, nx), NEW i \in 1 .. Len(list), NEW j \in 1 .. Len(list)
  PROVE  /\ list[i] \in Packet /\ list[i].at \in Nat /\ list[i].ts = Boot + list[i].at /\ Boot \in Nat
         /\ list[i].dts = list[i].at - origin - Lag(list[i].stream)
         /\ i <= j => list[i].at <= list[j].at
<1>1. list \in Seq(Packet) /\ DOMAIN list = 1 .. Len(list) /\ Boot \in Nat
  BY TimesAssumption DEF Collected
<1>2. list[i] \in Packet /\ list[j] \in Packet /\ list[i].at \in Nat /\ list[j].at \in Nat
  BY <1>1, PacketFields
<1>3. /\ list[i].ts = Boot + list[i].at /\ list[j].ts = Boot + list[j].at
      /\ list[i].dts = list[i].at - origin - Lag(list[i].stream)
  BY DEF Collected, Fresh
<1>4. i < j => list[i].ts <= list[j].ts
  BY <1>1 DEF Collected, Ordered
<1>5. i <= j => list[i].at <= list[j].at
  <2>1. i = j \/ i < j \/ ~ (i <= j)
    BY <1>1
  <2> QED BY <1>1, <1>2, <1>3, <1>4, <2>1
<1> QED BY <1>1, <1>2, <1>3, <1>5

LEMMA FirstLeast ==
  ASSUME NEW list, NEW nx, Collected(list, nx), NEW s, Has(list, s)
  PROVE  /\ FirstIndex(list, s) \in 1 .. Len(list) /\ FirstOf(list, s) = list[FirstIndex(list, s)]
         /\ FirstOf(list, s).stream = s /\ FirstOf(list, s).at \in Nat
         /\ FirstOf(list, s).ts = Boot + FirstOf(list, s).at
         /\ \A i \in 1 .. Len(list) : list[i].stream = s =>
              FirstIndex(list, s) <= i /\ FirstOf(list, s).at <= list[i].at
<1>1. list \in Seq(Packet)
  BY DEF Collected
<1>2. /\ FirstIndex(list, s) \in 1 .. Len(list) /\ FirstOf(list, s).stream = s
      /\ \A i \in 1 .. Len(list) : list[i].stream = s => FirstIndex(list, s) <= i
  BY <1>1, FirstIs
<1>3. FirstOf(list, s) = list[FirstIndex(list, s)]
  BY DEF FirstOf
<1>4. \A i \in 1 .. Len(list) : list[i].stream = s => FirstOf(list, s).at <= list[i].at
  BY <1>2, <1>3, AtOrdered
<1>5. FirstOf(list, s).at \in Nat /\ FirstOf(list, s).ts = Boot + FirstOf(list, s).at
  BY <1>2, <1>3, AtOrdered
<1> QED BY <1>2, <1>3, <1>4, <1>5

(* A stream that is cut goes on with the packet that follows the last one   *)
(* that is cut.                                                             *)
LEMMA CutLine ==
  ASSUME NEW list, NEW nx, Collected(list, nx), NEW s \in Streams, NEW m \in 1 .. Len(list) + 1,
         nx[s] \in Nat, \E j \in 1 .. m - 1 : list[j].stream = s
  PROVE  \E k \in 1 .. m - 1 :
           /\ list[k].stream = s
           /\ \/ nx[s] = list[k].at + Frame(s) /\ \A l \in m .. Len(list) : list[l].stream # s
              \/ \E l \in m .. Len(list) : list[l].stream = s /\ list[l].at = list[k].at + Frame(s)
<1> DEFINE own == {j \in 1 .. m - 1 : list[j].stream = s}
<1>1. /\ list \in Seq(Packet) /\ Len(list) \in Nat /\ Line(list, s, nx[s]) /\ m - 1 \in Nat
      /\ Frame(s) \in Nat /\ Frame(s) > 0
  BY FrameType DEF Collected
<1>2. own \in SUBSET (1 .. m - 1) /\ own # {}
  OBVIOUS
<1>3. Max(own) \in own /\ \A y \in own : y <= Max(own)
  <2> HIDE DEF own
  <2> QED BY <1>1, <1>2, GreatestIn
<1>4. PICK k \in 1 .. m - 1 : list[k].stream = s /\ \A y \in own : y <= k
  BY <1>3
<1>5. \A i \in 1 .. Len(list) : i \in IndicesOf(list, s) <=> list[i].stream = s
  BY <1>1, Indices
<1>6. k \in 1 .. Len(list) /\ k \in IndicesOf(list, s)
  <2>1. k \in 1 .. Len(list)
    BY <1>1, <1>4
  <2> QED BY <1>4, <1>5, <2>1
<1>7. \A l \in m .. Len(list) : l \in 1 .. Len(list) /\ k < l
  BY <1>1, <1>4
<1>8. \A l \in 1 .. Len(list) : list[l].at \in Nat
  BY AtOrdered
<1>9. CASE nx[s] = list[k].at + Frame(s)
  <2>1. ASSUME NEW l \in m .. Len(list), list[l].stream = s PROVE FALSE
    <3>1. l \in IndicesOf(list, s) /\ k < l /\ list[l].at \in Nat /\ list[k].at \in Nat
      BY <1>5, <1>6, <1>7, <1>8, <2>1
    <3>2. list[k].at + Frame(s) <= list[l].at /\ list[l].at + Frame(s) <= nx[s]
      BY <1>1, <1>6, <3>1 DEF Line
    <3> QED BY <1>1, <1>9, <3>1, <3>2
  <2> QED BY <1>4, <1>9, <2>1
<1>10. CASE nx[s] # list[k].at + Frame(s)
  <2>1. PICK l \in IndicesOf(list, s) : list[l].at = list[k].at + Frame(s)
    BY <1>1, <1>6, <1>10 DEF Line
  <2>2. l \in 1 .. Len(list) /\ list[l].stream = s
    BY <1>1, <2>1, Indices
  <2>3. ~ (l < m)
    <3> SUFFICES ASSUME l < m PROVE FALSE
      OBVIOUS
    <3>1. l \in own
      BY <1>1, <2>2
    <3>2. l <= k
      BY <1>4, <3>1
    <3>3. l = k \/ l < k
      BY <1>4, <2>2, <3>2
    <3>4. l < k => list[l].at + Frame(s) <= list[k].at
      BY <1>1, <1>6, <2>1 DEF Line
    <3> QED BY <1>1, <1>6, <1>8, <2>1, <2>2, <3>3, <3>4
  <2>4. l \in m .. Len(list)
    BY <1>1, <2>2, <2>3
  <2> QED BY <1>4, <2>1, <2>2, <2>4
<1> QED BY <1>9, <1>10

LEMMA FirstCut ==
  ASSUME NEW list, NEW nx, Collected(list, nx), NEW s \in Streams, NEW m \in 1 .. Len(list) + 1,
         nx[s] \in Nat, Has(From(list, m), s)
  PROVE  /\ \E l \in m .. Len(list) : FirstOf(From(list, m), s) = list[l]
         /\ \/ /\ Has(list, s) /\ m <= FirstIndex(list, s)
               /\ FirstOf(From(list, m), s) = FirstOf(list, s)
            \/ \E k \in 1 .. m - 1 : /\ list[k].stream = s
                                    /\ FirstOf(From(list, m), s).at = list[k].at + Frame(s)
<1> DEFINE new == From(list, m)
<1>1. /\ list \in Seq(Packet) /\ Len(list) \in Nat /\ Collected(new, nx)
  BY CollectedFrom DEF Collected
<1>2. /\ new \in Seq(Packet) /\ Len(new) = Len(list) - m + 1
      /\ \A i \in 1 .. Len(list) - m + 1 : new[i] = list[m - 1 + i]
  BY <1>1, FromIs
<1> HIDE DEF new
<1> DEFINE f == FirstIndex(new, s)
<1>3. /\ f \in 1 .. Len(new) /\ FirstOf(new, s) = new[f] /\ FirstOf(new, s).stream = s
      /\ \A i \in 1 .. Len(new) : new[i].stream = s => f <= i /\ FirstOf(new, s).at <= new[i].at
  BY <1>1, FirstLeast DEF new
<1> HIDE DEF f
<1>4. m - 1 + f \in m .. Len(list) /\ FirstOf(new, s) = list[m - 1 + f] /\ f \in Nat
  BY <1>1, <1>2, <1>3
<1>5. \A l \in m .. Len(list) : list[l].stream = s => m - 1 + f <= l
  <2> TAKE l \in m .. Len(list)
  <2>1. l - m + 1 \in 1 .. Len(new) /\ m - 1 + (l - m + 1) = l
    BY <1>1, <1>2
  <2>2. new[l - m + 1] = list[l]
    BY <1>2, <2>1
  <2>3. list[l].stream = s => f <= l - m + 1
    BY <1>3, <2>1, <2>2
  <2> QED BY <1>1, <1>4, <2>3
<1>6. CASE \E j \in 1 .. m - 1 : list[j].stream = s
  <2>1. PICK k \in 1 .. m - 1 :
           /\ list[k].stream = s
           /\ \/ nx[s] = list[k].at + Frame(s) /\ \A l \in m .. Len(list) : list[l].stream # s
              \/ \E l \in m .. Len(list) : list[l].stream = s /\ list[l].at = list[k].at + Frame(s)
    BY <1>6, CutLine
  <2>2. PICK l \in m .. Len(list) : list[l].stream = s /\ list[l].at = list[k].at + Frame(s)
    BY <1>3, <1>4, <2>1
  <2> DEFINE g == m - 1 + f
  <2>3. /\ g <= l /\ g \in 1 .. Len(list) /\ l \in 1 .. Len(list) /\ k \in 1 .. Len(list) /\ k < g
        /\ list[g].stream = s
    BY <1>1, <1>3, <1>4, <1>5, <2>2
  <2> HIDE DEF g
  <2>4. list[g].at <= list[l].at
    BY <2>3, AtOrdered
  <2>5. list[k].at + Frame(s) <= list[g].at
    <3>1. k \in IndicesOf(list, s) /\ g \in IndicesOf(list, s)
      BY <1>1, <2>1, <2>3, Indices
    <3> QED BY <2>3, <3>1 DEF Collected, Line
  <2>6. list[g].at \in Nat /\ list[k].at \in Nat /\ Frame(s) \in Nat
    BY <2>3, AtOrdered, FrameType
  <2>7. list[g].at = list[k].at + Frame(s)
    BY <2>2, <2>4, <2>5, <2>6, SMTT(40)
  <2> QED BY <1>4, <2>1, <2>7 DEF g, new
<1>7. CASE ~ \E j \in 1 .. m - 1 : list[j].stream = s
  <2> DEFINE g == m - 1 + f
  <2>1. g \in 1 .. Len(list) /\ m <= g /\ list[g].stream = s
    BY <1>1, <1>3, <1>4
  <2>2. \A i \in 1 .. Len(list) : list[i].stream = s => g <= i
    <3> TAKE i \in 1 .. Len(list)
    <3>1. i \in 1 .. m - 1 \/ i \in m .. Len(list)
      BY <1>1
    <3> QED BY <1>5, <1>7, <3>1
  <2> HIDE DEF g
  <2>3. Has(list, s)
    BY <1>1, <2>1, Indices DEF Has
  <2>4. FirstIndex(list, s) \in 1 .. Len(list) /\ list[FirstIndex(list, s)].stream = s
        /\ FirstIndex(list, s) <= g
    BY <2>1, <2>3, FirstLeast
  <2>5. FirstIndex(list, s) = g
    <3>1. g <= FirstIndex(list, s)
      BY <2>2, <2>4
    <3> QED BY <1>1, <2>1, <2>4, <3>1
  <2> QED BY <1>4, <2>1, <2>3, <2>5 DEF g, new, FirstOf
<1> QED BY <1>4, <1>6, <1>7 DEF new

(* The starting point: the first video or the audio closest to it, or, if   *)
(* the audio there has nothing but what the encoder put in front, the first *)
(* packet of a track.                                                       *)
LEMMA StartIs ==
  ASSUME NEW list, NEW nx, Collected(list, nx), Complete(list)
  PROVE  \E near \in 1 .. Len(list) :
           /\ near <= FirstIndex(list, Video)
           /\ near = FirstIndex(list, Video) \/ near = ClosestAudio(list)
           /\ \/ StartIndex(list) = near
              \/ \E a \in 1 .. Len(list) : /\ near <= a /\ list[a].stream \in Tracks
                                          /\ Pts(list[a]) <= 0
<1> DEFINE pair == {FirstIndex(list, Video), ClosestAudio(list)}
           near == Min(pair)
           later == {i \in AudioIndices(list) : i >= near}
           audio == Min(later)
<1>1. list \in Seq(Packet) /\ Len(list) \in Nat
  BY DEF Collected
<1>2. /\ AudioIndices(list) \subseteq 1 .. Len(list) /\ ClosestAudio(list) \in AudioIndices(list)
      /\ \A i \in 1 .. Len(list) : i \in AudioIndices(list) <=> list[i].stream \in Tracks
      /\ FirstIndex(list, Video) \in 1 .. Len(list)
  BY <1>1, AudioOf, ClosestIs, FirstIs, NumTracksType DEF Complete
<1>3. pair \in SUBSET (1 .. Len(list)) /\ pair # {} /\ pair \in SUBSET Nat
  BY <1>2
<1>4. near \in pair /\ \A y \in pair : near <= y
  BY <1>3, LeastIn
<1>5. StartIndex(list) = near \/ ~ (Pts(list[audio]) > 0)
  BY DEF StartIndex
<1>6. near \in 1 .. Len(list) /\ near <= FirstIndex(list, Video) /\ near <= ClosestAudio(list)
      /\ (near = FirstIndex(list, Video) \/ near = ClosestAudio(list))
  BY <1>3, <1>4
<1> HIDE DEF near
<1>7. later \in SUBSET (1 .. Len(list)) /\ later # {} /\ later \in SUBSET Nat
  <2>1. ClosestAudio(list) >= near
    BY <1>1, <1>2, <1>6
  <2>2. ClosestAudio(list) \in later
    BY <1>2, <2>1
  <2>3. later \subseteq AudioIndices(list)
    OBVIOUS
  <2> HIDE DEF later
  <2> QED BY <1>2, <2>2, <2>3
<1>8. audio \in later
  <2> HIDE DEF later
  <2> QED BY <1>7, LeastIn
<1>9. audio \in 1 .. Len(list) /\ near <= audio /\ list[audio].stream \in Tracks
  <2>1. audio \in AudioIndices(list) /\ audio >= near
    BY <1>8
  <2> HIDE DEF audio
  <2> QED BY <1>2, <1>6, <2>1
<1>10. list[audio] \in Packet
  BY <1>1, <1>9
<1>11. Pts(list[audio]) \in Int
  BY <1>10, PtsType
<1> HIDE DEF audio
<1> QED BY <1>5, <1>6, <1>9, <1>11

(* The audio closest to the first video is less than a packet before it, as *)
(* its track goes on past the video.                                        *)
LEMMA ClosestBound ==
  ASSUME NEW list, NEW nx, Collected(list, nx), Ready(list), \A s \in Streams : nx[s] \in Nat
  PROVE  FirstOf(list, Video).at <= list[ClosestAudio(list)].at + AudioFrame
<1> DEFINE c == ClosestAudio(list)
           u == list[c].stream
           v == FirstOf(list, Video).at
<1>1. list \in Seq(Packet) /\ Len(list) \in Nat /\ Complete(list)
      /\ \A t \in Tracks : list[LastIndex(list, t)].ts >= FirstOf(list, Video).ts
  BY DEF Collected, Ready
<1>2. /\ c \in 1 .. Len(list) /\ u \in Tracks
      /\ \A i \in AudioIndices(list) :
           Distance(list[c].ts, FirstOf(list, Video).ts) <= Distance(list[i].ts, FirstOf(list, Video).ts)
      /\ \A i \in 1 .. Len(list) : i \in AudioIndices(list) <=> list[i].stream \in Tracks
  BY <1>1, ClosestIs, AudioOf
<1>3. u \in Streams /\ u # Video /\ Frame(u) = AudioFrame /\ AudioFrame \in Nat /\ AudioFrame > 0 /\ Boot \in Nat
  BY <1>2, FramesAssumption, TimesAssumption DEF Streams, Tracks, Video, Frame
<1>4. v \in Nat /\ FirstOf(list, Video).ts = Boot + v
  BY <1>1, FirstLeast, NumTracksType DEF Complete
<1>5. list[c].at \in Nat /\ list[c].ts = Boot + list[c].at
  BY <1>2, AtOrdered
<1>6. LastIndex(list, u) \in IndicesOf(list, u) /\ LastIndex(list, u) \in 1 .. Len(list)
  <2>1. IndicesOf(list, u) \in SUBSET (1 .. Len(list)) /\ IndicesOf(list, u) # {}
    BY <1>1, <1>3, Indices DEF Complete, Has
  <2> QED BY <1>1, <2>1, GreatestIn DEF LastIndex
<1> DEFINE last == LastIndex(list, u)
<1>7. list[last].at \in Nat /\ v <= list[last].at
  <2>1. list[last].at \in Nat /\ list[last].ts = Boot + list[last].at
    BY <1>6, AtOrdered
  <2>2. list[last].ts >= FirstOf(list, Video).ts
    BY <1>1, <1>2
  <2> QED BY <1>3, <1>4, <2>1, <2>2
<1>8. Line(list, u, nx[u]) /\ nx[u] \in Nat
  BY <1>3 DEF Collected
<1>9. c \in IndicesOf(list, u)
  BY <1>1, <1>2, Indices
<1>10. list[last].at + AudioFrame <= nx[u]
  BY <1>3, <1>6, <1>8 DEF Line
<1>11. list[c].at + AudioFrame # nx[u] =>
         \E j \in IndicesOf(list, u) : list[j].at = list[c].at + AudioFrame
  BY <1>3, <1>8, <1>9 DEF Line
<1> HIDE DEF v
<1> SUFFICES ASSUME list[c].at + AudioFrame < v PROVE FALSE
  BY <1>3, <1>4, <1>5 DEF v
<1>12. PICK j \in IndicesOf(list, u) : list[j].at = list[c].at + AudioFrame
  <2> HIDE DEF u, c, last
  <2> QED BY <1>3, <1>4, <1>5, <1>7, <1>8, <1>10, <1>11
<1>13. j \in 1 .. Len(list) /\ list[j].stream = u
  BY <1>1, <1>12, Indices
<1>14. list[j].ts = Boot + list[j].at
  BY <1>13, AtOrdered
<1>15. Distance(list[c].ts, FirstOf(list, Video).ts) <= Distance(list[j].ts, FirstOf(list, Video).ts)
  BY <1>2, <1>13
<1> DEFINE a == list[c].at
<1>16. a \in Nat /\ Distance(Boot + a, Boot + v) <= Distance(Boot + (a + AudioFrame), Boot + v)
       /\ a + AudioFrame < v
  BY <1>4, <1>5, <1>12, <1>14, <1>15
<1>17. v \in Nat
  BY <1>4 DEF v
<1> HIDE DEF a
<1> QED BY <1>3, <1>16, <1>17 DEF Distance

(* The tracks before the start *)
Together(list, nx) ==
  \A i \in 1 .. Len(list), t \in Tracks :
    list[i].stream # Video =>
      \/ nx[t] <= list[i].at + AudioFrame
      \/ \E j \in 1 .. Len(list) : list[j].stream = t /\ list[j].at <= list[i].at + AudioFrame

Slack(t) == IF t = NumTracks THEN 0 ELSE AudioFrame

(* No track begins long after the video. *)
NotLong(list) ==
  \A t \in Tracks : FirstOf(list, t).at <= FirstOf(list, Video).at + LargestFrame + Slack(t)

LEMMA LargestIs ==
  /\ LargestFrame \in Nat /\ VideoFrame <= LargestFrame /\ AudioFrame <= LargestFrame
  /\ VideoFrame \in Nat /\ AudioFrame \in Nat /\ AudioFrame > 0
  /\ SyncLimit \in Nat /\ SyncLimit <= LargestFrame
  /\ \A t \in Tracks : /\ Slack(t) \in Nat /\ t \in Streams /\ t # Video /\ Frame(t) = AudioFrame
                       /\ t # NumTracks => Slack(t) = AudioFrame
<1>1. VideoFrame \in Nat /\ AudioFrame \in Nat /\ AudioFrame > 0
  BY FramesAssumption
<1>2. LargestFrame \in {VideoFrame, AudioFrame} /\ VideoFrame <= LargestFrame /\ AudioFrame <= LargestFrame
  BY <1>1, PairMax DEF LargestFrame
<1>3. LargestFrame \in Nat
  BY <1>1, <1>2
<1>4. SyncLimit \in Nat /\ SyncLimit <= LargestFrame
  BY <1>1, <1>2 DEF SyncLimit
<1>5. ASSUME NEW t \in Tracks
      PROVE  /\ Slack(t) \in Nat /\ t \in Streams /\ t # Video /\ Frame(t) = AudioFrame
             /\ t # NumTracks => Slack(t) = AudioFrame
  BY <1>1 DEF Slack, Streams, Tracks, Video, Frame
<1> QED BY <1>1, <1>2, <1>3, <1>4, <1>5

LEMMA CutTogether ==
  ASSUME NEW list, NEW nx, Collected(list, nx), Together(list, nx), NEW m \in 1 .. Len(list) + 1,
         \A s \in Streams : nx[s] \in Nat
  PROVE  Together(From(list, m), nx)
<1> DEFINE new == From(list, m)
<1>1. list \in Seq(Packet) /\ Len(list) \in Nat /\ AudioFrame \in Nat
  BY LargestIs DEF Collected
<1>2. /\ Len(new) = Len(list) - m + 1
      /\ \A i \in 1 .. Len(list) - m + 1 : new[i] = list[m - 1 + i]
  BY <1>1, FromIs
<1> HIDE DEF new
<1>3. \A l \in m .. Len(list) : \E i \in 1 .. Len(new) : new[i] = list[l]
  <2> TAKE l \in m .. Len(list)
  <2>1. l - m + 1 \in 1 .. Len(new) /\ m - 1 + (l - m + 1) = l
    BY <1>1, <1>2
  <2>2. new[l - m + 1] = list[l]
    BY <1>2, <2>1
  <2> QED BY <2>1, <2>2
<1>4. ASSUME NEW i \in 1 .. Len(new), NEW t \in Tracks, new[i].stream # Video
      PROVE  \/ nx[t] <= new[i].at + AudioFrame
             \/ \E j \in 1 .. Len(new) : new[j].stream = t /\ new[j].at <= new[i].at + AudioFrame
  <2> DEFINE g == m - 1 + i
  <2>1. g \in 1 .. Len(list) /\ m <= g /\ new[i] = list[g]
    BY <1>1, <1>2
  <2> HIDE DEF g
  <2>2. t \in Streams /\ Frame(t) = AudioFrame
    BY LargestIs
  <2>3. \/ nx[t] <= list[g].at + AudioFrame
        \/ \E j \in 1 .. Len(list) : list[j].stream = t /\ list[j].at <= list[g].at + AudioFrame
    BY <1>4, <2>1 DEF Together
  <2>4. CASE nx[t] <= list[g].at + AudioFrame
    BY <2>1, <2>4
  <2>5. CASE \E j \in 1 .. Len(list) : list[j].stream = t /\ list[j].at <= list[g].at + AudioFrame
    <3>1. PICK j \in 1 .. Len(list) : list[j].stream = t /\ list[j].at <= list[g].at + AudioFrame
      BY <2>5
    <3>2. CASE j \in m .. Len(list)
      BY <1>3, <2>1, <3>1, <3>2
    <3>3. CASE j \in 1 .. m - 1
      <4>1. PICK k \in 1 .. m - 1 :
              /\ list[k].stream = t
              /\ \/ nx[t] = list[k].at + Frame(t) /\ \A l \in m .. Len(list) : list[l].stream # t
                 \/ \E l \in m .. Len(list) : list[l].stream = t /\ list[l].at = list[k].at + Frame(t)
        BY <2>2, <3>1, <3>3, CutLine, SMTT(40)
      <4>2. list[k].at <= list[g].at /\ list[k].at \in Nat /\ list[g].at \in Nat
        <5>1. k \in 1 .. Len(list) /\ k <= g
          BY <1>1, <2>1
        <5> QED BY <2>1, <5>1, AtOrdered
      <4>3. CASE nx[t] = list[k].at + Frame(t)
        BY <1>1, <2>1, <2>2, <4>2, <4>3
      <4>4. CASE \E l \in m .. Len(list) : list[l].stream = t /\ list[l].at = list[k].at + Frame(t)
        <5>1. PICK l \in m .. Len(list) : list[l].stream = t /\ list[l].at = list[k].at + AudioFrame
          BY <2>2, <4>4
        <5>2. list[l].at <= list[g].at + AudioFrame
          BY <1>1, <4>2, <5>1, SMTT(40)
        <5> QED BY <1>3, <2>1, <5>1, <5>2
      <4> QED BY <4>1, <4>3, <4>4
    <3> QED BY <1>1, <3>1, <3>2, <3>3
  <2> QED BY <2>3, <2>4, <2>5
<1>5. Together(new, nx)
  BY <1>4 DEF Together
<1> QED BY <1>5 DEF new

LEMMA InsertTogether ==
  ASSUME Inv, Even, ~ Started, Together(packets, next), NEW s \in Streams, NEW key \in BOOLEAN,
         Arrives(s, key)
  PROVE  Together(Insert(packets, Arrived(s, key)), next')
<1> DEFINE p == Arrived(s, key)
           new == Insert(packets, p)
<1>1. /\ p \in Packet /\ p.stream = s /\ p.at = next[s] /\ packets \in Seq(Packet)
      /\ \A t \in Streams : next'[t] = IF t = s THEN next[t] + Frame(t) ELSE next[t]
  BY ArrivesIs DEF Inv, TypeOK
<1>2. /\ \A t \in Streams : next[t] \in Nat
      /\ AudioFrame \in Nat /\ \A t \in Tracks : t \in Streams /\ t # Video
  BY LargestIs DEF Inv, TypeOK
<1> HIDE DEF p
<1>3. /\ new \in Seq(Packet) /\ Len(new) = Len(packets) + 1
      /\ \A i \in 1 .. Len(new) : new[i] = p \/ \E j \in 1 .. Len(packets) : new[i] = packets[j]
      /\ \E i \in 1 .. Len(new) : new[i] = p
      /\ \A j \in 1 .. Len(packets) : \E i \in 1 .. Len(new) : new[i] = packets[j]
  BY <1>1, InsertMembers
<1> HIDE DEF new
<1>4. ASSUME NEW i \in 1 .. Len(new), NEW t \in Tracks, new[i].stream # Video
      PROVE  \/ next'[t] <= new[i].at + AudioFrame
             \/ \E j \in 1 .. Len(new) : new[j].stream = t /\ new[j].at <= new[i].at + AudioFrame
  <2>1. new[i] = p \/ \E j \in 1 .. Len(packets) : new[i] = packets[j]
    BY <1>3
  <2>2. t # s => next'[t] = next[t]
    BY <1>1, <1>2
  <2>3. next[t] <= new[i].at + AudioFrame
        \/ \E j \in 1 .. Len(packets) : packets[j].stream = t /\ packets[j].at <= new[i].at + AudioFrame
    <3>1. CASE new[i] = p
      <4>1. s \in Tracks
        BY <1>1, <1>4, <3>1 DEF Streams
      <4> QED BY <1>1, <3>1, <4>1 DEF Even
    <3>2. CASE \E j \in 1 .. Len(packets) : new[i] = packets[j]
      <4>1. PICK l \in 1 .. Len(packets) : new[i] = packets[l]
        BY <3>2
      <4> QED BY <1>4, <4>1 DEF Together
    <3> QED BY <2>1, <3>1, <3>2
  <2>4. CASE next[t] <= new[i].at + AudioFrame
    <3>1. CASE t = s
      BY <1>1, <1>3, <2>4, <3>1
    <3>2. CASE t # s
      BY <2>2, <2>4, <3>2
    <3> QED BY <3>1, <3>2
  <2>5. CASE \E j \in 1 .. Len(packets) : packets[j].stream = t /\ packets[j].at <= new[i].at + AudioFrame
    BY <1>3, <2>5
  <2> QED BY <2>3, <2>4, <2>5
<1>5. Together(new, next')
  BY <1>4 DEF Together
<1> QED BY <1>5 DEF new, p

(* What pruning leaves does not begin with the video alone. *)
LEMMA PruneBound ==
  ASSUME NEW seq, NEW nx, Collected(seq, nx), Together(seq, nx), Complete(seq), Complete(Prune(seq)),
         \A s \in Streams : nx[s] \in Nat
  PROVE  NotLong(Prune(seq))
<1> DEFINE new == Prune(seq)
<1>1. seq \in Seq(Packet) /\ Len(seq) \in Nat /\ \A s \in Streams : Has(seq, s)
  BY DEF Collected, Complete
<1>2. PICK m \in 1 .. Len(seq) + 1 :
        /\ new = From(seq, m)
        /\ TooFarApart(seq) => \A s \in Streams : FirstIndex(seq, s) < m
        /\ ~ TooFarApart(seq) => m = StartIndex(seq)
  BY <1>1, PruneIs
<1>3. \A s \in Streams : Has(From(seq, m), s)
  BY <1>2 DEF Complete
<1> HIDE DEF new
<1>4. /\ Video \in Streams /\ NumTracks \in Tracks /\ LargestFrame \in Nat /\ AudioFrame <= LargestFrame
      /\ AudioFrame \in Nat /\ SyncLimit \in Nat /\ SyncLimit <= LargestFrame /\ VideoFrame \in Nat
  BY LargestIs, NumTracksType
<1>5. /\ \E l \in m .. Len(seq) : FirstOf(new, Video) = seq[l]
      /\ \/ m <= FirstIndex(seq, Video) /\ FirstOf(new, Video) = FirstOf(seq, Video)
         \/ \E k \in 1 .. m - 1 : FirstOf(new, Video).at = seq[k].at + Frame(Video)
  BY <1>2, <1>3, <1>4, FirstCut
<1>6. FirstOf(new, Video).at \in Nat /\ \A k \in 1 .. m - 1 : seq[k].at \in Nat /\ seq[k].at <= FirstOf(new, Video).at
  <2>1. PICK l \in m .. Len(seq) : FirstOf(new, Video) = seq[l]
    BY <1>5
  <2>2. l \in 1 .. Len(seq)
    BY <1>1, <2>1
  <2>3. \A k \in 1 .. m - 1 : k \in 1 .. Len(seq) /\ k <= l
    BY <1>1, <2>1
  <2> QED BY <2>1, <2>2, <2>3, AtOrdered
<1>7. ASSUME NEW t \in Tracks
      PROVE  FirstOf(new, t).at <= FirstOf(new, Video).at + LargestFrame + Slack(t)
  <2>1. t \in Streams /\ t # Video /\ Frame(t) = AudioFrame /\ Slack(t) \in Nat
        /\ (t # NumTracks => Slack(t) = AudioFrame)
    BY LargestIs
  <2>2. \/ m <= FirstIndex(seq, t) /\ FirstOf(new, t) = FirstOf(seq, t)
        \/ \E k \in 1 .. m - 1 : FirstOf(new, t).at = seq[k].at + AudioFrame
    BY <1>2, <1>3, <2>1, FirstCut
  <2>3. CASE \E k \in 1 .. m - 1 : FirstOf(new, t).at = seq[k].at + AudioFrame
    <3>1. PICK k \in 1 .. m - 1 : FirstOf(new, t).at = seq[k].at + AudioFrame
      BY <2>3
    <3>2. seq[k].at \in Nat /\ seq[k].at <= FirstOf(new, Video).at
      BY <1>6
    <3> QED BY <1>4, <1>6, <2>1, <3>1, <3>2
  <2>4. CASE m <= FirstIndex(seq, t) /\ FirstOf(new, t) = FirstOf(seq, t)
    <3>1. \A s \in Streams : /\ FirstIndex(seq, s) \in 1 .. Len(seq) /\ FirstOf(seq, s).at \in Nat
                             /\ FirstOf(seq, s).ts = Boot + FirstOf(seq, s).at
                             /\ FirstOf(seq, s) = seq[FirstIndex(seq, s)]
                             /\ FirstOf(seq, s).stream = s
                             /\ \A i \in 1 .. Len(seq) : seq[i].stream = s => FirstOf(seq, s).at <= seq[i].at
      BY <1>1, FirstLeast
    <3>2. ~ TooFarApart(seq)
      BY <1>2, <2>1, <2>4, <3>1
    <3>3. m <= FirstIndex(seq, Video)
      BY <1>1, <1>2, <3>2, StartIndexIs DEF Complete
    <3>4. FirstOf(seq, Video).at <= FirstOf(new, Video).at
      <4>1. PICK l \in m .. Len(seq) : FirstOf(new, Video) = seq[l]
        BY <1>5
      <4>2. l \in 1 .. Len(seq) /\ seq[l].stream = Video
        <5>1. FirstOf(new, Video).stream = Video
          BY <1>2, <1>3, <1>4, CollectedFrom, FirstLeast
        <5> QED BY <1>1, <4>1, <5>1
      <4> QED BY <1>4, <3>1, <4>1, <4>2
    <3>5. FirstOf(seq, NumTracks).at <= FirstOf(seq, Video).at + SyncLimit
      <4>1. /\ FirstOf(seq, NumTracks).ts = Boot + FirstOf(seq, NumTracks).at
            /\ FirstOf(seq, Video).ts = Boot + FirstOf(seq, Video).at
            /\ FirstOf(seq, NumTracks).at \in Nat /\ FirstOf(seq, Video).at \in Nat
        BY <1>4, <3>1, LargestIs
      <4>2. ~ (FirstOf(seq, NumTracks).ts - FirstOf(seq, Video).ts > SyncLimit)
        BY <3>2 DEF TooFarApart
      <4>3. Boot \in Nat
        BY TimesAssumption
      <4> QED BY <1>4, <4>1, <4>2, <4>3
    <3>6. FirstOf(seq, t).at <= FirstOf(seq, NumTracks).at + Slack(t)
      <4>1. CASE t = NumTracks
        BY <2>1, <3>1, <4>1
      <4>2. CASE t # NumTracks
        <5> DEFINE i == FirstIndex(seq, NumTracks)
        <5>1. i \in 1 .. Len(seq) /\ seq[i].stream # Video /\ seq[i] = FirstOf(seq, NumTracks)
          BY <1>4, <3>1, LargestIs
        <5>2. \/ nx[t] <= seq[i].at + AudioFrame
              \/ \E j \in 1 .. Len(seq) : seq[j].stream = t /\ seq[j].at <= seq[i].at + AudioFrame
          BY <5>1 DEF Together
        <5> DEFINE f == FirstIndex(seq, t)
        <5>3. /\ f \in 1 .. Len(seq) /\ seq[f] = FirstOf(seq, t) /\ FirstOf(seq, t).at \in Nat
              /\ FirstOf(seq, NumTracks).at \in Nat
              /\ \A j \in 1 .. Len(seq) : seq[j].stream = t => FirstOf(seq, t).at <= seq[j].at
              /\ seq[f].stream = t
          BY <1>4, <2>1, <3>1, LargestIs
        <5>4. FirstOf(seq, t).at + AudioFrame <= nx[t] /\ nx[t] \in Nat
          <6>1. f \in IndicesOf(seq, t)
            BY <1>1, <5>3, Indices
          <6> QED BY <2>1, <5>3, <6>1 DEF Collected, Line
        <5>5. \A j \in 1 .. Len(seq) : seq[j].at \in Nat
          BY AtOrdered
        <5> HIDE DEF i, f
        <5>6. CASE nx[t] <= seq[i].at + AudioFrame
          BY <1>4, <2>1, <4>2, <5>1, <5>3, <5>4, <5>6
        <5>7. CASE \E j \in 1 .. Len(seq) : seq[j].stream = t /\ seq[j].at <= seq[i].at + AudioFrame
          <6>1. PICK j \in 1 .. Len(seq) : seq[j].stream = t /\ seq[j].at <= seq[i].at + AudioFrame
            BY <5>7
          <6>2. FirstOf(seq, t).at <= seq[j].at /\ seq[j].at \in Nat
            BY <5>3, <5>5, <6>1
          <6> QED BY <1>4, <2>1, <4>2, <5>1, <5>3, <6>1, <6>2
        <5> QED BY <5>2, <5>6, <5>7
      <4> QED BY <4>1, <4>2
    <3>7. FirstOf(seq, t).at \in Nat /\ FirstOf(seq, NumTracks).at \in Nat /\ FirstOf(seq, Video).at \in Nat
      BY <1>4, <2>1, <3>1, LargestIs
    <3> QED BY <1>4, <1>6, <2>1, <2>4, <3>4, <3>5, <3>6, <3>7, SMTT(40)
  <2> QED BY <2>2, <2>3, <2>4
<1> QED BY <1>7 DEF NotLong, new

(* Where the kept packets begin. *)
LEMMA StartBound ==
  ASSUME NEW list, NEW nx, Collected(list, nx), Ready(list), NotLong(list),
         Complete(From(list, StartIndex(list))), \A s \in Streams : nx[s] \in Nat, origin \in Nat,
         NEW t \in Tracks
  PROVE  LET kept == From(list, StartIndex(list))
             video == FirstOf(kept, Video).at
             audio == FirstOf(kept, t).at
         IN /\ audio <= video + LargestFrame + Slack(t)
            /\ video <= audio + LargestFrame \/ video <= origin + Priming + LargestFrame
<1> DEFINE m == StartIndex(list)
           kept == From(list, m)
           video == FirstOf(kept, Video).at
           audio == FirstOf(kept, t).at
           first == FirstOf(list, Video).at
<1>1. list \in Seq(Packet) /\ Len(list) \in Nat /\ Complete(list) /\ \A s \in Streams : Has(list, s)
  BY DEF Collected, Ready, Complete
<1>2. /\ Video \in Streams /\ t \in Streams /\ t # Video /\ Frame(t) = AudioFrame /\ Slack(t) \in Nat
      /\ LargestFrame \in Nat /\ AudioFrame <= LargestFrame /\ AudioFrame \in Nat /\ Priming \in Nat
  BY LargestIs, NumTracksType, FramesAssumption
<1>3. m \in 1 .. Len(list) /\ m \in 1 .. Len(list) + 1 /\ m <= FirstIndex(list, Video)
  <2>1. m \in 1 .. Len(list) /\ m <= FirstIndex(list, Video)
    BY <1>1, StartIndexIs
  <2> QED BY <1>1, <2>1
<1>4. Has(From(list, m), Video) /\ Has(From(list, m), t)
  BY <1>2 DEF Complete
<1>5. \A s \in Streams : /\ FirstIndex(list, s) \in 1 .. Len(list) /\ FirstOf(list, s).at \in Nat
                         /\ FirstOf(list, s) = list[FirstIndex(list, s)]
                         /\ \A i \in 1 .. Len(list) : list[i].stream = s =>
                              FirstIndex(list, s) <= i /\ FirstOf(list, s).at <= list[i].at
  BY <1>1, FirstLeast
<1> HIDE DEF m
<1>6. video = first /\ first \in Nat
  <2>1. \/ m <= FirstIndex(list, Video) /\ FirstOf(From(list, m), Video) = FirstOf(list, Video)
        \/ \E k \in 1 .. m - 1 : list[k].stream = Video
    BY <1>2, <1>3, <1>4, FirstCut
  <2>2. ~ \E k \in 1 .. m - 1 : list[k].stream = Video
    <3> SUFFICES ASSUME NEW k \in 1 .. m - 1, list[k].stream = Video PROVE FALSE
      OBVIOUS
    <3>1. k \in 1 .. Len(list) /\ k < m
      BY <1>1, <1>3
    <3>2. FirstIndex(list, Video) <= k /\ FirstIndex(list, Video) \in 1 .. Len(list)
      BY <1>2, <1>5, <3>1
    <3> QED BY <1>3, <3>1, <3>2
  <2> QED BY <1>2, <1>5, <2>1, <2>2
<1>7. PICK l \in m .. Len(list) : FirstOf(From(list, m), t) = list[l]
  BY <1>2, <1>3, <1>4, FirstCut
<1>8. audio = list[l].at /\ list[l].at \in Nat /\ list[m].at \in Nat /\ list[m].at <= list[l].at
  <2>1. l \in 1 .. Len(list) /\ m <= l
    BY <1>1, <1>3, <1>7
  <2> QED BY <1>3, <1>7, <2>1, AtOrdered
<1>9. audio <= video + LargestFrame + Slack(t)
  <2>1. \/ FirstOf(From(list, m), t) = FirstOf(list, t)
        \/ \E k \in 1 .. m - 1 : FirstOf(From(list, m), t).at = list[k].at + AudioFrame
    BY <1>2, <1>3, <1>4, FirstCut
  <2>2. CASE FirstOf(From(list, m), t) = FirstOf(list, t)
    BY <1>6, <2>2 DEF NotLong
  <2>3. CASE \E k \in 1 .. m - 1 : FirstOf(From(list, m), t).at = list[k].at + AudioFrame
    <3>1. PICK k \in 1 .. m - 1 : FirstOf(From(list, m), t).at = list[k].at + AudioFrame
      BY <2>3
    <3>2. /\ k \in 1 .. Len(list) /\ k <= FirstIndex(list, Video) /\ FirstIndex(list, Video) \in 1 .. Len(list)
          /\ FirstOf(list, Video) = list[FirstIndex(list, Video)]
      BY <1>1, <1>2, <1>3, <1>5
    <3>3. list[k].at <= first /\ list[k].at \in Nat
      BY <3>2, AtOrdered
    <3> QED BY <1>2, <1>6, <3>1, <3>3
  <2> QED BY <2>1, <2>2, <2>3
<1>10. video <= audio + LargestFrame \/ video <= origin + Priming + LargestFrame
  <2>1. PICK near \in 1 .. Len(list) :
           /\ near <= FirstIndex(list, Video)
           /\ near = FirstIndex(list, Video) \/ near = ClosestAudio(list)
           /\ \/ m = near
              \/ \E a \in 1 .. Len(list) : /\ near <= a /\ list[a].stream \in Tracks
                                          /\ Pts(list[a]) <= 0
    BY <1>1, StartIs DEF m
  <2>2. list[near].at \in Nat /\ first <= list[near].at + LargestFrame
    <3>1. list[near].at \in Nat
      BY AtOrdered
    <3>2. CASE near = FirstIndex(list, Video)
      BY <1>2, <1>5, <1>6, <3>1, <3>2
    <3>3. CASE near = ClosestAudio(list)
      <4>1. first <= list[near].at + AudioFrame
        BY <3>3, ClosestBound
      <4> QED BY <1>2, <1>6, <3>1, <4>1
    <3> QED BY <2>1, <3>1, <3>2, <3>3
  <2>3. CASE m = near
    BY <1>2, <1>6, <1>8, <2>2, <2>3
  <2>4. CASE \E a \in 1 .. Len(list) : near <= a /\ list[a].stream \in Tracks /\ Pts(list[a]) <= 0
    <3>1. PICK a \in 1 .. Len(list) : near <= a /\ list[a].stream \in Tracks /\ Pts(list[a]) <= 0
      BY <2>4
    <3>2. /\ list[a].at \in Nat /\ list[near].at <= list[a].at
          /\ list[a].dts = list[a].at - origin - Lag(list[a].stream)
      BY <3>1, AtOrdered
    <3>3. Pts(list[a]) = list[a].dts /\ Lag(list[a].stream) = Priming
      BY <3>1, LargestIs DEF Pts, Lag
    <3>4. list[a].at <= origin + Priming
      BY <1>2, <3>1, <3>2, <3>3
    <3> QED BY <1>2, <1>6, <2>2, <3>2, <3>4, SMTT(40)
  <2> QED BY <2>1, <2>3, <2>4
<1> QED BY <1>9, <1>10 DEF m

(* How far the tracks may begin from the video: the last one, which is      *)
(* compared with it, a packet, the others one audio packet more, as tracks  *)
(* may begin one packet apart                                               *)
NearVideo(t) ==
  Distance(video_offset, audio_offsets[t])
    <= Priming + LargestFrame + (IF t = NumTracks THEN 0 ELSE AudioFrame)
BeginsInSync == Started => \A t \in Tracks : NearVideo(t)

(* The offsets are as far apart as the packets the streams begin with, but  *)
(* for what the audio encoders put in front.                                *)
LEMMA SyncStarts ==
  ASSUME Inv, ~ Started, NEW seq, NEW kept, kept = Kept(seq), Complete(seq), Ready(Prune(seq)),
         Collected(seq, next'), Together(seq, next'), Late(seq), Starts(kept),
         next' \in [Streams -> Nat]
  PROVE  BeginsInSync'
<1> DEFINE list == Prune(seq)
<1>1. /\ Collected(list, next') /\ kept = From(list, StartIndex(list)) /\ Complete(list) /\ Ready(list)
  BY KeptIs DEF Kept, Ready
<1>2. Complete(kept) /\ Collected(kept, next')
  BY DEF Starts
<1>3. origin \in Nat /\ \A s \in Streams : next'[s] \in Nat
  BY DEF Inv, TypeOK
<1>4. NotLong(list)
  BY <1>1, <1>3, PruneBound
<1>5. video_offset' = VideoOffsetFrom(kept) /\ audio_offsets' = AudioOffsetsFrom(kept)
  BY BeginIs DEF Starts
<1>6. kept \in Seq(Packet) /\ Late(kept) /\ \A s \in Streams : Has(kept, s)
  BY <1>2, LateKept DEF Collected, Complete
<1>7. /\ Video \in Streams /\ LargestFrame \in Nat /\ Priming \in Nat /\ PtsLag \in Nat
  BY LargestIs, NumTracksType, FramesAssumption
<1>8. ASSUME NEW s \in Streams
      PROVE  /\ FirstOf(kept, s).at \in Nat /\ FirstOf(kept, s).at >= origin /\ FirstOf(kept, s).stream = s
             /\ FirstOf(kept, s).dts = FirstOf(kept, s).at - origin - Lag(s)
  <2>1. /\ FirstIndex(kept, s) \in 1 .. Len(kept) /\ FirstOf(kept, s) = kept[FirstIndex(kept, s)]
        /\ FirstOf(kept, s).stream = s /\ FirstOf(kept, s).at \in Nat
    BY <1>2, <1>6, FirstLeast
  <2>2. DOMAIN kept = 1 .. Len(kept)
    BY <1>6
  <2>3. FirstOf(kept, s).dts = FirstOf(kept, s).at - origin - Lag(s)
    BY <1>2, <2>1, AtOrdered
  <2> QED BY <1>6, <2>1, <2>2, <2>3 DEF Late
<1> HIDE DEF list
<1> DEFINE v == FirstOf(kept, Video).at
<1>9. v \in Nat /\ v >= origin /\ VideoOffsetFrom(kept) = v - origin
  <2>1. /\ FirstOf(kept, Video).stream = Video /\ v \in Nat /\ v >= origin
        /\ FirstOf(kept, Video).dts = v - origin - PtsLag
    BY <1>7, <1>8 DEF Lag
  <2> HIDE DEF v
  <2>2. VideoOffsetFrom(kept) = FirstOf(kept, Video).dts + PtsLag
    BY <2>1 DEF VideoOffsetFrom, Pts
  <2> QED BY <1>3, <1>7, <2>1, <2>2
<1>10. ASSUME NEW t \in Tracks
       PROVE  Distance(VideoOffsetFrom(kept), AudioOffsetsFrom(kept)[t])
                <= Priming + LargestFrame + (IF t = NumTracks THEN 0 ELSE AudioFrame)
  <2> DEFINE a == FirstOf(kept, t).at
             off == AudioOffsetsFrom(kept)[t]
  <2>1. t \in Streams /\ t # Video /\ Slack(t) \in Nat /\ (IF t = NumTracks THEN 0 ELSE AudioFrame) = Slack(t)
    BY LargestIs DEF Slack
  <2>2. a \in Nat /\ a >= origin /\ FirstOf(kept, t).dts = a - origin - Priming
    BY <1>8, <2>1 DEF Lag
  <2>3. off = IF FirstOf(kept, t).dts > 0 THEN FirstOf(kept, t).dts ELSE 0
    BY DEF AudioOffsetsFrom, AudioOffset
  <2>4. /\ a <= v + LargestFrame + Slack(t)
        /\ v <= a + LargestFrame \/ v <= origin + Priming + LargestFrame
    BY <1>1, <1>2, <1>3, <1>4, StartBound
  <2> HIDE DEF a, v, off
  <2>5. off \in Int /\ off >= 0 /\ off >= a - origin - Priming /\ off <= a - origin
    BY <1>3, <1>7, <2>2, <2>3
  <2>6. (v - origin) - off <= Priming + LargestFrame
    BY <1>3, <1>7, <1>9, <2>2, <2>4, <2>5
  <2>7. off - (v - origin) <= LargestFrame + Slack(t)
    BY <1>3, <1>7, <1>9, <2>1, <2>2, <2>4, <2>5
  <2>8. Distance(v - origin, off) <= Priming + LargestFrame + Slack(t)
    BY <1>3, <1>7, <1>9, <2>1, <2>5, <2>6, <2>7 DEF Distance
  <2> QED BY <1>9, <2>1, <2>8 DEF off
<1> HIDE DEF v
<1> QED BY <1>5, <1>10 DEF BeginsInSync, NearVideo

LEMMA TogetherKept ==
  ASSUME NEW list, NEW nx, Collected(list, nx), Together(list, nx), Complete(list),
         \A s \in Streams : nx[s] \in Nat
  PROVE  Together(Kept(list), nx)
<1>1. list \in Seq(Packet)
  BY DEF Collected
<1>2. PICK m \in 1 .. Len(list) + 1 : Prune(list) = From(list, m)
  BY <1>1, KeptFrom
<1>3. Together(Prune(list), nx) /\ Collected(Prune(list), nx)
  BY <1>2, CutTogether, KeptIs
<1>4. \/ Kept(list) = Prune(list)
      \/ \E n \in 1 .. Len(Prune(list)) + 1 : Kept(list) = From(Prune(list), n)
  BY <1>1, KeptFrom
<1> QED BY <1>3, <1>4, CutTogether

Queued == ~ Started => Together(packets, next)

LEMMA SyncStep ==
  Inv /\ Recent /\ Even /\ Queued /\ BeginsInSync /\ [Next]_vars => Queued' /\ BeginsInSync'
<1> SUFFICES ASSUME Inv, Recent, Even, Queued, BeginsInSync, [Next]_vars
             PROVE  Queued' /\ BeginsInSync'
  OBVIOUS
<1>1. ASSUME ~ Started', Together(packets', next') PROVE Queued' /\ BeginsInSync'
  BY <1>1 DEF Queued, BeginsInSync, Together
<1>2. ASSUME Started', UNCHANGED <<flags, offsets>> PROVE Queued' /\ BeginsInSync'
  <2>1. Started /\ video_offset' = video_offset /\ audio_offsets' = audio_offsets
    BY <1>2 DEF Started, flags, offsets
  <2> QED BY <1>2, <2>1 DEF Queued, BeginsInSync, NearVideo
<1>3. CASE Restart
  <2>1. packets' = << >> /\ received_video' = FALSE
    BY <1>3 DEF Restart, ResetPackets
  <2>2. Together(<< >>, next')
    BY DEF Together
  <2> QED BY <1>1, <2>1, <2>2 DEF Started
<1>4. CASE Discard
  <2>1. ~ received_video /\ Arrives(Video, FALSE) /\ UNCHANGED flags
    BY <1>4 DEF Discard
  <2>2. /\ ~ Started /\ ~ Started' /\ Together(packets, next) /\ packets \in Seq(Packet)
        /\ Collected(packets, next) /\ \A s \in Streams : next[s] \in Nat
    BY <2>1, NothingSent DEF Started, flags, Queued, Inv, TypeOK
  <2>3. \A t \in Tracks : next'[t] = next[t]
    <3>1. \A t \in Streams : next'[t] = IF t = Video THEN next[t] + Frame(t) ELSE next[t]
      BY <2>1, ArrivesIs, NumTracksType DEF Inv
    <3> QED BY <3>1, LargestIs
  <2>4. Together(packets', next)
    <3> DEFINE p == Arrived(Video, FALSE)
               kept == {i \in DOMAIN packets : packets[i].ts >= p.ts}
    <3>1. packets' = IF kept = {} THEN << >> ELSE From(packets, Min(kept))
      BY <1>4 DEF Discard
    <3> HIDE DEF p
    <3>2. kept \in SUBSET (1 .. Len(packets)) /\ kept \in SUBSET Nat
      <4>1. DOMAIN packets = 1 .. Len(packets) /\ Len(packets) \in Nat
        BY <2>2
      <4>2. kept \subseteq DOMAIN packets
        OBVIOUS
      <4> QED BY <4>1, <4>2
    <3> HIDE DEF kept
    <3>3. CASE kept = {}
      BY <3>1, <3>3 DEF Together
    <3>4. CASE kept # {}
      <4>1. Min(kept) \in 1 .. Len(packets)
        BY <3>2, <3>4, LeastIn
      <4>2. Min(kept) \in 1 .. Len(packets) + 1 /\ packets' = From(packets, Min(kept))
        BY <2>2, <3>1, <3>4, <4>1
      <4> QED BY <2>2, <4>2, CutTogether
    <3> QED BY <3>3, <3>4
  <2>5. Together(packets', next')
    BY <2>3, <2>4 DEF Together
  <2> QED BY <1>1, <2>2, <2>5
<1>5. ASSUME NEW s \in Streams, NEW key \in BOOLEAN, Collect(s, key)
      PROVE  Queued' /\ BeginsInSync'
  <2> DEFINE seq == Insert(packets, Arrived(s, key))
             kept == Kept(seq)
  <2>1. /\ ~ Started /\ Arrives(s, key) /\ Collected(seq, next')
        /\ \/ Waits(seq)
           \/ Complete(seq) /\ Waits(kept)
           \/ Complete(seq) /\ Ready(Prune(seq)) /\ Starts(kept)
    BY <1>5, CollectIs
  <2>2. next' \in [Streams -> Nat] /\ \A t \in Streams : next'[t] \in Nat
    BY <2>1, ArrivesIs DEF Inv
  <2>3. Together(seq, next') /\ Late(seq)
    BY <2>1, InsertTogether, RecentInsert DEF Queued
  <2>4. Complete(seq) => Together(kept, next')
    BY <2>1, <2>2, <2>3, TogetherKept
  <2>5. ASSUME Complete(seq), Ready(Prune(seq)), Starts(kept) PROVE Queued' /\ BeginsInSync'
    <3>1. BeginsInSync'
      BY <2>1, <2>2, <2>3, <2>5, SyncStarts
    <3>2. Started'
      BY <2>5 DEF Starts
    <3> QED BY <3>1, <3>2 DEF Queued
  <2> HIDE DEF seq, kept
  <2>6. ASSUME NEW list, Waits(list), Together(list, next') PROVE Queued' /\ BeginsInSync'
    BY <1>1, <2>6 DEF Waits
  <2> QED BY <2>1, <2>3, <2>4, <2>5, <2>6
<1>6. ASSUME NEW s \in Streams, NEW key \in BOOLEAN, Interleave(s, key)
      PROVE  Queued' /\ BeginsInSync'
  <2>1. Started /\ UNCHANGED <<flags, offsets>>
    BY <1>6 DEF Interleave
  <2>2. Started'
    BY <2>1 DEF Started, flags
  <2> QED BY <1>2, <2>1, <2>2
<1>7. CASE UNCHANGED vars
  BY <1>7 DEF vars, Queued, BeginsInSync, NearVideo, Started, Together
<1> QED BY <1>3, <1>4, <1>5, <1>6, <1>7 DEF Next

LEMMA NearSync == Spec => []BeginsInSync
<1>1. Init => Queued /\ BeginsInSync
  <2> SUFFICES ASSUME Init PROVE Queued /\ BeginsInSync
    OBVIOUS
  <2>1. packets = << >> /\ ~ Started
    BY DEF Init, Started
  <2>2. Together(<< >>, next)
    BY DEF Together
  <2> QED BY <2>1, <2>2 DEF Queued, BeginsInSync
<1> QED BY <1>1, AlwaysInv, RecentInit, RecentStep, EvenInit, EvenStep, SyncStep, PTL DEF Spec

(* Whatever the number of tracks, the frame durations and delays and the    *)
(* age of the encoders, the track that prune_premature_packets() compares   *)
(* last begins within a packet of the video.                                *)
THEOREM BeginSync == Spec => []LastTrackInSync
<1>1. BeginsInSync => LastTrackInSync
  <2> SUFFICES ASSUME BeginsInSync, Started PROVE InSync(NumTracks)
    BY DEF LastTrackInSync
  <2>1. NearVideo(NumTracks)
    BY NumTracksType DEF BeginsInSync
  <2>2. Priming + LargestFrame \in Nat
    BY LargestIs, FramesAssumption
  <2> QED BY <2>1, <2>2 DEF NearVideo, InSync
<1> QED BY <1>1, NearSync, PTL

(* So what the comment at obs-output.c:1459-1464 says of every track is     *)
(* true of an output with a single one.                                     *)
THEOREM OneTrackSync == ASSUME NumTracks = 1 PROVE Spec => []EveryTrackInSync
<1>1. LastTrackInSync => EveryTrackInSync
  <2>1. \A t \in Tracks : t = NumTracks
    BY DEF Tracks
  <2> QED BY <2>1 DEF LastTrackInSync, EveryTrackInSync
<1> QED BY <1>1, BeginSync, PTL

-----------------------------------------------------------------------------
(* The first video packet *)

KeyFirst(seq) ==
  \A i \in 1 .. Len(seq) :
    /\ seq[i].stream = Video
    /\ \A j \in 1 .. Len(seq) : seq[j].stream = Video => seq[i].at <= seq[j].at
    => seq[i].key

(* A packet may be added behind another one of the video, or be a keyframe. *)
LEMMA KeyFirstGrown ==
  ASSUME NEW old \in Seq(Packet), NEW new \in Seq(Packet), NEW p \in Packet, KeyFirst(old),
         \A i \in 1 .. Len(new) : new[i] = p \/ \E j \in 1 .. Len(old) : new[i] = old[j],
         \A j \in 1 .. Len(old) : \E i \in 1 .. Len(new) : new[i] = old[j],
         p.stream = Video =>
           p.key \/ \E j \in 1 .. Len(old) : old[j].stream = Video /\ old[j].at < p.at
  PROVE  KeyFirst(new)
<1> SUFFICES ASSUME NEW i \in 1 .. Len(new), new[i].stream = Video,
                    \A j \in 1 .. Len(new) : new[j].stream = Video => new[i].at <= new[j].at
             PROVE  new[i].key
  BY DEF KeyFirst
<1>1. CASE new[i] = p
  <2>1. ASSUME NEW j \in 1 .. Len(old), old[j].stream = Video, old[j].at < p.at PROVE FALSE
    <3>1. PICK l \in 1 .. Len(new) : new[l] = old[j]
      OBVIOUS
    <3>2. p.at <= old[j].at
      BY <1>1, <2>1, <3>1
    <3>3. old[j] \in Packet /\ p.at \in Nat
      BY PacketFields
    <3>4. old[j].at \in Nat
      BY <3>3, PacketFields
    <3> QED BY <2>1, <3>2, <3>3, <3>4
  <2> QED BY <1>1, <2>1
<1>2. CASE \E j \in 1 .. Len(old) : new[i] = old[j]
  <2>1. PICK j \in 1 .. Len(old) : new[i] = old[j]
    BY <1>2
  <2>2. \A l \in 1 .. Len(old) : old[l].stream = Video => old[j].at <= old[l].at
    <3> TAKE l \in 1 .. Len(old)
    <3>1. PICK m \in 1 .. Len(new) : new[m] = old[l]
      OBVIOUS
    <3> QED BY <2>1, <3>1
  <2> QED BY <2>1, <2>2 DEF KeyFirst
<1> QED BY <1>1, <1>2

(* Rebasing and resorting leave streams, times and keyframes as they are. *)
LEMMA KeyFirstSame ==
  ASSUME NEW old \in Seq(Packet), NEW new \in Seq(Packet), KeyFirst(old),
         \A i \in 1 .. Len(new) : \E l \in 1 .. Len(old) :
           new[i].stream = old[l].stream /\ new[i].at = old[l].at /\ new[i].key = old[l].key,
         \A l \in 1 .. Len(old) : \E i \in 1 .. Len(new) :
           new[i].stream = old[l].stream /\ new[i].at = old[l].at
  PROVE  KeyFirst(new)
<1> SUFFICES ASSUME NEW i \in 1 .. Len(new), new[i].stream = Video,
                    \A j \in 1 .. Len(new) : new[j].stream = Video => new[i].at <= new[j].at
             PROVE  new[i].key
  BY DEF KeyFirst
<1>1. PICK l \in 1 .. Len(old) :
        new[i].stream = old[l].stream /\ new[i].at = old[l].at /\ new[i].key = old[l].key
  OBVIOUS
<1>2. \A k \in 1 .. Len(old) : old[k].stream = Video => old[l].at <= old[k].at
  <2> TAKE k \in 1 .. Len(old)
  <2>1. PICK m \in 1 .. Len(new) : new[m].stream = old[k].stream /\ new[m].at = old[k].at
    OBVIOUS
  <2> QED BY <1>1, <2>1
<1> QED BY <1>1, <1>2 DEF KeyFirst

(* What is cut in front of the video *)
LEMMA KeyFirstFrom ==
  ASSUME NEW list \in Seq(Packet), NEW m \in 1 .. Len(list) + 1,
         \/ KeyFirst(list) /\ \A i \in 1 .. m - 1 : list[i].stream # Video
         \/ \A i \in m .. Len(list) : list[i].stream # Video
  PROVE  KeyFirst(From(list, m))
<1> DEFINE new == From(list, m)
<1>1. Len(list) \in Nat /\ Len(new) = Len(list) - m + 1
      /\ \A i \in 1 .. Len(list) - m + 1 : new[i] = list[m - 1 + i] /\ m - 1 + i \in m .. Len(list)
  BY FromIs
<1> HIDE DEF new
<1> SUFFICES ASSUME NEW i \in 1 .. Len(new), new[i].stream = Video,
                    \A j \in 1 .. Len(new) : new[j].stream = Video => new[i].at <= new[j].at
             PROVE  new[i].key
  BY DEF KeyFirst, new
<1> DEFINE q == m - 1 + i
<1>2. q \in m .. Len(list) /\ q \in 1 .. Len(list) /\ new[i] = list[q]
  BY <1>1, SMTT(40)
<1> HIDE DEF q
<1>3. KeyFirst(list) /\ \A j \in 1 .. m - 1 : list[j].stream # Video
  BY <1>2
<1>4. ASSUME NEW j \in 1 .. Len(list), list[j].stream = Video PROVE list[q].at <= list[j].at
  <2>1. j >= m
    BY <1>3, <1>4
  <2> DEFINE d == j - m + 1
  <2>2. d \in 1 .. Len(list) - m + 1 /\ m - 1 + d = j
    BY <1>1, <2>1
  <2> HIDE DEF d
  <2>3. d \in 1 .. Len(new) /\ new[d] = list[j]
    BY <1>1, <2>2
  <2> QED BY <1>2, <1>4, <2>3
<1> QED BY <1>2, <1>3, <1>4 DEF KeyFirst

LEMMA KeyFirstInsert ==
  ASSUME Inv, ~ Started, KeyFirst(packets), NEW s \in Streams, NEW key \in BOOLEAN, Arrives(s, key),
         s = Video /\ ~ received_video => key
  PROVE  KeyFirst(Insert(packets, Arrived(s, key)))
<1> DEFINE p == Arrived(s, key)
           seq == Insert(packets, p)
<1>1. /\ p \in Packet /\ p.stream = s /\ p.at = next[s] /\ p.key = key
      /\ \A t \in Streams : next'[t] = IF t = s THEN next[t] + Frame(t) ELSE next[t]
  BY ArrivesIs DEF Inv, TypeOK
<1>2. /\ Collected(packets, next) /\ (received_video <=> Has(packets, Video))
      /\ \A t \in Streams : next[t] \in Nat
  BY NothingSent DEF Inv, TypeOK
<1> HIDE DEF p
<1>3. p \in Packet /\ packets \in Seq(Packet)
  BY <1>1 DEF Inv, TypeOK
<1>4. /\ seq \in Seq(Packet)
      /\ \A i \in 1 .. Len(seq) : seq[i] = p \/ \E j \in 1 .. Len(packets) : seq[i] = packets[j]
      /\ \A j \in 1 .. Len(packets) : \E i \in 1 .. Len(seq) : seq[i] = packets[j]
  BY <1>3, InsertMembers
<1> HIDE DEF seq
<1>5. ASSUME p.stream = Video
      PROVE  p.key \/ \E j \in 1 .. Len(packets) : packets[j].stream = Video /\ packets[j].at < p.at
  <2>1. CASE received_video
    <3>1. PICK j \in 1 .. Len(packets) : j \in IndicesOf(packets, Video) /\ packets[j].stream = Video
      BY <1>2, <1>3, <2>1, Indices DEF Has
    <3>2. packets[j].at + Frame(Video) <= next[Video]
      BY <1>2, <3>1, NumTracksType DEF Collected, Line
    <3>3. packets[j].at \in Nat /\ Frame(Video) \in Nat /\ Frame(Video) > 0 /\ next[Video] \in Nat
      BY <1>2, AtOrdered, FrameType, NumTracksType
    <3>4. packets[j].at < p.at
      BY <1>1, <1>5, <3>2, <3>3
    <3> QED BY <3>1, <3>4
  <2>2. CASE ~ received_video
    BY <1>1, <1>5, <2>2
  <2> QED BY <2>1, <2>2
<1>6. KeyFirst(seq)
  BY <1>3, <1>4, <1>5, KeyFirstGrown
<1> QED BY <1>6 DEF seq, p

LEMMA KeyFirstInterleave ==
  ASSUME Inv, Started, KeyFirst(sent \o packets),
         NEW s \in Streams, NEW key \in BOOLEAN, Interleave(s, key)
  PROVE  Started' /\ KeyFirst(sent' \o packets')
<1> DEFINE p == Apply(video_offset, audio_offsets, Arrived(s, key))
           seq == Insert(packets, p)
           old == sent \o packets
           new == sent \o seq
<1>1. /\ Started /\ Started' /\ p \in Packet /\ p.stream = s /\ p.at = next[s]
      /\ sent' \o packets' = new
  BY InterleaveIs
<1>2. packets \in Seq(Packet) /\ sent \in Seq(Packet) /\ \A t \in Streams : next[t] \in Nat
  BY DEF Inv, TypeOK
<1> HIDE DEF p
<1>3. PICK k \in 1 .. Len(packets) + 1 : InsertedAt(seq, packets, p, k)
  BY <1>1, <1>2, InsertIs
<1> HIDE DEF seq
<1>4. InsertedAt(new, old, p, Len(sent) + k) /\ old \in Seq(Packet)
  BY <1>2, <1>3, InsertedBehind, ConcatProperties
<1>5. KeyFirst(old) /\ Has(old, Video) /\ Line(old, Video, next[Video])
  BY <1>1, NumTracksType DEF Inv, Flagged, InLine, old
<1> HIDE DEF old, new
<1>6. /\ new \in Seq(Packet)
      /\ \A i \in 1 .. Len(new) : new[i] = p \/ \E j \in 1 .. Len(old) : new[i] = old[j]
      /\ \A j \in 1 .. Len(old) : \E i \in 1 .. Len(new) : new[i] = old[j]
  <2>1. new \in Seq(Packet)
    BY <1>4 DEF InsertedAt
  <2> DEFINE l == Len(sent) + k
  <2>2. InsertedAt(new, old, p, l) /\ old \in Seq(Packet)
    BY <1>4
  <2> HIDE DEF l
  <2> QED BY <2>1, <2>2, InsertedMembers
<1>7. ASSUME p.stream = Video
      PROVE  \E j \in 1 .. Len(old) : old[j].stream = Video /\ old[j].at < p.at
  <2>1. PICK j \in 1 .. Len(old) : j \in IndicesOf(old, Video) /\ old[j].stream = Video
    BY <1>4, <1>5, Indices DEF Has
  <2>2. old[j].at + Frame(Video) <= next[Video]
    BY <1>5, <2>1 DEF Line
  <2>3. old[j].at \in Nat /\ Frame(Video) \in Nat /\ Frame(Video) > 0 /\ next[Video] \in Nat
    <3>1. old[j] \in Packet
      BY <1>4, <2>1
    <3> QED BY <1>2, <3>1, PacketFields, FrameType, NumTracksType
  <2>4. old[j].at < p.at
    BY <1>1, <1>7, <2>2, <2>3
  <2> QED BY <2>1, <2>4
<1>8. KeyFirst(new)
  <2>1. p \in Packet /\ old \in Seq(Packet) /\ KeyFirst(old)
    BY <1>1, <1>4, <1>5
  <2> QED BY <1>6, <1>7, <2>1, KeyFirstGrown
<1> QED BY <1>1, <1>8

LEMMA KeyFirstSent == Inv /\ (Started => KeyFirst(sent \o packets)) => StartsOnKeyframe
<1> SUFFICES ASSUME Inv, Started => KeyFirst(sent \o packets), NEW i \in DOMAIN sent, sent[i].stream = Video,
                    \A j \in 1 .. i - 1 : sent[j].stream # Video
             PROVE  sent[i].key
  BY DEF StartsOnKeyframe
<1> DEFINE all == sent \o packets
<1>1. packets \in Seq(Packet) /\ sent \in Seq(Packet) /\ i \in 1 .. Len(sent) /\ Len(sent) \in Nat
  BY DEF Inv, TypeOK
<1>2. Started
  <2>1. sent # << >>
    BY <1>1
  <2> QED BY <2>1 DEF Inv, Flagged
<1>3. KeyFirst(all) /\ Line(all, Video, next[Video])
  BY <1>2, NumTracksType DEF Inv, InLine
<1>4. /\ all \in Seq(Packet) /\ Len(all) >= Len(sent) /\ Len(all) \in Nat
      /\ \A j \in 1 .. Len(sent) : j \in 1 .. Len(all) /\ all[j] = sent[j]
  <2>1. /\ all \in Seq(Packet) /\ Len(all) = Len(sent) + Len(packets)
        /\ \A j \in 1 .. Len(sent) + Len(packets) :
             all[j] = IF j <= Len(sent) THEN sent[j] ELSE packets[j - Len(sent)]
    BY <1>1, ConcatProperties
  <2>2. Len(packets) \in Nat
    BY <1>1
  <2> HIDE DEF all
  <2> QED BY <1>1, <2>1, <2>2
<1> HIDE DEF all
<1>5. ASSUME NEW j \in 1 .. Len(all), all[j].stream = Video PROVE all[i].at <= all[j].at
  <2>1. i \in 1 .. Len(all) /\ all[i].stream = Video
    BY <1>1, <1>4
  <2>2. j >= i
    <3>1. ASSUME j < i PROVE FALSE
      <4>1. j \in 1 .. Len(sent) /\ j \in 1 .. i - 1
        BY <1>1, <3>1
      <4> QED BY <1>4, <1>5, <4>1
    <3> QED BY <1>1, <3>1
  <2>3. all[i].at \in Nat /\ all[j].at \in Nat /\ Frame(Video) \in Nat
    <3>1. all[i] \in Packet /\ all[j] \in Packet
      BY <1>4, <2>1
    <3> QED BY <3>1, PacketFields, FrameType, NumTracksType
  <2>4. i < j => all[i].at + Frame(Video) <= all[j].at
    <3>1. i \in IndicesOf(all, Video) /\ j \in IndicesOf(all, Video)
      BY <1>4, <1>5, <2>1, Indices
    <3> QED BY <1>3, <3>1 DEF Line
  <2> QED BY <1>1, <2>2, <2>3, <2>4
<1>6. all[i].key
  BY <1>1, <1>3, <1>4, <1>5 DEF KeyFirst
<1> QED BY <1>1, <1>4, <1>6

(* Video takes so long to encode that no collected frame is ahead of what   *)
(* is due of the audio, however late audio packets may come.                *)
VideoSlower == VideoLatency >= AudioLatency + Jitter

VideoBefore(list, nx) ==
  \A i \in 1 .. Len(list), t \in Tracks : list[i].stream = Video => list[i].at <= nx[t]

(* Before the start: the first video packet is a keyframe, and a list with  *)
(* all streams is not one prune_premature_packets() would cut.              *)
Keyed ==
  /\ ~ Started => /\ KeyFirst(packets) /\ VideoBefore(packets, next)
                  /\ Complete(packets) => ~ TooFarApart(packets)
                  /\ received_video \/ received_audio \/ AudioIndices(packets) = {}
  /\ Started => KeyFirst(sent \o packets)

LEMMA KeyedInsert ==
  ASSUME Inv, VideoSlower, Keyed, ~ Started, NEW s \in Streams, NEW key \in BOOLEAN, Arrives(s, key),
         s = Video /\ ~ received_video => key
  PROVE  KeyFirst(Insert(packets, Arrived(s, key))) /\ VideoBefore(Insert(packets, Arrived(s, key)), next')
<1> DEFINE p == Arrived(s, key)
           seq == Insert(packets, p)
<1>1. /\ p \in Packet /\ p.stream = s /\ p.at = next[s] /\ p.key = key
      /\ \A t \in Streams : next'[t] = IF t = s THEN next[t] + Frame(t) ELSE next[t]
  BY ArrivesIs DEF Inv, TypeOK
<1>2. /\ Collected(packets, next) /\ (received_video <=> Has(packets, Video))
      /\ VideoBefore(packets, next) /\ \A t \in Streams : next[t] \in Nat
  BY NothingSent DEF Keyed, Inv, TypeOK
<1> HIDE DEF p
<1>3. p \in Packet /\ packets \in Seq(Packet)
  BY <1>1 DEF Inv, TypeOK
<1>4. /\ seq \in Seq(Packet)
      /\ \A i \in 1 .. Len(seq) : seq[i] = p \/ \E j \in 1 .. Len(packets) : seq[i] = packets[j]
      /\ \A j \in 1 .. Len(packets) : \E i \in 1 .. Len(seq) : seq[i] = packets[j]
  BY <1>3, InsertMembers
<1> HIDE DEF seq
<1>5. KeyFirst(seq)
  BY KeyFirstInsert DEF Keyed, seq, p
<1>6. ASSUME NEW t \in Tracks PROVE next[t] <= next'[t] /\ (s = Video => p.at <= next'[t])
  <2>1. t \in Streams /\ Frame(t) \in Nat /\ next[t] \in Nat /\ next[s] \in Nat
    BY <1>2, FrameType DEF Streams
  <2>2. next[t] <= next'[t]
    BY <1>1, <2>1
  <2>3. ASSUME s = Video PROVE next[s] <= next[t]
    <3>1. next[s] + Latency(s) <= next[t] + Latency(t) + Jitter
      BY <2>1 DEF Arrives
    <3>2. Latency(s) = VideoLatency /\ Latency(t) = AudioLatency
      BY <2>3 DEF Latency, Tracks, Video
    <3> QED BY <2>1, <3>1, <3>2, TimesAssumption DEF VideoSlower
  <2>4. t # Video
    BY DEF Tracks, Video
  <2> QED BY <1>1, <2>1, <2>2, <2>3, <2>4
<1>7. ASSUME NEW i \in 1 .. Len(seq), NEW t \in Tracks, seq[i].stream = Video
      PROVE  seq[i].at <= next'[t]
  <2>1. CASE seq[i] = p
    BY <1>1, <1>6, <1>7, <2>1
  <2>2. CASE \E j \in 1 .. Len(packets) : seq[i] = packets[j]
    <3>1. PICK j \in 1 .. Len(packets) : seq[i] = packets[j]
      BY <2>2
    <3>2. packets[j].at <= next[t]
      BY <1>2, <1>7, <3>1 DEF VideoBefore
    <3>3. packets[j].at \in Nat /\ next[t] \in Nat /\ next'[t] \in Nat
      <4>1. t \in Streams /\ next' \in [Streams -> Nat]
        BY ArrivesIs DEF Streams, Inv
      <4> QED BY <1>2, <4>1, AtOrdered
    <3> QED BY <1>6, <3>1, <3>2, <3>3
  <2> QED BY <1>4, <2>1, <2>2
<1> QED BY <1>5, <1>7 DEF VideoBefore, seq, p

(* A packet behind the first one of its stream changes nothing.             *)
LEMMA FarInsert ==
  ASSUME Inv, ~ Started, NEW s \in Streams, NEW key \in BOOLEAN, Arrives(s, key),
         Complete(packets), ~ TooFarApart(packets)
  PROVE  ~ TooFarApart(Insert(packets, Arrived(s, key)))
<1> DEFINE p == Arrived(s, key)
           seq == Insert(packets, p)
<1>1. /\ p \in Packet /\ p.stream = s /\ p.at = next[s] /\ packets \in Seq(Packet)
      /\ Collected(packets, next) /\ \A t \in Streams : next[t] \in Nat
  BY ArrivesIs, NothingSent DEF Inv, TypeOK
<1>2. Collected(seq, next') /\ \A t \in Streams : Has(packets, t) /\ Has(seq, t)
  BY CollectedInsert DEF Complete
<1> HIDE DEF p
<1>3. /\ \A i \in 1 .. Len(seq) : seq[i] = p \/ \E j \in 1 .. Len(packets) : seq[i] = packets[j]
      /\ \A j \in 1 .. Len(packets) : \E i \in 1 .. Len(seq) : seq[i] = packets[j]
  BY <1>1, InsertMembers
<1> HIDE DEF seq
<1>4. ASSUME NEW u \in Streams PROVE FirstOf(seq, u).ts = FirstOf(packets, u).ts
  <2> DEFINE f == FirstOf(packets, u)
             g == FirstOf(seq, u)
             a == FirstIndex(packets, u)
             b == FirstIndex(seq, u)
  <2>1. /\ a \in 1 .. Len(packets) /\ f = packets[a] /\ f.stream = u /\ f.at \in Nat /\ f.ts = Boot + f.at
        /\ \A i \in 1 .. Len(packets) : packets[i].stream = u => f.at <= packets[i].at
    BY <1>1, <1>2, FirstLeast
  <2>2. /\ b \in 1 .. Len(seq) /\ g = seq[b] /\ g.stream = u /\ g.at \in Nat /\ g.ts = Boot + g.at
        /\ \A i \in 1 .. Len(seq) : seq[i].stream = u => g.at <= seq[i].at
    BY <1>2, FirstLeast
  <2> HIDE DEF f, g, a, b
  <2>3. g.at <= f.at
    BY <1>3, <2>1, <2>2
  <2>4. f.at <= g.at
    <3>1. CASE g = p
      <4>1. u = s /\ a \in IndicesOf(packets, s)
        BY <1>1, <2>1, <2>2, <3>1, Indices
      <4>2. packets[a].at + Frame(s) <= next[s] /\ Frame(s) \in Nat /\ next[s] \in Nat
        BY <1>1, <4>1, FrameType DEF Collected, Line
      <4> QED BY <1>1, <2>1, <3>1, <4>2
    <3>2. CASE \E j \in 1 .. Len(packets) : g = packets[j]
      BY <2>1, <2>2, <3>2
    <3> QED BY <1>3, <2>2, <3>1, <3>2
  <2>5. g.ts = f.ts
    BY <2>1, <2>2, <2>3, <2>4
  <2> QED BY <2>5 DEF f, g
<1>5. FirstOf(seq, NumTracks).ts = FirstOf(packets, NumTracks).ts
      /\ FirstOf(seq, Video).ts = FirstOf(packets, Video).ts
  <2>1. NumTracks \in Streams /\ Video \in Streams
    BY NumTracksType
  <2> QED BY <1>4, <2>1
<1>6. ~ TooFarApart(seq)
  BY <1>5 DEF TooFarApart
<1> QED BY <1>6 DEF seq, p

(* The packet that completes a list is the first one of its stream, and no  *)
(* frame is behind it: pruning premature packets takes all of the video.    *)
LEMMA FarCut ==
  ASSUME Inv, ~ Started, NEW s \in Streams, NEW key \in BOOLEAN, Arrives(s, key),
         VideoBefore(packets, next), ~ Complete(packets),
         Complete(Insert(packets, Arrived(s, key))), NEW m \in Nat,
         \A u \in Streams : FirstIndex(Insert(packets, Arrived(s, key)), u) < m
  PROVE  \A i \in 1 .. Len(Insert(packets, Arrived(s, key))) :
           i >= m => Insert(packets, Arrived(s, key))[i].stream # Video
<1> DEFINE p == Arrived(s, key)
           seq == Insert(packets, p)
<1>1. p \in Packet /\ packets \in Seq(Packet) /\ p.stream = s /\ p.at = next[s] /\ p.ts = Boot + p.at
  BY ArrivesIs DEF Inv, TypeOK, Fresh
<1>2. Collected(packets, next) /\ \A t \in Streams : next[t] \in Nat
  BY NothingSent DEF Inv, TypeOK
<1>3. /\ seq \in Seq(Packet) /\ \A t \in Streams : Has(seq, t)
      /\ \A t \in Streams : Has(seq, t) <=> t = s \/ Has(packets, t)
  BY CollectedInsert DEF Complete, Collected
<1>4. ~ Has(packets, s)
  BY <1>3 DEF Complete
<1> HIDE DEF p
<1>5. PICK k \in 1 .. Len(packets) + 1 :
        /\ InsertedAt(seq, packets, p, k)
        /\ k <= Len(packets) => StopsAt(p, packets[k])
  BY <1>1, InsertIs
<1> HIDE DEF seq
<1>6. /\ Len(seq) = Len(packets) + 1 /\ Len(packets) \in Nat /\ k \in 1 .. Len(packets) + 1
      /\ \A i \in 1 .. Len(packets) + 1 :
           seq[i] = IF i < k THEN packets[i] ELSE IF i = k THEN p ELSE packets[i - 1]
  BY <1>1, <1>5 DEF InsertedAt
<1>7. \A j \in 1 .. Len(packets) : packets[j].stream # s
  BY <1>1, <1>4, Indices DEF Has
<1>8. \A i \in 1 .. Len(seq) : seq[i].stream = s => i = k
  <2> SUFFICES ASSUME NEW i \in 1 .. Len(seq), i # k PROVE seq[i].stream # s
    OBVIOUS
  <2>1. CASE i < k
    <3>1. seq[i] = packets[i] /\ i \in 1 .. Len(packets)
      BY <1>6, <2>1
    <3> QED BY <1>7, <3>1
  <2>2. CASE i > k
    <3>1. seq[i] = packets[i - 1] /\ i - 1 \in 1 .. Len(packets)
      BY <1>6, <2>2
    <3> QED BY <1>7, <3>1
  <2> QED BY <1>6, <2>1, <2>2
<1>9. k < m
  <2>1. FirstIndex(seq, s) \in 1 .. Len(seq) /\ seq[FirstIndex(seq, s)].stream = s
    BY <1>3, FirstIs DEF FirstOf
  <2>2. FirstIndex(seq, s) < m
    BY DEF seq, p
  <2> QED BY <1>8, <2>1, <2>2
<1>10. ASSUME NEW i \in 1 .. Len(seq), i > k, seq[i].stream = Video PROVE FALSE
  <2>1. s # Video
    BY <1>6, <1>8, <1>10
  <2>2. s \in Tracks
    BY <2>1 DEF Streams
  <2> DEFINE j == i - 1
  <2>3. j \in 1 .. Len(packets) /\ seq[i] = packets[j] /\ k <= j /\ k \in 1 .. Len(packets)
    BY <1>6, <1>10
  <2> HIDE DEF j
  <2>4. StopsAt(p, packets[k])
    BY <1>5, <1>6, <2>3
  <2>5. p.ts < packets[k].ts
    BY <1>1, <2>1, <2>4 DEF StopsAt
  <2>6. packets[j].at <= next[s]
    BY <1>10, <2>2, <2>3 DEF VideoBefore, seq, p
  <2>7. /\ packets[k].at \in Nat /\ packets[k].ts = Boot + packets[k].at /\ Boot \in Nat
        /\ packets[j].at \in Nat /\ packets[k].at <= packets[j].at
    BY <1>2, <2>3, AtOrdered
  <2>8. next[s] \in Nat
    BY <1>2
  <2> QED BY <1>1, <2>5, <2>6, <2>7, <2>8, SMTT(40)
<1>11. ASSUME NEW i \in 1 .. Len(seq), i >= m PROVE seq[i].stream # Video
  <2>1. i > k
    BY <1>6, <1>9, <1>11
  <2> QED BY <1>10, <2>1
<1> QED BY <1>11 DEF seq, p

(* If audio is missing behind the first frame of what pruning left, a       *)
(* second pruning would find nothing premature, either.                     *)
LEMMA FarKept ==
  ASSUME NEW seq, NEW nx, Collected(seq, nx), Complete(seq), ~ TooFarApart(seq),
         Complete(Prune(seq)), ~ Ready(Prune(seq)), \A u \in Streams : nx[u] \in Nat
  PROVE  ~ TooFarApart(Prune(seq))
<1> DEFINE m == StartIndex(seq)
           new == Prune(seq)
           v == FirstOf(seq, Video).at
           t == NumTracks
<1>1. seq \in Seq(Packet) /\ Len(seq) \in Nat
  BY DEF Collected
<1>2. m \in 1 .. Len(seq) /\ m <= FirstIndex(seq, Video) /\ m \in 1 .. Len(seq) + 1 /\ new = From(seq, m)
  BY <1>1, StartIndexIs DEF Prune
<1>3. Collected(new, nx) /\ Complete(new) /\ ~ Ready(new)
  BY KeptIs
<1>4. /\ t \in Tracks /\ t \in Streams /\ t # Video /\ Video \in Streams /\ Frame(t) = AudioFrame
      /\ AudioFrame \in Nat /\ SyncLimit \in Nat
  BY LargestIs, NumTracksType
<1> HIDE DEF m, new
<1>5. Has(seq, Video) /\ Has(seq, t) /\ Has(new, Video) /\ Has(new, t)
  BY <1>3, <1>4 DEF Complete
<1>6. /\ FirstOf(seq, Video).ts = Boot + v /\ v \in Nat /\ Boot \in Nat
      /\ FirstIndex(seq, Video) \in 1 .. Len(seq) /\ FirstOf(seq, Video) = seq[FirstIndex(seq, Video)]
  BY <1>5, FirstLeast, TimesAssumption
<1>7. FirstOf(new, Video) = FirstOf(seq, Video)
  <2>1. ASSUME NEW k \in 1 .. m - 1, seq[k].stream = Video PROVE FALSE
    <3>1. k \in 1 .. Len(seq)
      BY <1>1, <1>2
    <3>2. FirstIndex(seq, Video) <= k
      BY <1>5, <2>1, <3>1, FirstLeast
    <3> QED BY <1>2, <1>6, <3>1, <3>2
  <2>2. \/ FirstOf(From(seq, m), Video) = FirstOf(seq, Video)
        \/ \E k \in 1 .. m - 1 : seq[k].stream = Video
    BY <1>2, <1>4, <1>5, FirstCut
  <2> QED BY <1>2, <2>1, <2>2
<1>8. /\ FirstOf(new, t).at \in Nat /\ FirstOf(new, t).ts = Boot + FirstOf(new, t).at
  BY <1>3, <1>5, FirstLeast
<1>9. CASE FirstOf(new, t) = FirstOf(seq, t)
  BY <1>7, <1>9 DEF TooFarApart, new
<1>10. CASE \E k \in 1 .. m - 1 : FirstOf(new, t).at = seq[k].at + AudioFrame
  <2>1. PICK k \in 1 .. m - 1 : FirstOf(new, t).at = seq[k].at + AudioFrame
    BY <1>10
  <2>2. k \in 1 .. Len(seq) /\ k <= FirstIndex(seq, Video)
    BY <1>1, <1>2, <1>6, <2>1
  <2>3. seq[k].at <= v /\ seq[k].at \in Nat
    BY <1>6, <2>2, AtOrdered
  <2>4. FirstOf(new, t).at <= v + AudioFrame
    BY <1>4, <1>6, <2>1, <2>3
  <2>5. CASE AudioFrame <= SyncLimit
    <3>1. ~ (FirstOf(new, t).ts - FirstOf(new, Video).ts > SyncLimit)
      BY <1>4, <1>6, <1>7, <1>8, <2>4, <2>5
    <3> QED BY <3>1 DEF TooFarApart, new
  <2>6. CASE NumTracks = 1
    <3>1. PICK u \in Tracks : ~ (new[LastIndex(new, u)].ts >= FirstOf(new, Video).ts)
      BY <1>3 DEF Ready
    <3>2. u = t
      BY <2>6, <3>1 DEF Tracks
    <3> DEFINE l == LastIndex(new, t)
    <3>3. l \in 1 .. Len(new) /\ new[l].stream = t
      <4>1. new \in Seq(Packet) /\ Len(new) \in Nat
        BY <1>3 DEF Collected
      <4>2. IndicesOf(new, t) \in SUBSET (1 .. Len(new)) /\ IndicesOf(new, t) # {}
        BY <1>5, <4>1, Indices DEF Has
      <4>3. l \in IndicesOf(new, t)
        BY <4>1, <4>2, GreatestIn DEF LastIndex
      <4> QED BY <4>1, <4>2, <4>3, Indices
    <3> HIDE DEF l
    <3>4. FirstOf(new, t).at <= new[l].at /\ new[l].at \in Nat /\ new[l].ts = Boot + new[l].at
      BY <1>3, <1>5, <3>3, FirstLeast, AtOrdered
    <3>5. ~ (new[l].ts >= FirstOf(new, Video).ts)
      BY <3>1, <3>2 DEF l
    <3>6. FirstOf(new, Video).ts = Boot + v
      BY <1>6, <1>7
    <3> DEFINE a == FirstOf(new, t).at
    <3>7. a \in Nat /\ FirstOf(new, t).ts = Boot + a /\ a <= new[l].at
      BY <1>8, <3>4
    <3> HIDE DEF a, v
    <3>8. a < v
      BY <1>6, <3>4, <3>5, <3>6, <3>7
    <3>9. ~ (FirstOf(new, t).ts - FirstOf(new, Video).ts > SyncLimit)
      BY <1>4, <1>6, <3>6, <3>7, <3>8
    <3> QED BY <3>9 DEF TooFarApart, new
  <2>7. AudioFrame <= SyncLimit \/ NumTracks = 1
    BY FramesAssumption DEF SyncLimit
  <2> QED BY <2>5, <2>6, <2>7
<1>11. \/ FirstOf(new, t) = FirstOf(seq, t)
       \/ \E k \in 1 .. m - 1 : FirstOf(new, t).at = seq[k].at + AudioFrame
  <2>1. Has(From(seq, m), t) /\ nx[t] \in Nat
    BY <1>2, <1>4, <1>5
  <2> QED BY <1>2, <1>4, <2>1, FirstCut
<1> QED BY <1>9, <1>10, <1>11

LEMMA FromMembers ==
  ASSUME NEW list \in Seq(Packet), NEW m \in 1 .. Len(list) + 1
  PROVE  \A i \in 1 .. Len(From(list, m)) : \E j \in m .. Len(list) : From(list, m)[i] = list[j]
<1>1. /\ Len(From(list, m)) = Len(list) - m + 1
      /\ \A i \in 1 .. Len(list) - m + 1 : From(list, m)[i] = list[m - 1 + i]
  BY FromIs
<1>2. \A i \in 1 .. Len(list) - m + 1 : m - 1 + i \in m .. Len(list)
  OBVIOUS
<1> QED BY <1>1, <1>2

LEMMA VideoBeforeFrom ==
  ASSUME NEW list \in Seq(Packet), NEW nx, NEW m \in 1 .. Len(list) + 1, VideoBefore(list, nx)
  PROVE  VideoBefore(From(list, m), nx)
<1>1. \A i \in 1 .. Len(From(list, m)) : \E j \in 1 .. Len(list) : From(list, m)[i] = list[j]
  <2>1. m .. Len(list) \subseteq 1 .. Len(list)
    OBVIOUS
  <2> QED BY <2>1, FromMembers
<1> QED BY <1>1 DEF VideoBefore

(* The starting point is not behind the first frame. *)
LEMMA KeyFirstStart ==
  ASSUME NEW list \in Seq(Packet), Complete(list), KeyFirst(list)
  PROVE  KeyFirst(From(list, StartIndex(list)))
<1> DEFINE m == StartIndex(list)
<1>1. m \in 1 .. Len(list) /\ m \in 1 .. Len(list) + 1 /\ m <= FirstIndex(list, Video)
  BY StartIndexIs
<1> HIDE DEF m
<1>2. Has(list, Video)
  BY NumTracksType DEF Complete
<1>3. /\ FirstIndex(list, Video) \in 1 .. Len(list)
      /\ \A i \in 1 .. Len(list) : list[i].stream = Video => FirstIndex(list, Video) <= i
  BY <1>2, FirstIs
<1>4. \A i \in 1 .. m - 1 : list[i].stream # Video
  <2> SUFFICES ASSUME NEW i \in 1 .. m - 1, list[i].stream = Video PROVE FALSE
    OBVIOUS
  <2>1. i \in 1 .. Len(list)
    BY <1>1
  <2>2. FirstIndex(list, Video) <= i
    BY <1>3, <2>1
  <2> QED BY <1>1, <1>3, <2>1, <2>2
<1>5. KeyFirst(From(list, m))
  BY <1>1, <1>4, KeyFirstFrom
<1> QED BY <1>5 DEF m

LEMMA KeyedKept ==
  ASSUME Inv, VideoSlower, Keyed, ~ Started, NEW s \in Streams, NEW key \in BOOLEAN, Arrives(s, key),
         s = Video /\ ~ received_video => key, Complete(Insert(packets, Arrived(s, key)))
  PROVE  LET seq == Insert(packets, Arrived(s, key))
         IN /\ KeyFirst(Kept(seq)) /\ VideoBefore(Kept(seq), next')
            /\ Complete(Kept(seq)) => ~ TooFarApart(seq) /\ Complete(Prune(seq))
<1> DEFINE seq == Insert(packets, Arrived(s, key))
<1>1. /\ KeyFirst(seq) /\ VideoBefore(seq, next') /\ Complete(seq)
      /\ TooFarApart(seq) => ~ Complete(packets)
  <2>1. KeyFirst(seq) /\ VideoBefore(seq, next')
    BY KeyedInsert
  <2>2. ASSUME Complete(packets) PROVE ~ TooFarApart(seq)
    <3>1. ~ TooFarApart(packets)
      BY <2>2 DEF Keyed
    <3> QED BY <2>2, <3>1, FarInsert
  <2> QED BY <2>1, <2>2
<1>2. seq \in Seq(Packet) /\ Len(seq) \in Nat
  <2>1. Collected(seq, next')
    BY CollectedInsert
  <2> QED BY <2>1 DEF Collected
<1>3. PICK m \in 1 .. Len(seq) + 1 :
        /\ Prune(seq) = From(seq, m)
        /\ TooFarApart(seq) => \A u \in Streams : FirstIndex(seq, u) < m
        /\ ~ TooFarApart(seq) => m = StartIndex(seq)
  BY <1>1, <1>2, PruneIs
<1>4. ASSUME TooFarApart(seq) PROVE \A i \in m .. Len(seq) : seq[i].stream # Video
  <2>1. m \in Nat /\ \A i \in m .. Len(seq) : i \in 1 .. Len(seq) /\ i >= m
    BY <1>2
  <2>2. VideoBefore(packets, next) /\ ~ Complete(packets)
    BY <1>1, <1>4 DEF Keyed
  <2>3. \A i \in 1 .. Len(seq) : i >= m => seq[i].stream # Video
    BY <1>1, <1>3, <1>4, <2>1, <2>2, FarCut
  <2> QED BY <2>1, <2>3
<1> HIDE DEF seq
<1> DEFINE new == Prune(seq)
<1>5. KeyFirst(new)
  <2>1. CASE TooFarApart(seq)
    BY <1>2, <1>3, <1>4, <2>1, KeyFirstFrom
  <2>2. CASE ~ TooFarApart(seq)
    BY <1>1, <1>2, <1>3, <2>2, KeyFirstStart
  <2> QED BY <2>1, <2>2
<1>6. new \in Seq(Packet) /\ VideoBefore(new, next')
  BY <1>1, <1>2, <1>3, FromIs, VideoBeforeFrom
<1>7. ASSUME Complete(new) PROVE ~ TooFarApart(seq)
  <2>1. Has(new, Video)
    BY <1>7, NumTracksType DEF Complete
  <2>2. PICK i \in 1 .. Len(new) : new[i].stream = Video
    BY <1>6, <2>1, Indices DEF Has
  <2>3. PICK j \in m .. Len(seq) : new[i] = seq[j]
    BY <1>2, <1>3, FromMembers
  <2> QED BY <1>4, <2>2, <2>3
<1>8. Kept(seq) = IF Ready(new) THEN From(new, StartIndex(new)) ELSE new
  BY DEF Kept
<1> HIDE DEF new
<1>9. CASE Ready(new)
  <2>1. Complete(new)
    BY <1>9 DEF Ready
  <2>2. StartIndex(new) \in 1 .. Len(new) + 1
    <3>1. StartIndex(new) \in 1 .. Len(new)
      BY <1>6, <2>1, StartIndexIs
    <3> QED BY <1>6, <3>1
  <2> QED BY <1>5, <1>6, <1>7, <1>8, <1>9, <2>1, <2>2, KeyFirstStart, VideoBeforeFrom DEF seq, new
<1>10. CASE ~ Ready(new)
  BY <1>5, <1>6, <1>7, <1>8, <1>10 DEF seq, new
<1> QED BY <1>9, <1>10

LEMMA KeyedStarts ==
  ASSUME Inv, NEW kept, Starts(kept), KeyFirst(kept), sent = << >>
  PROVE  KeyFirst(sent' \o packets')
<1> DEFINE sorted == Resort(Moved(kept))
<1>1. Collected(kept, next') /\ Complete(kept) /\ kept \in Seq(Packet) /\ origin \in Nat
  BY DEF Starts, Collected, Inv, TypeOK
<1>2. /\ sorted \in Seq(Packet) /\ Len(sorted) = Len(kept) /\ Len(kept) > 0
      /\ \A l \in 1 .. Len(kept) : \E i \in 1 .. Len(sorted) :
           sorted[i].stream = kept[l].stream /\ sorted[i].at = kept[l].at
      /\ \A i \in 1 .. Len(sorted) : \E l \in 1 .. Len(kept) :
           sorted[i].stream = kept[l].stream /\ sorted[i].at = kept[l].at /\ sorted[i].key = kept[l].key
  BY <1>1, SortedKept
<1>3. packets' = Tail(sorted) /\ sent' = Append(<< >>, Head(sorted))
  BY BeginIs DEF Starts
<1> HIDE DEF sorted
<1>4. sent' \o packets' = sorted
  BY <1>2, <1>3, HeadAndTail
<1>5. KeyFirst(sorted)
  BY <1>1, <1>2, KeyFirstSame
<1> QED BY <1>4, <1>5

LEMMA KeyedCollect ==
  ASSUME Inv, VideoSlower, Keyed, NEW s \in Streams, NEW key \in BOOLEAN, Collect(s, key)
  PROVE  Keyed'
<1> DEFINE seq == Insert(packets, Arrived(s, key))
           kept == Kept(seq)
<1>1. /\ ~ Started /\ Arrives(s, key) /\ sent = << >> /\ Collected(seq, next')
      /\ s = Video /\ ~ received_video => key
      /\ \/ /\ Waits(seq)
            /\ Complete(seq) => s = Video /\ ~ received_audio
         \/ Complete(seq) /\ Waits(kept) /\ ~ (Complete(kept) /\ Ready(Prune(seq)))
         \/ Complete(seq) /\ Ready(Prune(seq)) /\ Starts(kept)
      /\ received_video' \/ received_audio'
  BY CollectIs
<1>2. KeyFirst(seq) /\ VideoBefore(seq, next')
  BY <1>1, KeyedInsert
<1>3. Complete(seq) => /\ KeyFirst(kept) /\ VideoBefore(kept, next')
                       /\ Complete(kept) => ~ TooFarApart(seq) /\ Complete(Prune(seq))
  BY <1>1, KeyedKept
<1>4. ASSUME Complete(seq), s = Video, ~ received_audio PROVE ~ TooFarApart(seq)
  <2>1. /\ \A t \in Streams : Has(seq, t) <=> t = s \/ Has(packets, t)
        /\ packets \in Seq(Packet) /\ (received_video <=> Has(packets, Video))
    BY <1>1, CollectedInsert, NothingSent
  <2>2. \A t \in Tracks : Has(packets, t)
    BY <1>4, <2>1, LargestIs DEF Complete
  <2>3. AudioIndices(packets) # {}
    <3>1. Has(packets, NumTracks) /\ NumTracks # Video
      BY <2>2, NumTracksType
    <3> QED BY <2>1, <3>1 DEF Has, IndicesOf, AudioIndices
  <2>4. received_video
    BY <1>1, <1>4, <2>3 DEF Keyed
  <2>5. Complete(packets)
    BY <2>1, <2>2, <2>4 DEF Complete, Streams
  <2>6. ~ TooFarApart(packets)
    BY <1>1, <2>5 DEF Keyed
  <2> QED BY <1>1, <2>5, <2>6, FarInsert
<1>5. ASSUME Complete(seq), Complete(kept), ~ Ready(Prune(seq)) PROVE ~ TooFarApart(kept)
  <2>1. kept = Prune(seq)
    BY <1>5 DEF Kept
  <2>2. \A u \in Streams : next'[u] \in Nat
    BY <1>1, ArrivesIs DEF Inv
  <2> QED BY <1>1, <1>3, <1>5, <2>1, <2>2, FarKept
<1>6. ASSUME Complete(seq), Starts(kept) PROVE Keyed'
  <2>1. KeyFirst(sent' \o packets')
    BY <1>1, <1>3, <1>6, KeyedStarts
  <2>2. Started'
    BY <1>6 DEF Starts
  <2> QED BY <2>1, <2>2 DEF Keyed
<1> HIDE DEF seq, kept
<1>7. ASSUME NEW list, Waits(list), KeyFirst(list), VideoBefore(list, next'),
             Complete(list) => ~ TooFarApart(list)
      PROVE  Keyed'
  <2>1. packets' = list /\ ~ Started'
    BY <1>7 DEF Waits
  <2> QED BY <1>1, <1>7, <2>1 DEF Keyed
<1>8. CASE Waits(seq) /\ (Complete(seq) => s = Video /\ ~ received_audio)
  BY <1>2, <1>4, <1>7, <1>8
<1>9. CASE Complete(seq) /\ Waits(kept) /\ ~ (Complete(kept) /\ Ready(Prune(seq)))
  BY <1>3, <1>5, <1>7, <1>9
<1> QED BY <1>1, <1>6, <1>8, <1>9

LEMMA KeyedStep == Inv /\ VideoSlower /\ Keyed /\ [Next]_vars => Keyed'
<1> SUFFICES ASSUME Inv, VideoSlower, Keyed, [Next]_vars PROVE Keyed'
  OBVIOUS
<1>1. ASSUME NEW list \in Seq(Packet), packets' = list, ~ Started', ~ Has(list, Video),
             received_audio' \/ AudioIndices(list) = {}
      PROVE  Keyed'
  <2>1. \A i \in 1 .. Len(list) : list[i].stream # Video
    BY <1>1, Indices DEF Has
  <2>2. KeyFirst(list) /\ VideoBefore(list, next')
    BY <2>1 DEF KeyFirst, VideoBefore
  <2>3. ~ Complete(list)
    BY <1>1, NumTracksType DEF Complete
  <2> QED BY <1>1, <2>2, <2>3 DEF Keyed
<1>2. << >> \in Seq(Packet) /\ ~ Has(<< >>, Video) /\ AudioIndices(<< >>) = {}
  BY DEF Has, IndicesOf, AudioIndices
<1>3. CASE Restart
  <2>1. packets' = << >> /\ received_video' = FALSE
    BY <1>3 DEF Restart, ResetPackets
  <2> QED BY <1>1, <1>2, <2>1 DEF Started
<1>4. CASE Discard
  <2>1. /\ ~ received_video /\ Arrives(Video, FALSE) /\ UNCHANGED flags /\ ~ Started /\ ~ Started'
        /\ received_audio' = received_audio
    BY <1>4 DEF Discard, Started, flags
  <2>2. packets \in Seq(Packet) /\ ~ Has(packets, Video)
    BY <2>1, NothingSent
  <2>3. packets' = << >> \/ \E m \in 1 .. Len(packets) + 1 : packets' = From(packets, m)
    <3> DEFINE p == Arrived(Video, FALSE)
               kept == {i \in DOMAIN packets : packets[i].ts >= p.ts}
    <3>1. packets' = IF kept = {} THEN << >> ELSE From(packets, Min(kept))
      BY <1>4 DEF Discard
    <3> HIDE DEF p
    <3>2. kept \in SUBSET (1 .. Len(packets)) /\ kept \in SUBSET Nat
      <4>1. DOMAIN packets = 1 .. Len(packets) /\ Len(packets) \in Nat
        BY <2>2
      <4>2. kept \subseteq DOMAIN packets
        OBVIOUS
      <4> QED BY <4>1, <4>2
    <3> HIDE DEF kept
    <3>3. ASSUME kept # {} PROVE Min(kept) \in 1 .. Len(packets) + 1
      <4>1. Min(kept) \in 1 .. Len(packets)
        BY <3>2, <3>3, LeastIn
      <4> QED BY <2>2, <4>1
    <3> QED BY <3>1, <3>3
  <2>4. received_audio \/ AudioIndices(packets) = {}
    BY <2>1 DEF Keyed
  <2>5. ASSUME NEW m \in 1 .. Len(packets) + 1, packets' = From(packets, m) PROVE Keyed'
    <3> DEFINE list == From(packets, m)
    <3>1. list \in Seq(Packet)
      BY <2>2, FromIs
    <3>2. \A i \in 1 .. Len(list) : \E j \in 1 .. Len(packets) : list[i] = packets[j]
      <4>1. m .. Len(packets) \subseteq 1 .. Len(packets)
        BY <2>2
      <4> QED BY <2>2, <4>1, FromMembers
    <3> HIDE DEF list
    <3>3. ~ Has(list, Video)
      BY <2>2, <3>1, <3>2, Indices DEF Has
    <3>4. AudioIndices(packets) = {} => AudioIndices(list) = {}
      <4>1. DOMAIN packets = 1 .. Len(packets) /\ DOMAIN list = 1 .. Len(list)
        BY <2>2, <3>1
      <4> QED BY <3>2, <4>1 DEF AudioIndices
    <3> QED BY <1>1, <2>1, <2>4, <2>5, <3>1, <3>3, <3>4 DEF list
  <2> QED BY <1>1, <1>2, <2>1, <2>3, <2>5
<1>5. ASSUME NEW s \in Streams, NEW key \in BOOLEAN, Collect(s, key) PROVE Keyed'
  BY <1>5, KeyedCollect
<1>6. ASSUME NEW s \in Streams, NEW key \in BOOLEAN, Interleave(s, key) PROVE Keyed'
  <2>1. Started
    BY <1>6 DEF Interleave
  <2>2. Started' /\ KeyFirst(sent' \o packets')
    BY <1>6, <2>1, KeyFirstInterleave DEF Keyed
  <2> QED BY <2>2 DEF Keyed
<1>7. CASE UNCHANGED vars
  BY <1>7 DEF vars, Keyed, Started
<1> QED BY <1>3, <1>4, <1>5, <1>6, <1>7 DEF Next

(* With encoders of which the video is never ahead of the audio, what is    *)
(* sent begins for the video with a keyframe: neither discarding, pruning   *)
(* nor the choice of a starting point separates a delta frame from its      *)
(* keyframe.                                                                *)
THEOREM KeyframeFirst == VideoSlower => (Spec => []StartsOnKeyframe)
<1>1. Init => Keyed
  <2> SUFFICES ASSUME Init PROVE Keyed
    OBVIOUS
  <2>1. packets = << >> /\ ~ Started
    BY DEF Init, Started
  <2>2. KeyFirst(<< >>) /\ VideoBefore(<< >>, next) /\ ~ Complete(<< >>) /\ AudioIndices(<< >>) = {}
    BY NumTracksType DEF KeyFirst, VideoBefore, Complete, Has, IndicesOf, AudioIndices
  <2> QED BY <2>1, <2>2 DEF Keyed
<1>2. VideoSlower => VideoSlower'
  BY DEF VideoSlower
<1>3. Inv /\ Keyed => StartsOnKeyframe
  BY KeyFirstSent DEF Keyed
<1> QED BY <1>1, <1>2, <1>3, AlwaysInv, KeyedStep, PTL DEF Spec

-----------------------------------------------------------------------------
(* New encoders, as obs-lite gives each output: all streams begin together. *)

NewEncoders == MaxAge = 0

(* The packets with which the streams began *)
OpenedBy(list, s, from) == \E i \in 1 .. Len(list) : list[i].stream = s /\ list[i].at = from
Whole(list) == \A s \in Streams : OpenedBy(list, s, origin)
Opened(list, nx, from) == \A s \in Streams : nx[s] > from => OpenedBy(list, s, from)

Anew ==
  /\ next[Video] = origin => gop = 0
  /\ ~ Started => KeyFirst(packets) /\ Opened(packets, next, origin)
  /\ Started => KeyFirst(sent \o packets) /\ \A t \in Tracks : audio_offsets[t] = 0

(* None of them is cut when the output starts. *)
LEMMA WholeCut ==
  ASSUME NEW list, NEW nx, Collected(list, nx), Complete(list), Whole(list), Late(list), origin \in Nat
  PROVE  /\ ~ TooFarApart(list)
         /\ \A s \in Streams : FirstOf(list, s).at = origin
         /\ Whole(From(list, StartIndex(list)))
<1>1. list \in Seq(Packet) /\ Len(list) \in Nat /\ DOMAIN list = 1 .. Len(list) /\ Boot \in Nat
  BY TimesAssumption DEF Collected
<1>2. ASSUME NEW s \in Streams
      PROVE  /\ FirstIndex(list, s) \in 1 .. Len(list) /\ FirstOf(list, s) = list[FirstIndex(list, s)]
             /\ FirstOf(list, s).stream = s /\ FirstOf(list, s).at = origin
             /\ FirstOf(list, s).ts = Boot + origin
  <2>1. Has(list, s)
    BY DEF Complete
  <2>2. /\ FirstIndex(list, s) \in 1 .. Len(list) /\ FirstOf(list, s) = list[FirstIndex(list, s)]
        /\ FirstOf(list, s).stream = s /\ FirstOf(list, s).at \in Nat
        /\ FirstOf(list, s).ts = Boot + FirstOf(list, s).at
        /\ \A i \in 1 .. Len(list) : list[i].stream = s => FirstOf(list, s).at <= list[i].at
    BY <2>1, FirstLeast
  <2>3. FirstOf(list, s).at <= origin
    BY <2>2 DEF Whole, OpenedBy
  <2>4. FirstOf(list, s).at >= origin
    BY <1>1, <2>2 DEF Late
  <2>5. FirstOf(list, s).at = origin
    BY <2>2, <2>3, <2>4
  <2> QED BY <2>2, <2>5
<1>3. ~ TooFarApart(list)
  <2>1. FirstOf(list, NumTracks).ts = Boot + origin /\ FirstOf(list, Video).ts = Boot + origin
    BY <1>2, NumTracksType
  <2>2. SyncLimit \in Nat
    BY LargestIs
  <2> QED BY <1>1, <2>1, <2>2 DEF TooFarApart
<1> DEFINE m == StartIndex(list)
<1>4. m \in 1 .. Len(list) /\ m <= FirstIndex(list, Video) /\ m <= ClosestAudio(list)
  BY <1>1, StartIndexIs
<1>5. ASSUME NEW s \in Streams PROVE m <= FirstIndex(list, s)
  <2>1. CASE s = Video
    BY <1>4, <2>1
  <2>2. CASE s # Video
    <3> DEFINE i == FirstIndex(list, s)
               c == ClosestAudio(list)
               v == FirstOf(list, Video).ts
    <3>1. i \in 1 .. Len(list) /\ list[i].stream = s /\ list[i].ts = v /\ v \in Nat
      BY <1>1, <1>2, NumTracksType
    <3>2. i \in AudioIndices(list) /\ c \in AudioIndices(list) /\ c \in 1 .. Len(list)
          /\ Distance(list[c].ts, v) <= Distance(list[i].ts, v)
          /\ (Distance(list[i].ts, v) = Distance(list[c].ts, v) => c <= i)
      <4>1. i \in AudioIndices(list)
        BY <1>1, <2>2, <3>1 DEF AudioIndices
      <4>2. AudioIndices(list) \subseteq 1 .. Len(list)
        BY <1>1, AudioOf
      <4> HIDE DEF i
      <4> QED BY <1>1, <4>1, <4>2, ClosestIs
    <3> HIDE DEF i, c, v
    <3>3. Distance(list[i].ts, v) = 0 /\ Distance(list[c].ts, v) \in Nat
      <4>1. list[c] \in Packet
        BY <1>1, <3>2
      <4>2. list[c].ts \in Int
        BY <4>1, PacketFields
      <4> QED BY <3>1, <4>2, DistanceType DEF Distance
    <3>4. c <= i
      BY <3>2, <3>3
    <3>5. m <= c
      BY <1>4 DEF c
    <3>6. m \in Nat /\ c \in Nat /\ i \in Nat
      BY <1>4, <3>1, <3>2
    <3>7. m <= i
      <4> HIDE DEF m
      <4> QED BY <3>4, <3>5, <3>6
    <3> QED BY <3>7 DEF i
  <2> QED BY <2>1, <2>2
<1>6. Whole(From(list, m))
  <2> SUFFICES ASSUME NEW s \in Streams
               PROVE  \E i \in 1 .. Len(From(list, m)) :
                        From(list, m)[i].stream = s /\ From(list, m)[i].at = origin
    BY DEF Whole, OpenedBy
  <2> DEFINE f == FirstIndex(list, s)
  <2>1. f \in 1 .. Len(list) /\ list[f].stream = s /\ list[f].at = origin /\ m <= f
    BY <1>2, <1>5
  <2> HIDE DEF f, m
  <2>2. m \in 1 .. Len(list) + 1 /\ m \in 1 .. Len(list)
    BY <1>4 DEF m
  <2>3. Len(From(list, m)) = Len(list) - m + 1
        /\ \A i \in 1 .. Len(list) - m + 1 : From(list, m)[i] = list[m - 1 + i]
    BY <1>1, <2>2, FromIs
  <2>4. f - m + 1 \in 1 .. Len(list) - m + 1 /\ m - 1 + (f - m + 1) = f
    BY <1>1, <2>1, <2>2
  <2>5. From(list, m)[f - m + 1] = list[f]
    BY <2>3, <2>4
  <2> QED BY <2>1, <2>3, <2>4, <2>5
<1> QED BY <1>2, <1>3, <1>6

LEMMA WholeKept ==
  ASSUME NEW list, NEW nx, Collected(list, nx), Complete(list), Whole(list), Late(list), origin \in Nat,
         KeyFirst(list)
  PROVE  Whole(Kept(list)) /\ KeyFirst(Kept(list)) /\ Late(Kept(list))
<1> DEFINE new == Prune(list)
<1>1. list \in Seq(Packet)
  BY DEF Collected
<1>2. new = From(list, StartIndex(list)) /\ Whole(new)
  BY WholeCut DEF Prune
<1>3. KeyFirst(new) /\ Late(new) /\ Late(Kept(list)) /\ Collected(new, nx)
  BY <1>1, <1>2, KeyFirstStart, LateKept, KeptIs
<1>4. Kept(list) = IF Ready(new) THEN From(new, StartIndex(new)) ELSE new
  BY DEF Kept
<1> HIDE DEF new
<1>5. CASE Ready(new)
  <2>1. Complete(new) /\ new \in Seq(Packet)
    BY <1>3, <1>5 DEF Ready, Collected
  <2>2. Whole(From(new, StartIndex(new))) /\ KeyFirst(From(new, StartIndex(new)))
    BY <1>2, <1>3, <2>1, WholeCut, KeyFirstStart
  <2> QED BY <1>3, <1>4, <1>5, <2>2
<1>6. CASE ~ Ready(new)
  BY <1>2, <1>3, <1>4, <1>6
<1> QED BY <1>5, <1>6

LEMMA AnewInsert ==
  ASSUME Inv, Recent, Anew, ~ Started, NEW s \in Streams, NEW key \in BOOLEAN, Arrives(s, key)
  PROVE  LET seq == Insert(packets, Arrived(s, key))
         IN Opened(seq, next', origin) /\ (Complete(seq) => Whole(seq))
<1> DEFINE p == Arrived(s, key)
           seq == Insert(packets, p)
<1>1. /\ p \in Packet /\ p.stream = s /\ p.at = next[s]
      /\ \A t \in Streams : next'[t] = IF t = s THEN next[t] + Frame(t) ELSE next[t]
  BY ArrivesIs DEF Inv
<1>2. /\ origin \in Nat /\ \A t \in Streams : next[t] \in Nat /\ next[t] >= origin /\ next'[t] \in Nat
      /\ Opened(packets, next, origin)
  <2>1. next' \in [Streams -> Nat]
    BY ArrivesIs DEF Inv
  <2> QED BY <2>1 DEF Recent, Anew, Inv, TypeOK
<1>3. Collected(seq, next') /\ Late(seq)
  BY CollectedInsert, RecentInsert
<1> HIDE DEF p
<1>4. p \in Packet /\ packets \in Seq(Packet)
  BY <1>1 DEF Inv, TypeOK
<1>5. /\ \E i \in 1 .. Len(seq) : seq[i] = p
      /\ \A j \in 1 .. Len(packets) : \E i \in 1 .. Len(seq) : seq[i] = packets[j]
  BY <1>4, InsertMembers
<1> HIDE DEF seq
<1>6. ASSUME NEW u \in Streams, next'[u] > origin PROVE OpenedBy(seq, u, origin)
  <2>1. CASE next[u] > origin
    <3>1. PICK j \in 1 .. Len(packets) : packets[j].stream = u /\ packets[j].at = origin
      BY <1>2, <2>1 DEF Opened, OpenedBy
    <3>2. PICK i \in 1 .. Len(seq) : seq[i] = packets[j]
      BY <1>5
    <3> QED BY <3>1, <3>2 DEF OpenedBy
  <2>2. CASE ~ (next[u] > origin)
    <3>1. next[u] = origin /\ u = s
      BY <1>1, <1>2, <1>6, <2>2
    <3>2. p.stream = u /\ p.at = origin
      BY <1>1, <3>1
    <3> QED BY <1>5, <3>2 DEF OpenedBy
  <2> QED BY <2>1, <2>2
<1>7. Opened(seq, next', origin)
  BY <1>6 DEF Opened
<1>8. ASSUME Complete(seq), NEW u \in Streams PROVE OpenedBy(seq, u, origin)
  <2>1. seq \in Seq(Packet) /\ DOMAIN seq = 1 .. Len(seq)
    BY <1>3 DEF Collected
  <2>2. PICK i \in 1 .. Len(seq) : i \in IndicesOf(seq, u)
    BY <1>8, <2>1, Indices DEF Complete, Has
  <2>3. seq[i].at + Frame(u) <= next'[u]
    BY <1>3, <2>2 DEF Collected, Line
  <2>4. seq[i].at >= origin /\ seq[i].at \in Nat /\ Frame(u) \in Nat /\ Frame(u) > 0
    BY <1>3, <2>1, AtOrdered, FrameType DEF Late
  <2>5. next'[u] > origin
    BY <1>2, <2>3, <2>4
  <2> QED BY <1>6, <2>5
<1>9. Complete(seq) => Whole(seq)
  BY <1>8 DEF Whole
<1> QED BY <1>7, <1>9 DEF seq, p

(* Only the first packet of the video encoder leaves gop at zero. *)
LEMMA AnewArrives ==
  ASSUME Inv, Recent, Anew, NEW s \in Streams, NEW key \in BOOLEAN, Arrives(s, key)
  PROVE  next'[Video] = origin => gop' = 0
<1>1. next'[Video] = IF Video = s THEN next[Video] + Frame(Video) ELSE next[Video]
  BY ArrivesIs, NumTracksType DEF Inv
<1>2. next[Video] \in Nat /\ next[Video] >= origin /\ origin \in Nat /\ Frame(Video) \in Nat /\ Frame(Video) > 0
  BY FrameType, NumTracksType DEF Inv, TypeOK, Recent
<1>3. CASE s = Video
  BY <1>1, <1>2, <1>3
<1>4. CASE s # Video
  <2>1. gop' = gop
    BY <1>4 DEF Arrives
  <2> QED BY <1>1, <1>4, <2>1 DEF Anew
<1> QED BY <1>3, <1>4

LEMMA AnewCollect ==
  ASSUME Inv, Recent, Anew, NEW s \in Streams, NEW key \in BOOLEAN, Collect(s, key)
  PROVE  Anew'
<1> DEFINE seq == Insert(packets, Arrived(s, key))
           kept == Kept(seq)
<1>1. /\ ~ Started /\ Arrives(s, key) /\ sent = << >> /\ Collected(seq, next')
      /\ s = Video /\ ~ received_video => key
      /\ \/ Waits(seq)
         \/ Complete(seq) /\ Waits(kept)
         \/ Complete(seq) /\ Starts(kept)
      /\ origin' = origin
  BY CollectIs DEF Waits, Starts
<1>2. KeyFirst(seq)
  BY <1>1, KeyFirstInsert DEF Anew
<1>3. Opened(seq, next', origin) /\ (Complete(seq) => Whole(seq)) /\ origin \in Nat
  BY <1>1, AnewInsert DEF Inv, TypeOK
<1>4. Late(seq)
  BY <1>1, RecentInsert
<1>5. Complete(seq) => Whole(kept) /\ KeyFirst(kept) /\ Late(kept)
  BY <1>1, <1>2, <1>3, <1>4, WholeKept
<1>6. next'[Video] = origin' => gop' = 0
  BY <1>1, AnewArrives
<1> HIDE DEF seq, kept
<1>7. ASSUME NEW list, Waits(list), KeyFirst(list), Opened(list, next', origin) PROVE Anew'
  <2>1. packets' = list /\ ~ Started'
    BY <1>7 DEF Waits
  <2> QED BY <1>1, <1>6, <1>7, <2>1 DEF Anew
<1>8. ASSUME Complete(seq), Starts(kept) PROVE Anew'
  <2>1. KeyFirst(sent' \o packets') /\ Started'
    BY <1>1, <1>5, <1>8, KeyedStarts DEF Starts
  <2>2. audio_offsets' = AudioOffsetsFrom(kept) /\ Complete(kept) /\ Collected(kept, next')
    BY <1>8, BeginIs DEF Starts
  <2>3. \A t \in Streams : FirstOf(kept, t).at = origin
    BY <1>3, <1>5, <1>8, <2>2, WholeCut
  <2>4. ASSUME NEW t \in Tracks PROVE audio_offsets'[t] = 0
    <3>1. t \in Streams /\ t # Video /\ Has(kept, t)
      BY <2>2, LargestIs DEF Complete
    <3>2. FirstIndex(kept, t) \in 1 .. Len(kept) /\ FirstOf(kept, t) = kept[FirstIndex(kept, t)]
          /\ FirstOf(kept, t).stream = t
      BY <2>2, <3>1, FirstLeast
    <3>3. FirstOf(kept, t).dts = origin - origin - Priming
      BY <2>2, <2>3, <3>1, <3>2, AtOrdered DEF Lag
    <3>4. ~ (FirstOf(kept, t).dts > 0)
      BY <1>3, <3>3, FramesAssumption
    <3> QED BY <2>2, <3>4 DEF AudioOffsetsFrom, AudioOffset
  <2> QED BY <1>6, <2>1, <2>4 DEF Anew
<1>9. CASE Complete(seq) /\ Waits(kept)
  BY <1>5, <1>7, <1>9 DEF Whole, Opened
<1> QED BY <1>1, <1>2, <1>3, <1>7, <1>8, <1>9

LEMMA NewBegins == NewEncoders => \A b \in Begins, s \in Streams : b[s] = 0
BY DEF NewEncoders, Begins

LEMMA AnewStep == NewEncoders /\ Inv /\ Recent /\ Anew /\ [Next]_vars => Anew'
<1> SUFFICES ASSUME NewEncoders, Inv, Recent, Anew, [Next]_vars PROVE Anew'
  OBVIOUS
<1>1. CASE Restart
  <2>1. packets' = << >> /\ gop' = 0 /\ ~ Started'
    BY <1>1 DEF Restart, ResetPackets, Started
  <2>2. PICK b \in Begins : next' = [s \in Streams |-> origin' + b[s]]
    BY <1>1 DEF Restart
  <2>3. origin' \in Nat
    BY <1>1, RestartInv DEF Inv, TypeOK
  <2>4. \A s \in Streams : ~ (next'[s] > origin')
    BY <2>2, <2>3, NewBegins
  <2>5. KeyFirst(<< >>) /\ Opened(<< >>, next', origin')
    BY <2>4 DEF KeyFirst, Opened
  <2> QED BY <2>1, <2>5 DEF Anew
<1>2. CASE Discard
  <2>1. ~ received_video /\ ~ Started /\ Arrives(Video, FALSE)
    BY <1>2 DEF Discard, Started
  <2>2. packets \in Seq(Packet) /\ ~ Has(packets, Video)
    BY <2>1, NothingSent
  <2>3. ~ (next[Video] > origin)
    <3>1. ~ OpenedBy(packets, Video, origin)
      BY <2>2, Indices DEF Has, OpenedBy
    <3> QED BY <2>1, <3>1, NumTracksType DEF Anew, Opened
  <2>4. next[Video] = origin
    <3>1. next[Video] \in Nat /\ origin \in Nat /\ next[Video] >= origin
      BY NumTracksType DEF Inv, TypeOK, Recent
    <3> QED BY <2>3, <3>1
  <2>5. gop = 0
    BY <2>4 DEF Anew
  <2> QED BY <2>1, <2>5 DEF Arrives
<1>3. ASSUME NEW s \in Streams, NEW key \in BOOLEAN, Collect(s, key) PROVE Anew'
  BY <1>3, AnewCollect
<1>4. ASSUME NEW s \in Streams, NEW key \in BOOLEAN, Interleave(s, key) PROVE Anew'
  <2>1. Started /\ Arrives(s, key) /\ origin' = origin /\ audio_offsets' = audio_offsets
    BY <1>4 DEF Interleave, offsets
  <2>2. Started' /\ KeyFirst(sent' \o packets')
    BY <1>4, <2>1, KeyFirstInterleave DEF Anew
  <2>3. next'[Video] = origin' => gop' = 0
    BY <2>1, AnewArrives
  <2> QED BY <2>1, <2>2, <2>3 DEF Anew
<1>5. CASE UNCHANGED vars
  BY <1>5 DEF vars, Anew, Started
<1> QED BY <1>1, <1>2, <1>3, <1>4, <1>5 DEF Next

LEMMA AnewInit == NewEncoders /\ Init => Anew
<1> SUFFICES ASSUME NewEncoders, Init PROVE Anew
  OBVIOUS
<1>1. packets = << >> /\ ~ Started /\ gop = 0 /\ origin = 0
  BY DEF Init, Started
<1>2. \A s \in Streams : next[s] = 0
  BY NewBegins DEF Init
<1>3. KeyFirst(<< >>) /\ Opened(<< >>, next, origin)
  BY <1>1, <1>2 DEF KeyFirst, Opened
<1> QED BY <1>1, <1>3 DEF Anew

LEMMA AlwaysAnew == NewEncoders => (Spec => []Anew)
<1>1. NewEncoders => NewEncoders'
  BY DEF NewEncoders
<1> QED BY <1>1, AlwaysInv, RecentInit, RecentStep, AnewInit, AnewStep, PTL DEF Spec

(* With encoders of its own, as obs-lite gives each output, an output is    *)
(* given its packets in the order of their timestamps, whatever the delays: *)
(* the tracks begin with the same offset.                                   *)
THEOREM OrderNew == NewEncoders => (Spec => []SentInOrder)
<1>1. Anew => EqualOffsets
  BY DEF Anew, EqualOffsets
<1> QED BY <1>1, AlwaysAnew, OrderTogether, PTL

(* And its video begins with the keyframe the encoder began with.           *)
THEOREM KeyframeNew == NewEncoders => (Spec => []StartsOnKeyframe)
<1>1. Inv /\ Anew => StartsOnKeyframe
  BY KeyFirstSent DEF Anew
<1> QED BY <1>1, AlwaysAnew, AlwaysInv, PTL
=============================================================================
