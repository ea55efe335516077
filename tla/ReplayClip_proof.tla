-------------------------- MODULE ReplayClip_proof --------------------------
(***************************************************************************)
(* Facts about the clip of a replay save (ReplayClip), for every ring.     *)
(***************************************************************************)
EXTENDS ReplayClip, Sums_proof, FiniteSetTheorems

-----------------------------------------------------------------------------
(* Every stream that appears in the ring has a first packet there, which    *)
(* gives the stream its offset.                                             *)
LEMMA FirstOfType ==
  ASSUME NEW seq \in Seq(Packet), NEW n \in DOMAIN seq
  PROVE  /\ FirstOf(seq, seq[n].stream) \in Packet
         /\ Offset(seq, seq[n].stream) \in Int
<1> DEFINE T == {i \in DOMAIN seq : seq[i].stream = seq[n].stream}
           IsFirst(i) == /\ seq[i].stream = seq[n].stream
                         /\ \A j \in 1 .. i - 1 : seq[j].stream # seq[n].stream
<1>1. T \in SUBSET Nat /\ T # {}
  OBVIOUS
<1>2. PICK m \in T : \A j \in T : m <= j
  BY <1>1, LeastElement
<1>3. m \in DOMAIN seq /\ IsFirst(m)
  BY <1>2
<1>4. FirstOf(seq, seq[n].stream) \in Packet
  BY <1>3 DEF FirstOf
<1>5. Pts(FirstOf(seq, seq[n].stream)) \in Int
  BY <1>4, PtsLagAssumption DEF Pts, Packet
<1> QED BY <1>4, <1>5 DEF Offset

-----------------------------------------------------------------------------
(* The list to sort: what is held, then the ring, packet by packet. *)
LEMMA RebasedType ==
  ASSUME NEW held \in Seq(ClipPacket), NEW seq \in Seq(Packet)
  PROVE  /\ Rebased(held, seq) \in Seq(ClipPacket)
         /\ Len(Rebased(held, seq)) = Len(held) + Len(seq)
<1> DEFINE offset == [s \in {seq[i].stream : i \in DOMAIN seq} |-> Offset(seq, s)]
           moved == [i \in DOMAIN seq |-> [seq[i] EXCEPT !.dts = @ - offset[seq[i].stream]]]
<1>1. ASSUME NEW i \in DOMAIN seq
      PROVE  [seq[i] EXCEPT !.dts = @ - offset[seq[i].stream]] \in ClipPacket
  <2>1. offset[seq[i].stream] \in Int
    BY FirstOfType
  <2>2. seq[i] \in Packet
    OBVIOUS
  <2>3. ASSUME NEW p \in Packet, NEW d \in Int
        PROVE  [p EXCEPT !.dts = @ - d] \in ClipPacket
    <3>1. p.dts - d \in Int
      BY DEF Packet
    <3> QED BY <3>1 DEF Packet, ClipPacket
  <2> HIDE DEF offset, moved
  <2> QED BY <2>1, <2>2, <2>3
<1>2. moved \in Seq(ClipPacket) /\ Len(moved) = Len(seq)
  <2>1. DOMAIN seq = 1 .. Len(seq) /\ Len(seq) \in Nat
    OBVIOUS
  <2>2. moved \in [1 .. Len(seq) -> ClipPacket]
    BY <1>1, <2>1
  <2> HIDE DEF moved
  <2> QED BY <2>1, <2>2
<1>3. Rebased(held, seq) = held \o moved
  BY DEF Rebased
<1>4. held \o moved \in Seq(ClipPacket) /\ Len(held \o moved) = Len(held) + Len(moved)
  <2> HIDE DEF moved
  <2> QED BY <1>2, ConcatProperties
<1> QED
  <2> HIDE DEF moved
  <2> QED BY <1>2, <1>3, <1>4

(* GoesBefore is a strict total order of the positions of the list, whatever*)
(* the timestamps: ties are broken by age.                                  *)
LEMMA GoesBeforeTotal ==
  ASSUME NEW all \in Seq(ClipPacket), NEW old \in Nat,
         NEW i \in DOMAIN all, NEW j \in DOMAIN all, NEW k \in DOMAIN all
  PROVE  /\ ~ GoesBefore(all, old, i, i)
         /\ i # j => GoesBefore(all, old, i, j) \/ GoesBefore(all, old, j, i)
         /\ GoesBefore(all, old, i, j) /\ GoesBefore(all, old, j, k) => GoesBefore(all, old, i, k)
<1>1. all[i].dts \in Int /\ all[j].dts \in Int /\ all[k].dts \in Int
  <2>1. all[i] \in ClipPacket /\ all[j] \in ClipPacket /\ all[k] \in ClipPacket
    OBVIOUS
  <2> QED BY <2>1 DEF ClipPacket
<1>2. i \in Nat /\ j \in Nat /\ k \in Nat
  OBVIOUS
<1> QED BY <1>1, <1>2 DEF GoesBefore

(* The place of a packet counts the packets that go before it, so it is a   *)
(* position of the list, and the places are ordered as the packets are.     *)
LEMMA PlaceIsPosition ==
  ASSUME NEW all \in Seq(ClipPacket), NEW old \in Nat, NEW j \in DOMAIN all
  PROVE  /\ IsFiniteSet({i \in DOMAIN all : GoesBefore(all, old, i, j)})
         /\ Place(all, old, j) \in DOMAIN all
<1> DEFINE D == DOMAIN all
           Front == {i \in D : GoesBefore(all, old, i, j)}
<1>1. D = 1 .. Len(all) /\ Len(all) \in Nat
  OBVIOUS
<1>2. IsFiniteSet(D) /\ Cardinality(D) = Len(all)
  <2>1. /\ IsFiniteSet(1 .. Len(all))
        /\ Cardinality(1 .. Len(all)) = IF 1 > Len(all) THEN 0 ELSE Len(all) - 1 + 1
    BY <1>1, FS_Interval
  <2> QED BY <1>1, <2>1
<1>3. j \notin Front
  BY GoesBeforeTotal
<1>4. IsFiniteSet(Front) /\ Cardinality(Front) \in Nat /\ Cardinality(Front) <= Len(all)
  BY <1>2, FS_Subset, FS_CardinalityType
<1>5. Cardinality(Front) # Len(all)
  BY <1>2, <1>3, FS_Subset
<1>6. Place(all, old, j) = 1 + Cardinality(Front)
  BY DEF Place
<1>7. Place(all, old, j) \in D
  <2> HIDE DEF Front
  <2> QED BY <1>1, <1>4, <1>5, <1>6
<1> QED BY <1>4, <1>7

(* A packet that goes before another has the smaller place. *)
LEMMA PlaceOrder ==
  ASSUME NEW all \in Seq(ClipPacket), NEW old \in Nat,
         NEW i \in DOMAIN all, NEW j \in DOMAIN all, GoesBefore(all, old, i, j)
  PROVE  Place(all, old, i) < Place(all, old, j)
<1> DEFINE Front(x) == {y \in DOMAIN all : GoesBefore(all, old, y, x)}
<1>1. Front(i) \subseteq Front(j)
  BY GoesBeforeTotal
<1>2. Front(i) # Front(j)
  <2>1. i \in Front(j) /\ i \notin Front(i)
    BY GoesBeforeTotal
  <2> QED BY <2>1
<1>3. IsFiniteSet(Front(i)) /\ IsFiniteSet(Front(j))
  BY PlaceIsPosition
<1>4. Cardinality(Front(i)) \in Nat /\ Cardinality(Front(j)) \in Nat
  BY <1>3, FS_CardinalityType
<1>5. Cardinality(Front(i)) < Cardinality(Front(j))
  <2>1. /\ Cardinality(Front(i)) <= Cardinality(Front(j))
        /\ Cardinality(Front(j)) = Cardinality(Front(i)) => Front(j) = Front(i)
    <3> HIDE DEF Front
    <3> QED BY <1>1, <1>3, FS_Subset
  <2> HIDE DEF Front
  <2> QED BY <2>1, <1>2, <1>4
<1>6. /\ Place(all, old, i) = 1 + Cardinality(Front(i))
      /\ Place(all, old, j) = 1 + Cardinality(Front(j))
  BY DEF Place
<1> HIDE DEF Front
<1> QED BY <1>4, <1>5, <1>6

(* What replay_buffer_save() leaves in mux_packets is a permutation of what *)
(* it held and the rebased ring, no packet lost and none doubled, sorted by *)
(* timestamp.                                                               *)
THEOREM ClipSortsRing ==
  ASSUME NEW held \in Seq(ClipPacket), NEW seq \in Seq(Packet)
  PROVE  LET clip == Clip(held, seq)
             D == 1 .. Len(clip)
         IN /\ clip \in Seq(ClipPacket)
            /\ Len(clip) = Len(held) + Len(seq)
            /\ \E from \in Bijection(D, D) : \A k \in D : clip[k] = Rebased(held, seq)[from[k]]
            /\ \A k, l \in D : k < l => clip[k].dts <= clip[l].dts
<1> DEFINE all == Rebased(held, seq)
           old == Len(held)
           D == DOMAIN all
           place == [j \in D |-> Place(all, old, j)]
           from == [k \in D |-> CHOOSE j \in D : place[j] = k]
<1>1. all \in Seq(ClipPacket) /\ Len(all) = Len(held) + Len(seq) /\ old \in Nat
  BY RebasedType
<1>2. D = 1 .. Len(all) /\ Len(all) \in Nat /\ IsFiniteSet(D)
  <2>1. D = 1 .. Len(all) /\ Len(all) \in Nat
    BY <1>1
  <2> QED BY <2>1, FS_Interval
<1>3. Clip(held, seq) = [k \in D |-> all[from[k]]]
  BY DEF Clip
<1> HIDE DEF all, old
<1>4. place \in [D -> D]
  BY <1>1, PlaceIsPosition
<1>5. \A i, j \in D : i # j => place[i] # place[j]
  <2> SUFFICES ASSUME NEW i \in D, NEW j \in D, i # j PROVE place[i] # place[j]
    OBVIOUS
  <2>1. place[i] \in Int /\ place[j] \in Int
    <3> HIDE DEF place
    <3> QED BY <1>2, <1>4
  <2>2. place[i] < place[j] \/ place[j] < place[i]
    BY <1>1, GoesBeforeTotal, PlaceOrder
  <2> HIDE DEF place
  <2> QED BY <2>1, <2>2
<1>6. place \in Injection(D, D)
  <2> HIDE DEF place
  <2> QED BY <1>4, <1>5 DEF Injection, IsInjective
<1>7. place \in Surjection(D, D)
  <2> HIDE DEF place, D
  <2> QED BY <1>2, <1>6, FS_Injection
<1>8. \A k \in D : from[k] \in D /\ place[from[k]] = k
  <2> HIDE DEF place, D
  <2> QED BY <1>7 DEF Surjection
<1> HIDE DEF place, from
<1>9. from \in Bijection(D, D)
  <2>1. from \in [D -> D]
    BY <1>8 DEF from
  <2>2. \A k, l \in D : k # l => from[k] # from[l]
    BY <1>8
  <2>3. \A j \in D : \E k \in D : from[k] = j
    BY <1>4, <1>5, <1>8
  <2> QED BY <2>1, <2>2, <2>3 DEF Bijection, Injection, IsInjective, Surjection
<1>10. Clip(held, seq) \in Seq(ClipPacket) /\ Len(Clip(held, seq)) = Len(all)
  <2>1. Clip(held, seq) \in [1 .. Len(all) -> ClipPacket]
    BY <1>1, <1>2, <1>3, <1>8
  <2> QED BY <1>2, <2>1
<1>11. ASSUME NEW k \in D, NEW l \in D, k < l
       PROVE  all[from[k]].dts <= all[from[l]].dts
  <2>1. from[k] \in D /\ from[l] \in D /\ from[k] # from[l]
    BY <1>2, <1>8, <1>11
  <2>2. ~ GoesBefore(all, old, from[l], from[k])
    <3>1. ~ (place[from[l]] < place[from[k]])
      BY <1>2, <1>8, <1>11
    <3> QED BY <1>1, <2>1, <3>1, PlaceOrder DEF place
  <2>3. GoesBefore(all, old, from[k], from[l])
    BY <1>1, <2>1, <2>2, GoesBeforeTotal
  <2>4. all[from[k]].dts \in Int /\ all[from[l]].dts \in Int
    <3>1. all[from[k]] \in ClipPacket /\ all[from[l]] \in ClipPacket
      BY <1>1, <2>1
    <3> QED BY <3>1 DEF ClipPacket
  <2> QED BY <2>3, <2>4 DEF GoesBefore
<1> QED BY <1>1, <1>2, <1>3, <1>9, <1>10, <1>11 DEF all

-----------------------------------------------------------------------------
(* The loop over insert_packet() *)

InOrder(clip) == \A k, l \in 1 .. Len(clip) : k < l => clip[k].dts <= clip[l].dts

(* insert_packet() finds where a packet belongs. *)
LEMMA InsertPositionFound ==
  ASSUME NEW clip \in Seq(ClipPacket), InOrder(clip), NEW p \in ClipPacket
  PROVE  LET n == InsertPosition(clip, p)
         IN /\ n \in 0 .. Len(clip)
            /\ n > 0 => clip[n].dts < p.dts
            /\ \A i \in n + 1 .. Len(clip) : clip[i].dts >= p.dts
<1> DEFINE len == Len(clip)
           Later == {i \in 1 .. len : clip[i].dts >= p.dts}
           Fits(n) == /\ n > 0 => clip[n].dts < p.dts
                      /\ \A i \in n + 1 .. len : clip[i].dts >= p.dts
<1>1. len \in Nat /\ p.dts \in Int /\ \A i \in 1 .. len : clip[i].dts \in Int
  <2>1. \A i \in 1 .. len : clip[i] \in ClipPacket
    OBVIOUS
  <2> QED BY <2>1 DEF ClipPacket
<1>2. \E n \in 0 .. len : Fits(n)
  <2>1. CASE Later = {}
    <3>1. len \in 0 .. len /\ (len > 0 => clip[len].dts < p.dts)
      <4>1. len > 0 => len \in 1 .. len /\ len \notin Later
        BY <1>1, <2>1
      <4> QED BY <1>1, <4>1
    <3>2. Fits(len)
      BY <1>1, <3>1
    <3> QED BY <3>1, <3>2
  <2>2. CASE Later # {}
    <3>1. Later \in SUBSET Nat
      OBVIOUS
    <3>2. PICK m \in Later : \A y \in Later : m <= y
      BY <2>2, <3>1, LeastElement
    <3> DEFINE n == m - 1
    <3>3. m \in 1 .. len /\ clip[m].dts >= p.dts
      BY <3>2
    <3>4. n \in 0 .. len /\ n + 1 = m
      BY <1>1, <3>3
    <3>5. n > 0 => clip[n].dts < p.dts
      <4>1. n > 0 => n \in 1 .. len /\ n \notin Later
        BY <1>1, <3>2, <3>3
      <4> QED BY <1>1, <4>1
    <3>6. \A i \in n + 1 .. len : clip[i].dts >= p.dts
      <4> SUFFICES ASSUME NEW i \in m .. len PROVE clip[i].dts >= p.dts
        BY <3>4
      <4>1. i \in 1 .. len /\ (i = m \/ m < i)
        BY <1>1, <3>3
      <4>2. clip[m].dts <= clip[i].dts
        BY <1>1, <3>3, <4>1 DEF InOrder
      <4> QED BY <1>1, <3>3, <4>1, <4>2
    <3> HIDE DEF n
    <3> QED BY <3>4, <3>5, <3>6
  <2> QED BY <2>1, <2>2
<1>3. InsertPosition(clip, p) = CHOOSE n \in 0 .. len : Fits(n)
  BY DEF InsertPosition
<1> DEFINE at == InsertPosition(clip, p)
<1>4. at \in 0 .. len /\ Fits(at)
  <2> HIDE DEF Fits, len
  <2> QED BY <1>2, <1>3
<1> QED BY <1>4

(* clip holds the first n packets of all, in the order of GoesBefore: f     *)
(* tells which.                                                             *)
Arranged(clip, f, all, old, n) ==
  /\ clip \in Seq(ClipPacket) /\ Len(clip) = n
  /\ f \in [1 .. n -> 1 .. n]
  /\ \A i \in 1 .. n : \E k \in 1 .. n : f[k] = i
  /\ \A k \in 1 .. n : clip[k] = all[f[k]]
  /\ \A k, l \in 1 .. n : k < l => GoesBefore(all, old, f[k], f[l])

LEMMA ArrangedInOrder ==
  ASSUME NEW all \in Seq(ClipPacket), NEW old \in Nat, NEW n \in 0 .. Len(all), NEW clip, NEW f,
         Arranged(clip, f, all, old, n)
  PROVE  InOrder(clip)
<1> SUFFICES ASSUME NEW k \in 1 .. n, NEW l \in 1 .. n, k < l
             PROVE  clip[k].dts <= clip[l].dts
  BY DEF Arranged, InOrder
<1>1. f[k] \in 1 .. Len(all) /\ f[l] \in 1 .. Len(all)
  <2>1. f[k] \in 1 .. n /\ f[l] \in 1 .. n
    BY DEF Arranged
  <2> QED BY <2>1
<1>2. all[f[k]].dts \in Int /\ all[f[l]].dts \in Int
  <2>1. all[f[k]] \in ClipPacket /\ all[f[l]] \in ClipPacket
    BY <1>1
  <2> QED BY <2>1 DEF ClipPacket
<1>3. GoesBefore(all, old, f[k], f[l]) /\ clip[k] = all[f[k]] /\ clip[l] = all[f[l]]
  BY DEF Arranged
<1> QED BY <1>2, <1>3 DEF GoesBefore

(* The next packet is put where it belongs. *)
LEMMA InsertArranged ==
  ASSUME NEW all \in Seq(ClipPacket), NEW old \in Nat, NEW n \in old .. Len(all) - 1,
         NEW clip, NEW f, Arranged(clip, f, all, old, n)
  PROVE  \E g : Arranged(InsertPacket(clip, all[n + 1]), g, all, old, n + 1)
<1> DEFINE p == all[n + 1]
           at == InsertPosition(clip, p)
           new == InsertPacket(clip, p)
           m == n + 1
           g == [i \in 1 .. m |-> IF i <= at THEN f[i] ELSE IF i = at + 1 THEN m ELSE f[i - 1]]
<1>1. n \in Nat /\ n \in 0 .. Len(all) /\ m \in 1 .. Len(all) /\ old < m /\ Len(all) \in Nat
  OBVIOUS
<1>2. p \in ClipPacket /\ p.dts \in Int
  <2>1. p \in ClipPacket
    BY <1>1
  <2> QED BY <2>1 DEF ClipPacket
<1>3. clip \in Seq(ClipPacket) /\ Len(clip) = n /\ InOrder(clip)
  <2>1. clip \in Seq(ClipPacket) /\ Len(clip) = n
    BY DEF Arranged
  <2>2. InOrder(clip)
    BY <1>1, ArrangedInOrder
  <2> QED BY <2>1, <2>2
<1>4. /\ at \in 0 .. n
      /\ at > 0 => clip[at].dts < p.dts
      /\ \A i \in at + 1 .. n : clip[i].dts >= p.dts
  <2> HIDE DEF p
  <2> QED BY <1>2, <1>3, InsertPositionFound
<1>5. new = [i \in 1 .. m |-> IF i <= at THEN clip[i] ELSE IF i = at + 1 THEN p ELSE clip[i - 1]]
  BY <1>3 DEF InsertPacket
<1> HIDE DEF p, at, new, m, g
<1>6. m = n + 1 /\ at \in 0 .. n /\ at \in Nat
  BY <1>1, <1>4 DEF m
<1>7. \A i \in 1 .. m :
        \/ i <= at /\ i \in 1 .. n /\ g[i] = f[i] /\ new[i] = clip[i]
        \/ i = at + 1 /\ g[i] = m /\ new[i] = p
        \/ i > at + 1 /\ i - 1 \in at + 1 .. n /\ i - 1 \in 1 .. n
           /\ g[i] = f[i - 1] /\ new[i] = clip[i - 1]
  <2> SUFFICES ASSUME NEW i \in 1 .. m
               PROVE  \/ i <= at /\ i \in 1 .. n /\ g[i] = f[i] /\ new[i] = clip[i]
                      \/ i = at + 1 /\ g[i] = m /\ new[i] = p
                      \/ i > at + 1 /\ i - 1 \in at + 1 .. n /\ i - 1 \in 1 .. n
                         /\ g[i] = f[i - 1] /\ new[i] = clip[i - 1]
    OBVIOUS
  <2>1. /\ g[i] = IF i <= at THEN f[i] ELSE IF i = at + 1 THEN m ELSE f[i - 1]
        /\ new[i] = IF i <= at THEN clip[i] ELSE IF i = at + 1 THEN p ELSE clip[i - 1]
    BY <1>5 DEF g
  <2>2. CASE i <= at
    BY <1>1, <1>6, <2>1, <2>2
  <2>3. CASE i = at + 1
    BY <1>1, <1>6, <2>1, <2>3
  <2>4. CASE i > at + 1
    <3>1. i - 1 \in at + 1 .. n /\ i - 1 \in 1 .. n
      BY <1>1, <1>6, <2>4
    <3>2. ~(i <= at) /\ i # at + 1
      BY <1>1, <1>6, <2>4
    <3> QED BY <2>1, <2>4, <3>1, <3>2
  <2> QED BY <1>1, <1>6, <2>2, <2>3, <2>4
<1>8. \A k \in 1 .. n : f[k] \in 1 .. n /\ f[k] \in 1 .. Len(all) /\ clip[k] = all[f[k]]
                        /\ clip[k].dts \in Int
  <2> TAKE k \in 1 .. n
  <2>1. f[k] \in 1 .. n /\ clip[k] = all[f[k]] /\ clip[k] \in ClipPacket
    BY <1>3 DEF Arranged
  <2>2. clip[k].dts \in Int
    BY <2>1 DEF ClipPacket
  <2>3. f[k] \in 1 .. Len(all)
    BY <1>1, <2>1
  <2> QED BY <2>1, <2>2, <2>3
<1>9. new \in Seq(ClipPacket) /\ Len(new) = m
  <2>1. \A i \in 1 .. m : new[i] \in ClipPacket
    <3>1. \A k \in 1 .. n : clip[k] \in ClipPacket
      BY <1>3
    <3> QED BY <1>2, <1>7, <3>1
  <2>2. new = [i \in 1 .. m |-> new[i]] /\ m \in Nat
    BY <1>1, <1>5, <1>6
  <2> QED BY <2>1, <2>2
<1>10. g \in [1 .. m -> 1 .. m]
  <2>1. \A i \in 1 .. m : g[i] \in 1 .. m
    <3>1. \A k \in 1 .. n : f[k] \in 1 .. m
      BY <1>1, <1>6, <1>8
    <3>2. m \in 1 .. m
      BY <1>1
    <3> QED BY <1>7, <3>1, <3>2
  <2>2. g = [i \in 1 .. m |-> g[i]]
    BY DEF g
  <2> QED BY <2>1, <2>2
<1>11. \A i \in 1 .. m : \E k \in 1 .. m : g[k] = i
  <2> SUFFICES ASSUME NEW i \in 1 .. m PROVE \E k \in 1 .. m : g[k] = i
    OBVIOUS
  <2>1. CASE i = m
    <3>1. at + 1 \in 1 .. m
      BY <1>1, <1>6
    <3>2. g[at + 1] = m
      BY <1>6, <3>1 DEF g
    <3> QED BY <2>1, <3>1, <3>2
  <2>2. CASE i # m
    <3>1. i \in 1 .. n
      BY <1>1, <1>6, <2>2
    <3>2. PICK k \in 1 .. n : f[k] = i
      BY <3>1 DEF Arranged
    <3>3. CASE k <= at
      <4>1. k \in 1 .. m
        BY <1>1, <1>6
      <4>2. g[k] = f[k]
        BY <3>3, <4>1 DEF g
      <4> QED BY <3>2, <4>1, <4>2
    <3>4. CASE k > at
      <4> DEFINE q == k + 1
      <4>1. q \in 1 .. m /\ ~(q <= at) /\ q # at + 1 /\ q - 1 = k
        BY <1>1, <1>6, <3>4
      <4> HIDE DEF q
      <4>2. g[q] = f[k]
        BY <4>1 DEF g
      <4> QED BY <3>2, <4>1, <4>2
    <3> QED BY <1>1, <1>6, <3>3, <3>4
  <2> QED BY <2>1, <2>2
<1>12. \A k \in 1 .. m : new[k] = all[g[k]]
  <2>1. p = all[m]
    BY DEF p, m
  <2> QED BY <1>7, <1>8, <2>1
<1>13. \A k, l \in 1 .. m : k < l => GoesBefore(all, old, g[k], g[l])
  <2> SUFFICES ASSUME NEW k \in 1 .. m, NEW l \in 1 .. m, k < l
               PROVE  GoesBefore(all, old, g[k], g[l])
    OBVIOUS
  <2>0. \A a, b \in 1 .. n : a < b => GoesBefore(all, old, f[a], f[b])
    BY DEF Arranged
  <2>1. \A a \in 1 .. n : a <= at => GoesBefore(all, old, f[a], m)
    <3> SUFFICES ASSUME NEW a \in 1 .. n, a <= at PROVE GoesBefore(all, old, f[a], m)
      OBVIOUS
    <3>1. at \in 1 .. n /\ at > 0
      BY <1>1, <1>6
    <3>2. clip[a].dts <= clip[at].dts
      <4>1. a = at \/ a < at
        BY <1>1, <1>6
      <4>2. a < at => clip[a].dts <= clip[at].dts
        BY <1>3, <3>1 DEF InOrder
      <4>3. clip[at].dts <= clip[at].dts
        BY <1>8, <3>1
      <4> QED BY <4>1, <4>2, <4>3
    <3>3. clip[at].dts < p.dts
      BY <1>4, <3>1
    <3>4. all[f[a]].dts < all[m].dts
      <4>1. clip[a] = all[f[a]] /\ p = all[m] /\ clip[a].dts \in Int /\ clip[at].dts \in Int
        BY <1>8, <3>1 DEF p, m
      <4> QED BY <1>2, <3>2, <3>3, <4>1
    <3> QED BY <3>4 DEF GoesBefore
  <2>2. \A a \in 1 .. n : a > at => GoesBefore(all, old, m, f[a])
    <3> SUFFICES ASSUME NEW a \in 1 .. n, a > at PROVE GoesBefore(all, old, m, f[a])
      OBVIOUS
    <3>1. clip[a].dts >= p.dts
      <4>1. a \in at + 1 .. n
        BY <1>1, <1>6
      <4> QED BY <1>4, <4>1
    <3>2. f[a] < m /\ f[a] \in Int /\ ~(m <= old)
      <4>1. f[a] \in 1 .. n
        BY <1>8
      <4> QED BY <1>1, <1>6, <4>1
    <3>3. all[m].dts = p.dts /\ all[f[a]].dts = clip[a].dts
      BY <1>8 DEF p, m
    <3>4. clip[a].dts \in Int
      BY <1>8
    <3>5. m > f[a]
      BY <1>1, <1>6, <3>2
    <3> QED BY <1>2, <3>1, <3>2, <3>3, <3>4, <3>5 DEF GoesBefore
  <2>3. CASE k <= at
    <3>1. k \in 1 .. n /\ g[k] = f[k]
      BY <1>7, <1>6, <2>3
    <3>2. CASE l <= at
      BY <1>6, <1>7, <2>0, <3>1, <3>2
    <3>3. CASE l = at + 1
      BY <1>6, <1>7, <2>1, <2>3, <3>1, <3>3
    <3>4. CASE l > at + 1
      <4>1. l - 1 \in 1 .. n /\ g[l] = f[l - 1] /\ k < l - 1
        BY <1>6, <1>7, <2>3, <3>4
      <4> QED BY <2>0, <3>1, <4>1
    <3> QED BY <1>6, <3>2, <3>3, <3>4
  <2>4. CASE k = at + 1
    <3>1. g[k] = m
      BY <1>6, <1>7, <2>4
    <3>2. l > at + 1 /\ l - 1 \in at + 1 .. n /\ l - 1 \in 1 .. n /\ g[l] = f[l - 1]
      BY <1>6, <1>7, <2>4
    <3>3. l - 1 > at
      BY <1>6, <3>2
    <3> QED BY <2>2, <3>1, <3>2, <3>3
  <2>5. CASE k > at + 1
    <3>1. k - 1 \in 1 .. n /\ g[k] = f[k - 1]
      BY <1>6, <1>7, <2>5
    <3>2. l > at + 1 /\ l - 1 \in 1 .. n /\ g[l] = f[l - 1]
      BY <1>6, <1>7, <2>5
    <3>3. k - 1 < l - 1
      OBVIOUS
    <3> QED BY <2>0, <3>1, <3>2, <3>3
  <2> QED BY <1>6, <2>3, <2>4, <2>5
<1>14. Arranged(new, g, all, old, m)
  BY <1>9, <1>10, <1>11, <1>12, <1>13 DEF Arranged
<1> QED BY <1>14 DEF new, p, m

(* A list that holds all of them is the one sorted by places. *)
LEMMA ArrangedIsClip ==
  ASSUME NEW held \in Seq(ClipPacket), NEW seq \in Seq(Packet), NEW clip, NEW f,
         Arranged(clip, f, Rebased(held, seq), Len(held), Len(held) + Len(seq))
  PROVE  clip = Clip(held, seq)
<1> DEFINE all == Rebased(held, seq)
           old == Len(held)
           n == Len(held) + Len(seq)
           D == DOMAIN all
           place == [j \in D |-> Place(all, old, j)]
           from == [k \in D |-> CHOOSE j \in D : place[j] = k]
<1>1. all \in Seq(ClipPacket) /\ Len(all) = n /\ old \in Nat /\ n \in Nat /\ D = 1 .. n
  BY RebasedType
<1>2. Clip(held, seq) = [k \in D |-> all[from[k]]]
  BY DEF Clip
<1>3. Arranged(clip, f, all, old, n)
  OBVIOUS
<1> HIDE DEF all, old, n, D
<1>4. /\ f \in [D -> D]
      /\ \A i \in D : \E k \in D : f[k] = i
      /\ \A k \in D : clip[k] = all[f[k]]
      /\ \A k, l \in D : k < l => GoesBefore(all, old, f[k], f[l])
      /\ clip = [k \in D |-> clip[k]]
  BY <1>1, <1>3 DEF Arranged
<1>5. \A k, l \in D : k # l => f[k] # f[l]
  <2> SUFFICES ASSUME NEW k \in D, NEW l \in D, k # l, f[k] = f[l] PROVE FALSE
    OBVIOUS
  <2>1. k < l \/ l < k
    BY <1>1
  <2>2. GoesBefore(all, old, f[k], f[k])
    BY <1>4, <2>1
  <2> QED BY <1>1, <1>4, <2>2, GoesBeforeTotal DEF D
<1>6. \A k \in D : Place(all, old, f[k]) = k
  <2> SUFFICES ASSUME NEW k \in D PROVE Place(all, old, f[k]) = k
    OBVIOUS
  <2> DEFINE Front == {i \in D : GoesBefore(all, old, i, f[k])}
             I == 1 .. k - 1
             h == [j \in I |-> f[j]]
  <2>0. \A j \in I : j \in D /\ j < k
    BY <1>1
  <2>1. \A j \in I : f[j] \in Front
    BY <1>4, <2>0
  <2>2. \A i \in Front : \E j \in I : f[j] = i
    <3> SUFFICES ASSUME NEW i \in D, GoesBefore(all, old, i, f[k])
                 PROVE  \E j \in I : f[j] = i
      OBVIOUS
    <3>1. PICK j \in D : f[j] = i
      BY <1>4
    <3>2. ~(k < j)
      <4> SUFFICES ASSUME k < j PROVE FALSE
        OBVIOUS
      <4>1. GoesBefore(all, old, f[k], i)
        BY <1>4, <3>1
      <4>2. GoesBefore(all, old, i, i)
        BY <1>1, <1>4, <4>1, GoesBeforeTotal DEF D
      <4> QED BY <1>1, <4>2, GoesBeforeTotal DEF D
    <3>3. j # k
      <4> SUFFICES ASSUME j = k PROVE FALSE
        OBVIOUS
      <4>1. GoesBefore(all, old, i, i)
        BY <3>1
      <4> QED BY <1>1, <4>1, GoesBeforeTotal DEF D
    <3>4. j \in I
      BY <1>1, <3>2, <3>3
    <3> QED BY <3>1, <3>4
  <2>3. h \in Bijection(I, Front)
    <3>1. h \in [I -> Front]
      BY <2>1
    <3>2. \A a, b \in I : a # b => h[a] # h[b]
      BY <1>5, <2>0
    <3>3. \A i \in Front : \E j \in I : h[j] = i
      BY <2>2
    <3> HIDE DEF h, I, Front
    <3> QED BY <3>1, <3>2, <3>3 DEF Bijection, Injection, IsInjective, Surjection
  <2>4. IsFiniteSet(I) /\ Cardinality(I) = k - 1
    <3>1. k \in Nat /\ k >= 1
      BY <1>1
    <3> DEFINE b == k - 1
    <3>2. b \in Nat
      BY <3>1
    <3> HIDE DEF b
    <3>3. 1 \in Int /\ b \in Int
      BY <3>2
    <3>4. IsFiniteSet(1 .. b) /\ Cardinality(1 .. b) = IF 1 > b THEN 0 ELSE b - 1 + 1
      BY <3>3, FS_Interval, Zenon
    <3>5. Cardinality(1 .. b) = b
      BY <3>2, <3>4
    <3> QED BY <3>4, <3>5 DEF b
  <2>5. Cardinality(Front) = k - 1
    <3> HIDE DEF h, I, Front
    <3>1. ExistsBijection(I, Front)
      BY <2>3 DEF ExistsBijection
    <3> QED BY <2>4, <3>1, FS_Bijection
  <2>6. Place(all, old, f[k]) = 1 + Cardinality(Front)
    BY DEF Place, D
  <2> HIDE DEF Front
  <2> QED BY <1>1, <2>5, <2>6
<1>7. \A k \in D : from[k] = f[k]
  <2> SUFFICES ASSUME NEW k \in D PROVE from[k] = f[k]
    OBVIOUS
  <2>1. f[k] \in D /\ place[f[k]] = k
    BY <1>4, <1>6
  <2>2. ASSUME NEW j \in D, place[j] = k
        PROVE  j = f[k]
    <3>1. PICK l \in D : f[l] = j
      BY <1>4
    <3>2. place[f[l]] = l
      BY <1>4, <1>6
    <3> HIDE DEF place
    <3> QED BY <2>2, <3>1, <3>2
  <2> HIDE DEF place
  <2> QED BY <2>1, <2>2
<1> HIDE DEF from
<1> QED BY <1>2, <1>4, <1>7

(* The loop goes through the list that Rebased describes. *)
LEMMA RebasedAt ==
  ASSUME NEW held \in Seq(ClipPacket), NEW seq \in Seq(Packet)
  PROVE  /\ \A i \in 1 .. Len(held) : Rebased(held, seq)[i] = held[i]
         /\ \A i \in 1 .. Len(seq) : Rebased(held, seq)[Len(held) + i] = Rebase(seq, seq[i])
<1> DEFINE offset == [s \in {seq[i].stream : i \in DOMAIN seq} |-> Offset(seq, s)]
           moved == [i \in DOMAIN seq |-> [seq[i] EXCEPT !.dts = @ - offset[seq[i].stream]]]
<1>1. Rebased(held, seq) = held \o moved
  BY DEF Rebased
<1>2. \A i \in 1 .. Len(seq) : moved[i] = Rebase(seq, seq[i])
  <2> TAKE i \in 1 .. Len(seq)
  <2>0. i \in DOMAIN seq
    OBVIOUS
  <2>1. offset[seq[i].stream] = Offset(seq, seq[i].stream)
    BY <2>0
  <2>2. moved[i] = [seq[i] EXCEPT !.dts = @ - offset[seq[i].stream]]
    BY <2>0
  <2> HIDE DEF offset, moved
  <2> QED BY <2>1, <2>2 DEF Rebase
<1>3. Len(held) \in Nat /\ Len(seq) \in Nat
  OBVIOUS
<1>4. moved \in Seq(ClipPacket) /\ Len(moved) = Len(seq)
  <2>1. \A i \in 1 .. Len(seq) : moved[i] \in ClipPacket
    <3> SUFFICES ASSUME NEW i \in DOMAIN seq
                 PROVE  [seq[i] EXCEPT !.dts = @ - offset[seq[i].stream]] \in ClipPacket
      OBVIOUS
    <3>1. offset[seq[i].stream] \in Int
      BY FirstOfType
    <3>2. seq[i] \in Packet
      OBVIOUS
    <3>3. ASSUME NEW p \in Packet, NEW d \in Int
          PROVE  [p EXCEPT !.dts = @ - d] \in ClipPacket
      <4>1. p.dts - d \in Int
        BY DEF Packet
      <4> QED BY <4>1 DEF Packet, ClipPacket
    <3> HIDE DEF offset
    <3> QED BY <3>1, <3>2, <3>3
  <2>2. moved = [i \in 1 .. Len(seq) |-> moved[i]]
    OBVIOUS
  <2> HIDE DEF moved
  <2> QED BY <1>3, <2>1, <2>2
<1> HIDE DEF moved
<1> QED BY <1>1, <1>2, <1>3, <1>4, ConcatProperties

IsLoop(c, held, seq, m) ==
  c = [i \in 0 .. m |-> IF i = 0 THEN held ELSE InsertPacket(c[i - 1], Rebase(seq, seq[i]))]

LEMMA LoopExists ==
  ASSUME NEW held, NEW seq, NEW n \in Nat
  PROVE  \E c : IsLoop(c, held, seq, n)
<1> DEFINE T == {m \in 0 .. n : \E c : IsLoop(c, held, seq, m)}
<1>1. 0 \in T
  <2>1. IsLoop([i \in 0 .. 0 |-> held], held, seq, 0)
    BY DEF IsLoop
  <2> QED BY <2>1
<1>2. ASSUME NEW m \in 1 .. n, m - 1 \in T
      PROVE  m \in T
  <2>1. PICK c : IsLoop(c, held, seq, m - 1)
    BY <1>2
  <2> DEFINE last == InsertPacket(c[m - 1], Rebase(seq, seq[m]))
             h == [i \in 0 .. m |-> IF i = m THEN last ELSE c[i]]
  <2>2. \A i \in 0 .. m - 1 :
          /\ h[i] = c[i]
          /\ c[i] = IF i = 0 THEN held ELSE InsertPacket(c[i - 1], Rebase(seq, seq[i]))
    BY <2>1 DEF IsLoop
  <2>3. h[m] = last /\ \A i \in 1 .. m : h[i - 1] = c[i - 1]
    <3>1. \A i \in 1 .. m : i - 1 \in 0 .. m - 1
      OBVIOUS
    <3> QED BY <2>2, <3>1
  <2> HIDE DEF h
  <2>4. \A i \in 0 .. m :
          h[i] = IF i = 0 THEN held ELSE InsertPacket(h[i - 1], Rebase(seq, seq[i]))
    <3> TAKE i \in 0 .. m
    <3>1. CASE i = m
      BY <2>3, <3>1
    <3>2. CASE i = 0
      BY <2>2, <3>2
    <3>3. CASE i \in 1 .. m - 1
      BY <2>2, <2>3, <3>3
    <3> QED BY <3>1, <3>2, <3>3
  <2>5. h = [i \in 0 .. m |-> h[i]]
    BY DEF h
  <2>6. IsLoop(h, held, seq, m)
    BY <2>4, <2>5 DEF IsLoop
  <2> QED BY <2>6
<1> HIDE DEF T
<1>3. n \in T
  <2>1. \A m \in 0 .. n : m \in T
    BY <1>1, <1>2, IntervalInduction
  <2> QED BY <2>1
<1> QED BY <1>3 DEF T

LEMMA ClipIsLoop ==
  ASSUME NEW held, NEW seq, Len(seq) \in Nat
  PROVE  \E c : IsLoop(c, held, seq, Len(seq)) /\ ClipByInsertion(held, seq) = c[Len(seq)]
<1>1. \E c : IsLoop(c, held, seq, Len(seq))
  BY LoopExists
<1> DEFINE chosen == CHOOSE c : IsLoop(c, held, seq, Len(seq))
<1>2. IsLoop(chosen, held, seq, Len(seq))
  BY <1>1
<1>3. ClipByInsertion(held, seq) = chosen[Len(seq)]
  BY DEF ClipByInsertion, IsLoop
<1> QED BY <1>2, <1>3

(* The loop of replay_buffer_save() with insert_packet() builds the sorted  *)
(* list, if what mux_packets held was sorted.                               *)
THEOREM InsertionSorts ==
  ASSUME NEW held \in Seq(ClipPacket), InOrder(held), NEW seq \in Seq(Packet)
  PROVE  ClipByInsertion(held, seq) = Clip(held, seq)
<1> DEFINE all == Rebased(held, seq)
           old == Len(held)
           len == Len(seq)
<1>1. all \in Seq(ClipPacket) /\ Len(all) = old + len /\ old \in Nat /\ len \in Nat
  BY RebasedType
<1>2. PICK c : IsLoop(c, held, seq, len) /\ ClipByInsertion(held, seq) = c[len]
  BY <1>1, ClipIsLoop
<1>3. /\ \A i \in 1 .. old : all[i] = held[i]
      /\ \A i \in 1 .. len : all[old + i] = Rebase(seq, seq[i])
  BY RebasedAt
<1> HIDE DEF all, old, len
<1> DEFINE T == {i \in 0 .. len : \E f : Arranged(c[i], f, all, old, old + i)}
<1>4. 0 \in T
  <2> DEFINE id == [k \in 1 .. old |-> k]
  <2>1. c[0] = held
    BY <1>1, <1>2 DEF IsLoop
  <2>2. \A k, l \in 1 .. old : k < l => GoesBefore(all, old, k, l)
    <3> SUFFICES ASSUME NEW k \in 1 .. old, NEW l \in 1 .. old, k < l
                 PROVE  GoesBefore(all, old, k, l)
      OBVIOUS
    <3>1. held[k].dts <= held[l].dts
      BY DEF InOrder, old
    <3>2. held[k].dts \in Int /\ held[l].dts \in Int
      <4>1. held[k] \in ClipPacket /\ held[l] \in ClipPacket
        BY DEF old
      <4> QED BY <4>1 DEF ClipPacket
    <3>3. all[k] = held[k] /\ all[l] = held[l]
      BY <1>3
    <3> QED BY <1>1, <3>1, <3>2, <3>3 DEF GoesBefore
  <2>3. Arranged(held, id, all, old, old + 0)
    <3>1. held \in Seq(ClipPacket) /\ Len(held) = old /\ old + 0 = old
      BY <1>1 DEF old
    <3>2. id \in [1 .. old -> 1 .. old] /\ \A k \in 1 .. old : id[k] = k
      OBVIOUS
    <3> HIDE DEF id
    <3>3. \A i \in 1 .. old : \E k \in 1 .. old : id[k] = i
      BY <3>2
    <3> QED BY <1>3, <2>2, <3>1, <3>2, <3>3 DEF Arranged
  <2> QED BY <1>1, <2>1, <2>3
<1>5. ASSUME NEW i \in 1 .. len, i - 1 \in T
      PROVE  i \in T
  <2> DEFINE n == old + (i - 1)
  <2>1. PICK f : Arranged(c[i - 1], f, all, old, n)
    BY <1>5
  <2>2. n \in old .. Len(all) - 1 /\ n + 1 = old + i
    BY <1>1
  <2>3. c[i] = InsertPacket(c[i - 1], all[old + i])
    <3>1. c[i] = InsertPacket(c[i - 1], Rebase(seq, seq[i]))
      BY <1>1, <1>2 DEF IsLoop
    <3> QED BY <1>3, <3>1
  <2> HIDE DEF n
  <2>4. \E g : Arranged(InsertPacket(c[i - 1], all[n + 1]), g, all, old, n + 1)
    BY <1>1, <2>1, <2>2, InsertArranged
  <2> QED BY <2>2, <2>3, <2>4
<1> HIDE DEF T
<1>6. len \in T
  <2>1. \A i \in 0 .. len : i \in T
    BY <1>1, <1>4, <1>5, IntervalInduction
  <2> QED BY <1>1, <2>1
<1>7. PICK f : Arranged(c[len], f, all, old, old + len)
  BY <1>6 DEF T
<1> QED BY <1>2, <1>7, ArrangedIsClip DEF all, old, len
=============================================================================
