--------------------------- MODULE GpuQueue_proof ---------------------------
(***************************************************************************)
(* Proofs about the texture queue: the lemmas its composition with the     *)
(* graphics thread (VideoMix_proof) rests on.                              *)
(*                                                                         *)
(* GpuInv is the inductive invariant of the queue, the GPU encode thread   *)
(* and the starts and stops of encoders, as long as these do not overlap.  *)
(* Ready(next, m) says what the graphics thread may hand over next: every  *)
(* step but EncodeGpu keeps it for every next, EncodeGpu moves it on by    *)
(* the ticks of its frame.  There is one lemma per action; those about the *)
(* queues themselves come first.                                           *)
(***************************************************************************)
EXTENDS GpuQueue, Sums_proof, FiniteSetTheorems

Frame == [tex : Textures, lock_key : Nat, released : BOOLEAN, count : Nat,
          timestamp : Nat, tick : Nat]

-----------------------------------------------------------------------------
(* Queues of textures *)

(* No texture twice *)
Distinct(s) == \A i, j \in 1 .. Len(s) : s[i].tex = s[j].tex => i = j

LEMMA FramesOf ==
  ASSUME NEW s \in Seq(Frame)
  PROVE  /\ Frames(s) = {s[i] : i \in 1 .. Len(s)} /\ Frames(s) \subseteq Frame
         /\ Len(s) \in Nat /\ (s = << >> <=> Len(s) = 0)
<1>1. DOMAIN s = 1 .. Len(s) /\ \A i \in 1 .. Len(s) : s[i] \in Frame
  BY LenProperties, ElementOfSeq
<1> QED BY <1>1, LenProperties, EmptySeq DEF Frames

LEMMA EmptyQueue ==
  /\ Frames(<< >>) = {} /\ Distinct(<< >>) /\ << >> \in Seq(Frame) /\ Len(<< >>) = 0
  BY DEF Frames, Distinct

LEMMA QueueAppend ==
  ASSUME NEW s \in Seq(Frame), NEW f \in Frame
  PROVE  /\ Append(s, f) \in Seq(Frame) /\ Len(Append(s, f)) = Len(s) + 1
         /\ Append(s, f) # << >>
         /\ Append(s, f)[Len(s) + 1] = f /\ \A i \in 1 .. Len(s) : Append(s, f)[i] = s[i]
         /\ Frames(Append(s, f)) = Frames(s) \cup {f}
         /\ Distinct(s) /\ (\A g \in Frames(s) : g.tex # f.tex) => Distinct(Append(s, f))
<1> DEFINE a == Append(s, f)
<1>1. /\ a \in Seq(Frame) /\ Len(a) = Len(s) + 1 /\ a[Len(s) + 1] = f
      /\ \A i \in 1 .. Len(s) : a[i] = s[i]
  BY AppendProperties
<1> HIDE DEF a
<1>2. Len(s) \in Nat /\ Frames(s) = {s[i] : i \in 1 .. Len(s)} /\ Frames(a) = {a[i] : i \in 1 .. Len(a)}
  BY <1>1, FramesOf
<1>3. 1 .. Len(a) = 1 .. Len(s) \cup {Len(s) + 1}
  BY <1>1, <1>2
<1>4. Frames(a) = Frames(s) \cup {f}
  BY <1>1, <1>2, <1>3
<1>5. Distinct(s) /\ (\A g \in Frames(s) : g.tex # f.tex) => Distinct(a)
  BY <1>1, <1>2, <1>3 DEF Distinct
<1>6. a # << >>
  BY <1>1, <1>2, FramesOf
<1> QED BY <1>1, <1>4, <1>5, <1>6 DEF a

LEMMA QueueTail ==
  ASSUME NEW s \in Seq(Frame), s # << >>
  PROVE  /\ Tail(s) \in Seq(Frame) /\ Len(Tail(s)) = Len(s) - 1 /\ Len(s) > 0
         /\ Head(s) = s[1] /\ s[1] \in Frame
         /\ \A i \in 1 .. Len(s) - 1 : Tail(s)[i] = s[i + 1]
         /\ Frames(s) = Frames(Tail(s)) \cup {Head(s)}
         /\ Distinct(s) => Distinct(Tail(s)) /\ \A g \in Frames(Tail(s)) : g.tex # Head(s).tex
<1> DEFINE t == Tail(s)
<1>1. /\ t \in Seq(Frame) /\ Len(t) = Len(s) - 1 /\ Len(s) \in Nat /\ Len(s) > 0
      /\ Head(s) = s[1] /\ s[1] \in Frame /\ \A i \in 1 .. Len(t) : t[i] = s[i + 1]
  BY HeadTailProperties, FramesOf
<1> HIDE DEF t
<1>2. Frames(s) = {s[i] : i \in 1 .. Len(s)} /\ Frames(t) = {t[i] : i \in 1 .. Len(t)}
  BY <1>1, FramesOf
<1>3. \A i \in 1 .. Len(s) : i = 1 \/ (i - 1 \in 1 .. Len(t) /\ s[i] = t[i - 1])
  BY <1>1
<1>4. \A i \in 1 .. Len(t) : i + 1 \in 1 .. Len(s) /\ i + 1 # 1
  BY <1>1
<1>5. Frames(s) = Frames(t) \cup {Head(s)}
  BY <1>1, <1>2, <1>3, <1>4
<1>6. ASSUME Distinct(s)
      PROVE  Distinct(t) /\ \A g \in Frames(t) : g.tex # Head(s).tex
  <2>1. Distinct(t)
    BY <1>1, <1>4, <1>6 DEF Distinct
  <2>2. \A i \in 1 .. Len(t) : t[i].tex # s[1].tex
    BY <1>1, <1>4, <1>6 DEF Distinct
  <2> QED BY <1>1, <1>2, <2>1, <2>2
<1> QED BY <1>1, <1>5, <1>6 DEF t

LEMMA QueueFront ==
  ASSUME NEW s \in Seq(Frame), NEW f \in Frame
  PROVE  /\ <<f>> \o s \in Seq(Frame) /\ Len(<<f>> \o s) = Len(s) + 1
         /\ <<f>> \o s # << >>
         /\ (<<f>> \o s)[1] = f /\ \A i \in 1 .. Len(s) : (<<f>> \o s)[i + 1] = s[i]
         /\ Frames(<<f>> \o s) = Frames(s) \cup {f}
         /\ Distinct(s) /\ (\A g \in Frames(s) : g.tex # f.tex) => Distinct(<<f>> \o s)
<1> DEFINE a == <<f>> \o s
<1>1. <<f>> \in Seq(Frame) /\ Len(<<f>>) = 1 /\ <<f>>[1] = f
  OBVIOUS
<1>2. /\ a \in Seq(Frame) /\ Len(a) = Len(s) + 1 /\ Len(s) \in Nat
      /\ \A i \in 1 .. Len(s) + 1 : a[i] = IF i = 1 THEN f ELSE s[i - 1]
  BY <1>1, ConcatProperties, LenProperties
<1> HIDE DEF a
<1>3. a[1] = f /\ \A i \in 1 .. Len(s) : a[i + 1] = s[i]
  BY <1>2
<1>4. Frames(s) = {s[i] : i \in 1 .. Len(s)} /\ Frames(a) = {a[i] : i \in 1 .. Len(a)}
  BY <1>2, FramesOf
<1>5. \A i \in 1 .. Len(a) : i = 1 \/ (i - 1 \in 1 .. Len(s) /\ a[i] = s[i - 1])
  BY <1>2
<1>6. Frames(a) = Frames(s) \cup {f}
  <2>1. \A i \in 1 .. Len(s) : i + 1 \in 1 .. Len(a) /\ 1 \in 1 .. Len(a)
    BY <1>2
  <2>2. 1 \in 1 .. Len(a)
    BY <1>2
  <2>3. \A g \in Frames(a) : g = f \/ g \in Frames(s)
    BY <1>3, <1>4, <1>5
  <2>4. f \in Frames(a)
    BY <2>2, <1>3, <1>4
  <2>5. \A g \in Frames(s) : g \in Frames(a)
    BY <2>1, <1>3, <1>4
  <2> QED BY <2>3, <2>4, <2>5
<1>7. ASSUME Distinct(s), \A g \in Frames(s) : g.tex # f.tex
      PROVE  Distinct(a)
  <2>1. \A i \in 1 .. Len(s) : s[i].tex # f.tex
    BY <1>4, <1>7
  <2> SUFFICES ASSUME NEW i \in 1 .. Len(a), NEW j \in 1 .. Len(a), a[i].tex = a[j].tex
               PROVE  i = j
    BY DEF Distinct
  <2>2. i = 1 => j = 1
    BY <2>1, <1>3, <1>5
  <2>3. j = 1 => i = 1
    BY <2>1, <1>3, <1>5
  <2>4. i # 1 /\ j # 1 => i - 1 = j - 1
    <3> SUFFICES ASSUME i # 1, j # 1 PROVE i - 1 = j - 1
      OBVIOUS
    <3>1. i - 1 \in 1 .. Len(s) /\ j - 1 \in 1 .. Len(s) /\ s[i - 1].tex = s[j - 1].tex
      BY <1>5
    <3> QED BY <3>1, <1>7 DEF Distinct
  <2>5. Len(a) \in Nat /\ i \in Nat /\ j \in Nat
    BY <1>2
  <2> QED BY <2>2, <2>3, <2>4, <2>5
<1>8. a # << >>
  BY <1>2, FramesOf
<1> QED BY <1>2, <1>3, <1>6, <1>7, <1>8 DEF a

(* One more tick for the newest texture *)
OneMore(s) == [s EXCEPT ![Len(s)].count = @ + 1]

LEMMA QueueRepeat ==
  ASSUME NEW s \in Seq(Frame), s # << >>, NEW u, u = OneMore(s)
  PROVE  /\ u \in Seq(Frame) /\ Len(u) = Len(s) /\ Len(s) \in Nat /\ Len(s) > 0
         /\ u[Len(s)] = [s[Len(s)] EXCEPT !.count = @ + 1] /\ s[Len(s)] \in Frame
         /\ u[Len(s)] \in Frame
         /\ \A i \in 1 .. Len(s) : i # Len(s) => u[i] = s[i]
         /\ \A f \in Frames(u) : \E g \in Frames(s) :
              /\ f.tex = g.tex /\ f.lock_key = g.lock_key /\ f.released = g.released
              /\ f.timestamp = g.timestamp /\ f.tick = g.tick /\ f.count >= g.count
         /\ Distinct(s) => Distinct(u)
<1>1. /\ Len(s) \in Nat /\ Len(s) > 0 /\ Len(s) \in 1 .. Len(s)
      /\ \A i \in 1 .. Len(s) : s[i] \in Frame
      /\ s \in [1 .. Len(s) -> Frame]
  BY FramesOf, LenProperties, ElementOfSeq
<1> DEFINE new == [s[Len(s)] EXCEPT !.count = @ + 1]
<1>2. /\ new \in Frame /\ new.tex = s[Len(s)].tex /\ new.lock_key = s[Len(s)].lock_key
      /\ new.released = s[Len(s)].released /\ new.timestamp = s[Len(s)].timestamp
      /\ new.tick = s[Len(s)].tick /\ new.count >= s[Len(s)].count
  <2>1. ASSUME NEW r \in Frame
        PROVE  LET n == [r EXCEPT !.count = @ + 1]
               IN /\ n \in Frame /\ n.tex = r.tex /\ n.lock_key = r.lock_key
                  /\ n.released = r.released /\ n.timestamp = r.timestamp
                  /\ n.tick = r.tick /\ n.count >= r.count
    <3> DEFINE n == [r EXCEPT !.count = @ + 1]
    <3>1. r.count \in Nat /\ r.count + 1 \in Nat /\ r.count + 1 >= r.count
      BY DEF Frame
    <3>2. n.count = r.count + 1 /\ n.tex = r.tex /\ n.lock_key = r.lock_key
          /\ n.released = r.released /\ n.timestamp = r.timestamp /\ n.tick = r.tick
      BY DEF Frame
    <3>3. n \in Frame
      BY <3>1 DEF Frame
    <3> QED BY <3>1, <3>2, <3>3
  <2>2. s[Len(s)] \in Frame
    BY <1>1
  <2> QED BY <2>1, <2>2
<1>3. u = [s EXCEPT ![Len(s)] = new]
  BY DEF OneMore
<1> HIDE DEF new
<1>4. u \in Seq(Frame) /\ Len(u) = Len(s)
  BY <1>1, <1>2, <1>3, ExceptSeq
<1>5. u[Len(s)] = new /\ \A i \in 1 .. Len(s) : i # Len(s) => u[i] = s[i]
  BY <1>1, <1>3
<1>6. Frames(s) = {s[i] : i \in 1 .. Len(s)} /\ Frames(u) = {u[i] : i \in 1 .. Len(s)}
  BY <1>4, FramesOf
<1>7. ASSUME NEW i \in 1 .. Len(s)
      PROVE  /\ u[i].tex = s[i].tex /\ u[i].lock_key = s[i].lock_key /\ u[i].released = s[i].released
             /\ u[i].timestamp = s[i].timestamp /\ u[i].tick = s[i].tick /\ u[i].count >= s[i].count
  <2>1. CASE i = Len(s)
    BY <2>1, <1>2, <1>5
  <2>2. CASE i # Len(s)
    <3>1. s[i].count \in Nat
      BY <1>1 DEF Frame
    <3> QED BY <2>2, <3>1, <1>5
  <2> QED BY <2>1, <2>2
<1>8. \A f \in Frames(u) : \E g \in Frames(s) :
              /\ f.tex = g.tex /\ f.lock_key = g.lock_key /\ f.released = g.released
              /\ f.timestamp = g.timestamp /\ f.tick = g.tick /\ f.count >= g.count
  <2> TAKE f \in Frames(u)
  <2>1. PICK i \in 1 .. Len(s) : f = u[i]
    BY <1>6
  <2>2. s[i] \in Frames(s)
    BY <1>6
  <2> QED BY <2>1, <2>2, <1>7
<1>9. Distinct(s) => Distinct(u)
  BY <1>4, <1>7 DEF Distinct
<1> QED BY <1>1, <1>2, <1>4, <1>5, <1>8, <1>9 DEF new

-----------------------------------------------------------------------------
(* Ticks *)

LEMMA TicksSum ==
  ASSUME NEW s \in Seq(Frame)
  PROVE  /\ Ticks(s) = Sum([i \in 1 .. Len(s) |-> s[i].count], Len(s))
         /\ \A i \in 1 .. Len(s) : s[i].count \in Nat
         /\ Len(s) \in Nat /\ Ticks(s) \in Nat
<1> DEFINE c == [i \in 1 .. Len(s) |-> s[i].count]
           G(g) == g = [i \in 0 .. Len(s) |-> IF i = 0 THEN 0 ELSE g[i - 1] + s[i].count]
<1>1. Len(s) \in Nat /\ \A i \in 1 .. Len(s) : s[i].count \in Nat
  <2>1. \A i \in 1 .. Len(s) : s[i] \in Frame
    BY ElementOfSeq
  <2> QED BY <2>1, LenProperties DEF Frame
<1>2. \A g : G(g) <=> IsSums(g, c, Len(s))
  <2> TAKE g
  <2>1. \A i \in 0 .. Len(s) : i = 0 \/ i \in 1 .. Len(s)
    BY <1>1
  <2>2. [i \in 0 .. Len(s) |-> IF i = 0 THEN 0 ELSE g[i - 1] + s[i].count]
          = [i \in 0 .. Len(s) |-> IF i = 0 THEN 0 ELSE g[i - 1] + c[i]]
    BY <2>1
  <2> HIDE DEF c
  <2> QED BY <2>2 DEF IsSums
<1>3. PICK h : IsSums(h, c, Len(s))
  BY <1>1, SumsExist
<1>4. PICK g : G(g) /\ Ticks(s) = g[Len(s)]
  <2>1. G(h)
    BY <1>2, <1>3
  <2> QED BY <2>1 DEF Ticks
<1> HIDE DEF c, G
<1>5. IsSums(g, c, Len(s))
  BY <1>2, <1>4
<1>6. Ticks(s) = Sum(c, Len(s))
  BY <1>1, <1>4, <1>5, SumUnique
<1>7. Sum(c, Len(s)) \in Nat
  <2>1. \A i \in 1 .. Len(s) : c[i] \in Nat
    BY <1>1 DEF c
  <2>2. Len(s) \in 0 .. Len(s)
    BY <1>1
  <2> QED BY <2>1, <2>2, <1>1, SumType
<1> QED BY <1>1, <1>6, <1>7 DEF c

LEMMA TicksEmpty == Ticks(<< >>) = 0
<1>1. << >> \in Seq(Frame) /\ Len(<< >>) = 0
  BY EmptyQueue
<1>2. Ticks(<< >>) = Sum([i \in 1 .. Len(<< >>) |-> << >>[i].count], Len(<< >>))
  BY <1>1, TicksSum
<1> QED BY <1>1, <1>2, SumZero

LEMMA TicksAppend ==
  ASSUME NEW s \in Seq(Frame), NEW f \in Frame
  PROVE  Ticks(Append(s, f)) = Ticks(s) + f.count
<1> DEFINE a == Append(s, f)
           c == [i \in 1 .. Len(s) |-> s[i].count]
           d == [i \in 1 .. Len(a) |-> a[i].count]
<1>1. /\ a \in Seq(Frame) /\ Len(a) = Len(s) + 1 /\ Len(s) \in Nat
      /\ a[Len(a)] = f /\ \A i \in 1 .. Len(s) : a[i] = s[i]
  BY QueueAppend, FramesOf
<1>2. \A i \in 1 .. Len(s) : d[i] = c[i]
  BY <1>1
<1>3. d[Len(a)] = f.count
  BY <1>1
<1>4. Ticks(s) = Sum(c, Len(s)) /\ Ticks(a) = Sum(d, Len(a))
  BY <1>1, TicksSum
<1> HIDE DEF c, d, a
<1>5. Sum(d, Len(a)) = Sum(d, Len(a) - 1) + d[Len(a)]
  BY <1>1, SumStep
<1>6. Sum(d, Len(s)) = Sum(c, Len(s))
  BY <1>1, <1>2, SumEqual
<1> QED BY <1>1, <1>3, <1>4, <1>5, <1>6 DEF a

LEMMA TicksFront ==
  ASSUME NEW s \in Seq(Frame), NEW f \in Frame
  PROVE  Ticks(<<f>> \o s) = f.count + Ticks(s)
<1> DEFINE a == <<f>> \o s
           c == [i \in 1 .. Len(s) |-> s[i].count]
           d == [i \in 1 .. Len(a) |-> a[i].count]
<1>1. /\ a \in Seq(Frame) /\ Len(a) = Len(s) + 1 /\ Len(s) \in Nat
      /\ a[1] = f /\ \A i \in 1 .. Len(s) : a[i + 1] = s[i]
  BY QueueFront, FramesOf
<1>2. \A i \in 1 .. Len(a) - 1 : c[i] = d[i + 1]
  BY <1>1
<1>3. d[1] = f.count
  BY <1>1
<1>4. /\ Ticks(s) = Sum(c, Len(s)) /\ Ticks(a) = Sum(d, Len(a))
      /\ \A i \in 1 .. Len(a) : d[i] \in Nat
  BY <1>1, TicksSum
<1> HIDE DEF c, d, a
<1>5. Sum(d, Len(a)) = d[1] + Sum(c, Len(a) - 1)
  <2>1. Len(a) \in Nat /\ Len(a) > 0
    BY <1>1
  <2> QED BY <2>1, <1>2, <1>4, SumShift
<1> QED BY <1>1, <1>3, <1>4, <1>5 DEF a

LEMMA TicksTail ==
  ASSUME NEW s \in Seq(Frame), s # << >>
  PROVE  Ticks(s) = Head(s).count + Ticks(Tail(s))
<1> DEFINE t == Tail(s)
           c == [i \in 1 .. Len(s) |-> s[i].count]
           d == [i \in 1 .. Len(t) |-> t[i].count]
<1>1. /\ t \in Seq(Frame) /\ Len(t) = Len(s) - 1 /\ Len(s) \in Nat /\ Len(s) > 0
      /\ Head(s) = s[1] /\ \A i \in 1 .. Len(s) - 1 : t[i] = s[i + 1]
  BY QueueTail, FramesOf
<1>2. \A i \in 1 .. Len(s) - 1 : d[i] = c[i + 1]
  BY <1>1
<1>3. c[1] = Head(s).count
  BY <1>1
<1>4. /\ Ticks(s) = Sum(c, Len(s)) /\ Ticks(t) = Sum(d, Len(t))
      /\ \A i \in 1 .. Len(s) : c[i] \in Nat
  BY <1>1, TicksSum
<1> HIDE DEF c, d, t
<1>5. Sum(c, Len(s)) = c[1] + Sum(d, Len(s) - 1)
  BY <1>1, <1>2, <1>4, SumShift
<1> QED BY <1>1, <1>3, <1>4, <1>5 DEF t

LEMMA TicksRepeat ==
  ASSUME NEW s \in Seq(Frame), s # << >>
  PROVE  Ticks(OneMore(s)) = Ticks(s) + 1
<1> DEFINE u == OneMore(s)
           c == [i \in 1 .. Len(s) |-> s[i].count]
           d == [i \in 1 .. Len(u) |-> u[i].count]
<1>1. /\ u \in Seq(Frame) /\ Len(u) = Len(s) /\ Len(s) \in Nat /\ Len(s) > 0
      /\ u[Len(s)] = [s[Len(s)] EXCEPT !.count = @ + 1] /\ s[Len(s)] \in Frame
      /\ \A i \in 1 .. Len(s) : i # Len(s) => u[i] = s[i]
  BY QueueRepeat
<1> HIDE DEF u
<1>2. u[Len(s)].count = s[Len(s)].count + 1 /\ s[Len(s)].count \in Nat
  BY <1>1 DEF Frame
<1>3. Len(s) \in 1 .. Len(s) /\ d[Len(s)] = c[Len(s)] + 1 /\ c[Len(s)] \in Nat
  <2>1. Len(s) \in 1 .. Len(s)
    BY <1>1
  <2>2. d[Len(s)] = u[Len(s)].count /\ c[Len(s)] = s[Len(s)].count
    BY <2>1, <1>1
  <2> QED BY <2>1, <2>2, <1>2
<1>4. \A i \in 1 .. Len(s) : i # Len(s) => c[i] = d[i]
  BY <1>1
<1>5. /\ Ticks(s) = Sum(c, Len(s)) /\ Ticks(u) = Sum(d, Len(s)) /\ Ticks(s) \in Nat
      /\ \A i \in 1 .. Len(s) : c[i] \in Nat /\ d[i] \in Nat
  BY <1>1, TicksSum
<1> HIDE DEF c, d
<1>6. Sum(d, Len(s)) = Sum(c, Len(s)) + d[Len(s)] - c[Len(s)]
  <2> DEFINE n == Len(s)
  <2>1. /\ n \in Nat /\ n \in 1 .. n
        /\ \A i \in 1 .. n : c[i] \in Nat /\ d[i] \in Nat
        /\ \A i \in 1 .. n : i # n => c[i] = d[i]
    BY <1>1, <1>3, <1>4, <1>5
  <2> HIDE DEF n
  <2>2. Sum(d, n) = Sum(c, n) + d[n] - c[n]
    BY <2>1, SumChange
  <2> QED BY <2>2 DEF n
<1> QED BY <1>3, <1>5, <1>6 DEF u

-----------------------------------------------------------------------------
(* queue_frame() keeps every texture in one place and its key.              *)

(* Every texture is in one place: free (a), waiting (b), in the thread (t)  *)
(* or drawn to (c).                                                         *)
Places(a, b, t, c) ==
  /\ Distinct(a) /\ Distinct(b)
  /\ \A f \in Frames(a), g \in Frames(b) : f.tex # g.tex
  /\ \A f \in Frames(a) : f.tex # c
  /\ \A f \in Frames(b) : f.tex # c
  /\ t.count > 0 => /\ t.tex # c
                    /\ \A f \in Frames(a) : f.tex # t.tex
                    /\ \A f \in Frames(b) : f.tex # t.tex

(* Its mutex has the key it is acquired with next. *)
Keyed(a, b, t, c, k) ==
  /\ \A f \in Frames(a) : f.released => k[f.tex] = f.lock_key
  /\ \A f \in Frames(b) : f.count > 0 /\ f.released /\ k[f.tex] = f.lock_key
  /\ k[c] = ByGraphics
  /\ t.count > 0 => t.released /\ k[t.tex] = lock_key

Taken(t) == IF t.count > 0 THEN 1 ELSE 0

(* The keys are from nowhere else. *)
Keys == Nat \cup {ByGraphics}
Queues == [avail : Seq(Frame), queue : Seq(Frame), convert : Textures,
           keys : [Textures -> Keys], posts : Nat]

Sound(q) ==
  /\ q \in Queues
  /\ Places(q.avail, q.queue, tf, q.convert)
  /\ Keyed(q.avail, q.queue, tf, q.convert, q.keys)

(* What a step of queue_frame() does to the queues *)
LEMMA RepeatFields ==
  ASSUME NEW q \in Queues, q.queue # << >>
  PROVE  LET r == Repeat(q)
         IN /\ r \in Queues /\ r.avail = q.avail /\ r.convert = q.convert /\ r.keys = q.keys
            /\ r.posts = q.posts + 1
            /\ r.queue = OneMore(q.queue)
<1> DEFINE r == Repeat(q)
           u == OneMore(q.queue)
<1>1. q.queue \in Seq(Frame) /\ q.posts + 1 \in Nat
  BY DEF Queues
<1>2. u \in Seq(Frame)
  BY <1>1, QueueRepeat
<1>3. /\ r.avail = q.avail /\ r.convert = q.convert /\ r.keys = q.keys
      /\ r.posts = q.posts + 1 /\ r.queue = u
  BY DEF Repeat, Queues, OneMore
<1>4. r = [q EXCEPT !.queue = u, !.posts = @ + 1]
  BY DEF Repeat, OneMore
<1> HIDE DEF u
<1>5. r \in Queues
  BY <1>1, <1>2, <1>4 DEF Queues
<1> QED BY <1>3, <1>5 DEF u

(* The texture that takes the place of the free one in the queue *)
NewFrame(q, info, left, raw) ==
  [tex |-> IF raw \/ left > 1 THEN Head(q.avail).tex ELSE q.convert,
   lock_key |-> Head(q.avail).lock_key + 1, released |-> TRUE,
   count |-> 1, timestamp |-> info.timestamp, tick |-> info.timestamp + info.count - left]

LEMMA FillFields ==
  ASSUME NEW q \in Queues, q.avail # << >>, NEW info, NEW raw \in BOOLEAN, NEW left \in Nat,
         info.timestamp \in Nat, info.count \in Nat, left <= info.count
  PROVE  LET r == Fill(q, info, left, raw)
             new == NewFrame(q, info, left, raw)
             free == Head(q.avail)
         IN /\ r \in Queues /\ new \in Frame /\ free \in Frame
            /\ r.avail = Tail(q.avail) /\ r.queue = Append(q.queue, new) /\ r.posts = q.posts + 1
            /\ IF raw \/ left > 1 THEN r.convert = q.convert /\ new.tex = free.tex
               ELSE r.convert = free.tex /\ new.tex = q.convert
            /\ r.keys[new.tex] = new.lock_key
            /\ free.tex # new.tex => r.keys[free.tex] = ByGraphics
            /\ \A t \in Textures : t # new.tex /\ t # free.tex => r.keys[t] = q.keys[t]
<1> DEFINE r == Fill(q, info, left, raw)
           new == NewFrame(q, info, left, raw)
           free == Head(q.avail)
           k == [[q.keys EXCEPT ![free.tex] = ByGraphics] EXCEPT ![new.tex] = new.lock_key]
           c == IF raw \/ left > 1 THEN q.convert ELSE free.tex
<1>1. /\ q.avail \in Seq(Frame) /\ q.queue \in Seq(Frame) /\ q.convert \in Textures
      /\ q.keys \in [Textures -> Keys] /\ q.posts + 1 \in Nat
  BY DEF Queues
<1>2. free \in Frame /\ Tail(q.avail) \in Seq(Frame)
  BY <1>1, QueueTail
<1>3. free.tex \in Textures /\ free.lock_key \in Nat
  BY <1>2 DEF Frame
<1>4. new.lock_key = free.lock_key + 1 /\ new.tex = IF raw \/ left > 1 THEN free.tex ELSE q.convert
  BY DEF NewFrame
<1>5. new \in Frame
  <2>1. info.timestamp + info.count - left \in Nat
    OBVIOUS
  <2>2. (IF raw \/ left > 1 THEN free.tex ELSE q.convert) \in Textures
    BY <1>1, <1>3
  <2> QED BY <2>1, <2>2, <1>3 DEF NewFrame, Frame
<1>6. Append(q.queue, new) \in Seq(Frame)
  BY <1>1, <1>5, QueueAppend
<1>7. r = [q EXCEPT !.avail = Tail(q.avail), !.queue = Append(q.queue, new), !.convert = c,
                    !.keys = k, !.posts = q.posts + 1]
  BY DEF Fill, NewFrame
<1>8. new.tex \in Textures /\ new.lock_key \in Nat
  BY <1>5 DEF Frame
<1>9. /\ k \in [Textures -> Keys]
      /\ k[new.tex] = new.lock_key
      /\ free.tex # new.tex => k[free.tex] = ByGraphics
      /\ \A t \in Textures : t # new.tex /\ t # free.tex => k[t] = q.keys[t]
  <2> HIDE DEF new, free
  <2> QED BY <1>1, <1>3, <1>8 DEF Keys, k
<1>10. c \in Textures
  BY <1>1, <1>3
<1> HIDE DEF new, free, k, c, r
<1>11. r \in Queues
  BY <1>1, <1>2, <1>6, <1>7, <1>9, <1>10 DEF Queues
<1>12. /\ r.avail = Tail(q.avail) /\ r.queue = Append(q.queue, new) /\ r.convert = c
       /\ r.keys = k /\ r.posts = q.posts + 1
  BY <1>7 DEF Queues
<1>13. /\ r.keys[new.tex] = new.lock_key
       /\ free.tex # new.tex => r.keys[free.tex] = ByGraphics
       /\ \A t \in Textures : t # new.tex /\ t # free.tex => r.keys[t] = q.keys[t]
  BY <1>9, <1>12
<1>14. IF raw \/ left > 1 THEN r.convert = q.convert /\ new.tex = free.tex
       ELSE r.convert = free.tex /\ new.tex = q.convert
  BY <1>4, <1>12 DEF c
<1> QED BY <1>2, <1>5, <1>11, <1>12, <1>13, <1>14 DEF new, free, r

LEMMA RepeatSound ==
  ASSUME NEW q, Sound(q), q.queue # << >>
  PROVE  Sound(Repeat(q))
<1> DEFINE r == Repeat(q)
<1>1. q \in Queues /\ q.queue \in Seq(Frame)
  BY DEF Sound, Queues
<1>2. /\ r \in Queues /\ r.avail = q.avail /\ r.convert = q.convert /\ r.keys = q.keys
      /\ r.queue = OneMore(q.queue)
  BY <1>1, RepeatFields
<1>3. /\ \A f \in Frames(r.queue) : \E g \in Frames(q.queue) :
              /\ f.tex = g.tex /\ f.lock_key = g.lock_key /\ f.released = g.released
              /\ f.count >= g.count
      /\ Distinct(q.queue) => Distinct(r.queue)
      /\ r.queue \in Seq(Frame)
  BY <1>1, <1>2, QueueRepeat
<1>4. /\ \A f \in Frames(r.queue) : f.count \in Nat
      /\ \A f \in Frames(q.queue) : f.count \in Nat
  BY <1>1, <1>3, FramesOf DEF Frame
<1> HIDE DEF r
<1>5. Places(r.avail, r.queue, tf, r.convert)
  <2>1. Places(q.avail, q.queue, tf, q.convert)
    BY DEF Sound
  <2>2. Distinct(r.avail) /\ Distinct(r.queue)
    BY <2>1, <1>2, <1>3 DEF Places
  <2>3. \A f \in Frames(r.avail), g \in Frames(r.queue) : f.tex # g.tex
    BY <2>1, <1>2, <1>3 DEF Places
  <2>4. \A f \in Frames(r.queue) : f.tex # r.convert /\ (tf.count > 0 => f.tex # tf.tex)
    BY <2>1, <1>2, <1>3 DEF Places
  <2> QED BY <2>1, <2>2, <2>3, <2>4, <1>2 DEF Places
<1>6. Keyed(r.avail, r.queue, tf, r.convert, r.keys)
  <2>1. Keyed(q.avail, q.queue, tf, q.convert, q.keys)
    BY DEF Sound
  <2> SUFFICES ASSUME NEW f \in Frames(r.queue)
               PROVE  f.count > 0 /\ f.released /\ r.keys[f.tex] = f.lock_key
    BY <2>1, <1>2 DEF Keyed
  <2>2. PICK g \in Frames(q.queue) : /\ f.tex = g.tex /\ f.lock_key = g.lock_key
                                     /\ f.released = g.released /\ f.count >= g.count
    BY <1>3
  <2>3. g.count > 0 /\ g.released /\ q.keys[g.tex] = g.lock_key
    BY <2>1 DEF Keyed
  <2> QED BY <2>2, <2>3, <1>2, <1>4
<1> QED BY <1>2, <1>5, <1>6 DEF Sound, r

(* The free texture, or the one drawn, goes into the queue; the other one   *)
(* is not there.                                                            *)
LEMMA FillSound ==
  ASSUME NEW q, Sound(q), q.avail # << >>, NEW info, NEW raw \in BOOLEAN, NEW left \in Nat,
         info.timestamp \in Nat, info.count \in Nat, left <= info.count, tf \in Frame
  PROVE  Sound(Fill(q, info, left, raw))
<1> DEFINE r == Fill(q, info, left, raw)
           new == NewFrame(q, info, left, raw)
           free == Head(q.avail)
<1>1. q \in Queues /\ q.queue \in Seq(Frame) /\ q.avail \in Seq(Frame) /\ q.convert \in Textures
  BY DEF Sound, Queues
<1>2. /\ r \in Queues /\ new \in Frame /\ free \in Frame
      /\ r.avail = Tail(q.avail) /\ r.queue = Append(q.queue, new)
      /\ IF raw \/ left > 1 THEN r.convert = q.convert /\ new.tex = free.tex
         ELSE r.convert = free.tex /\ new.tex = q.convert
      /\ r.keys[new.tex] = new.lock_key
      /\ free.tex # new.tex => r.keys[free.tex] = ByGraphics
      /\ \A t \in Textures : t # new.tex /\ t # free.tex => r.keys[t] = q.keys[t]
  BY <1>1, FillFields
<1>3. new.count = 1 /\ new.released
  BY DEF NewFrame
<1>4. /\ Frames(q.avail) = Frames(r.avail) \cup {free}
      /\ Distinct(q.avail) => Distinct(r.avail) /\ \A g \in Frames(r.avail) : g.tex # free.tex
  BY <1>1, <1>2, QueueTail
<1>5. /\ Frames(r.queue) = Frames(q.queue) \cup {new}
      /\ Distinct(q.queue) /\ (\A g \in Frames(q.queue) : g.tex # new.tex) => Distinct(r.queue)
  BY <1>1, <1>2, QueueAppend
<1> HIDE DEF r, new, free
<1>6. /\ \A f \in Frames(q.avail) \cup Frames(q.queue) : f.tex \in Textures
      /\ tf.tex \in Textures
  <2>1. \A f \in Frames(q.avail) \cup Frames(q.queue) : f \in Frame
    BY <1>1, FramesOf
  <2> QED BY <2>1 DEF Frame
<1>7. /\ \A f \in Frames(r.avail) : f.tex # free.tex /\ f.tex # q.convert
                                    /\ \A g \in Frames(q.queue) : f.tex # g.tex
      /\ \A f \in Frames(q.queue) : f.tex # free.tex /\ f.tex # q.convert
      /\ free.tex # q.convert
      /\ tf.count > 0 => /\ tf.tex # free.tex /\ tf.tex # q.convert
                         /\ \A f \in Frames(r.avail) \cup Frames(q.queue) : f.tex # tf.tex
      /\ Distinct(r.avail) /\ Distinct(q.queue)
  BY <1>4 DEF Sound, Places
<1>8. Places(r.avail, r.queue, tf, r.convert)
  <2>1. CASE raw \/ left > 1
    <3>1. r.convert = q.convert /\ new.tex = free.tex
      BY <2>1, <1>2
    <3> QED BY <3>1, <1>5, <1>7 DEF Places
  <2>2. CASE ~(raw \/ left > 1)
    <3>1. r.convert = free.tex /\ new.tex = q.convert
      BY <2>2, <1>2
    <3> QED BY <3>1, <1>5, <1>7 DEF Places
  <2> QED BY <2>1, <2>2
<1>9. /\ \A f \in Frames(r.avail) : r.keys[f.tex] = q.keys[f.tex]
      /\ \A f \in Frames(q.queue) : r.keys[f.tex] = q.keys[f.tex]
      /\ tf.count > 0 => r.keys[tf.tex] = q.keys[tf.tex]
      /\ r.keys[r.convert] = ByGraphics
  <2>1. CASE raw \/ left > 1
    <3>1. r.convert = q.convert /\ new.tex = free.tex
      BY <2>1, <1>2
    <3>2. q.keys[q.convert] = ByGraphics
      BY DEF Sound, Keyed
    <3> QED BY <3>1, <3>2, <1>1, <1>2, <1>4, <1>6, <1>7
  <2>2. CASE ~(raw \/ left > 1)
    <3>1. r.convert = free.tex /\ new.tex = q.convert
      BY <2>2, <1>2
    <3> QED BY <3>1, <1>1, <1>2, <1>4, <1>6, <1>7
  <2> QED BY <2>1, <2>2
<1>10. Keyed(r.avail, r.queue, tf, r.convert, r.keys)
  BY <1>2, <1>3, <1>4, <1>5, <1>9 DEF Sound, Keyed
<1> QED BY <1>2, <1>8, <1>10 DEF Sound, r

-----------------------------------------------------------------------------
(* encode_gpu() hands over the ticks of a frame, one queue_frame() each.    *)

(* The first tick of s, or the next one to come when s is empty, is x. *)
Starts(s, next, x) == IF s = << >> THEN next = x ELSE s[1].tick = x

(* From the last tick that left the thread over the texture in the thread   *)
(* and the queue to the next tick of the graphics thread, no tick is left   *)
(* out.                                                                     *)
Line(t, s, tick, next) ==
  /\ \A i \in 1 .. Len(s) - 1 : s[i + 1].tick = s[i].tick + s[i].count
  /\ s # << >> => s[Len(s)].tick + s[Len(s)].count = next
  /\ t.count > 0 => /\ Starts(s, next, t.tick + t.count)
                    /\ tick > 0 => t.tick = tick + 1
  /\ t.count = 0 /\ tick > 0 => Starts(s, next, tick + 1)

(* Stamps are at most m - 1 ticks old. *)
Close(s, m) == \A f \in Frames(s) : f.tick - f.timestamp \in 0 .. m - 1

LEMMA RepeatLine ==
  ASSUME NEW s \in Seq(Frame), s # << >>, NEW next \in Nat, Line(tf, s, gpu_tick, next),
         NEW u, u = OneMore(s)
  PROVE  Line(tf, u, gpu_tick, next + 1)
<1>1. /\ u \in Seq(Frame) /\ Len(u) = Len(s) /\ Len(s) \in Nat /\ Len(s) > 0
      /\ u[Len(s)] = [s[Len(s)] EXCEPT !.count = @ + 1] /\ s[Len(s)] \in Frame
      /\ \A i \in 1 .. Len(s) : i # Len(s) => u[i] = s[i]
  BY QueueRepeat
<1>2. /\ u[Len(s)].tick = s[Len(s)].tick /\ u[Len(s)].count = s[Len(s)].count + 1
      /\ s[Len(s)].count \in Nat /\ s[Len(s)].tick \in Nat
  BY <1>1 DEF Frame
<1>3. u # << >>
  BY <1>1, FramesOf
<1>4. \A i \in 1 .. Len(s) : u[i].tick = s[i].tick
  BY <1>1, <1>2
<1>5. 1 \in 1 .. Len(s) /\ u[1].tick = s[1].tick
  BY <1>1, <1>4
<1>6. \A i \in 1 .. Len(u) - 1 : u[i + 1].tick = u[i].tick + u[i].count
  <2> TAKE i \in 1 .. Len(u) - 1
  <2>1. i \in 1 .. Len(s) /\ i # Len(s) /\ i + 1 \in 1 .. Len(s) /\ i \in 1 .. Len(s) - 1
    BY <1>1
  <2>2. s[i + 1].tick = s[i].tick + s[i].count
    BY <2>1 DEF Line
  <2>3. u[i] = s[i] /\ u[i + 1].tick = s[i + 1].tick
    BY <2>1, <1>1, <1>4
  <2> QED BY <2>2, <2>3
<1>7. u[Len(u)].tick + u[Len(u)].count = next + 1
  <2>1. u[Len(u)] = u[Len(s)] /\ s[Len(s)].tick + s[Len(s)].count = next /\ next \in Nat
    BY <1>1 DEF Line
  <2>2. (s[Len(s)].tick + (s[Len(s)].count + 1)) = (s[Len(s)].tick + s[Len(s)].count) + 1
    BY <1>2
  <2> QED BY <2>1, <2>2, <1>2
<1> QED BY <1>3, <1>5, <1>6, <1>7 DEF Line, Starts

LEMMA FillLine ==
  ASSUME NEW s \in Seq(Frame), NEW next \in Nat, Line(tf, s, gpu_tick, next),
         NEW f \in Frame, f.tick = next, f.count = 1
  PROVE  Line(tf, Append(s, f), gpu_tick, next + 1)
<1> DEFINE u == Append(s, f)
<1>1. /\ u \in Seq(Frame) /\ Len(u) = Len(s) + 1 /\ u # << >> /\ u[Len(s) + 1] = f
      /\ \A i \in 1 .. Len(s) : u[i] = s[i]
      /\ Len(s) \in Nat /\ (s = << >> <=> Len(s) = 0)
  BY QueueAppend, FramesOf
<1> HIDE DEF u
<1>2. u[1].tick = IF s = << >> THEN next ELSE s[1].tick
  BY <1>1
<1>3. \A i \in 1 .. Len(u) - 1 : u[i + 1].tick = u[i].tick + u[i].count
  <2> TAKE i \in 1 .. Len(u) - 1
  <2>1. i \in 1 .. Len(s)
    BY <1>1
  <2>2. CASE i = Len(s)
    <3>1. s # << >> /\ u[i] = s[Len(s)] /\ u[i + 1] = f
      BY <2>1, <2>2, <1>1
    <3> QED BY <3>1 DEF Line
  <2>3. CASE i # Len(s)
    <3>1. i + 1 \in 1 .. Len(s) /\ i \in 1 .. Len(s) - 1
      BY <2>1, <2>3, <1>1
    <3>2. s[i + 1].tick = s[i].tick + s[i].count
      BY <3>1 DEF Line
    <3> QED BY <3>1, <3>2, <2>1, <1>1
  <2> QED BY <2>2, <2>3
<1>4. u[Len(u)].tick + u[Len(u)].count = next + 1
  BY <1>1
<1> QED BY <1>1, <1>2, <1>3, <1>4 DEF Line, Starts, u

(* What encode_gpu() has done after some of its ticks *)
Handed(q, info, i, m) ==
  /\ Sound(q)
  /\ Len(q.avail) + Len(q.queue) = Len(avail) + Len(queue)
  /\ Ticks(q.queue) = Ticks(queue) + q.posts
  /\ Len(avail) + Len(queue) > 0 => Line(tf, q.queue, gpu_tick, info.timestamp + i)
  /\ Close(q.queue, m)

LEMMA QueueFrameStep ==
  ASSUME NEW m \in Nat, NEW info \in [timestamp : Nat, count : 1 .. m], NEW raw \in BOOLEAN,
         tf \in Frame, avail \in Seq(Frame), queue \in Seq(Frame),
         NEW i \in 1 .. info.count, NEW q, Handed(q, info, i - 1, m)
  PROVE  Handed(QueueFrame(q, info, info.count - i + 1, raw), info, i, m)
<1> DEFINE left == info.count - i + 1
           r == QueueFrame(q, info, left, raw)
<1>1. /\ left \in Nat /\ left > 0 /\ left <= info.count /\ info.timestamp \in Nat
      /\ info.count \in Nat /\ info.count <= m /\ i \in Nat
      /\ info.timestamp + info.count - left = info.timestamp + (i - 1)
      /\ info.timestamp + i = info.timestamp + (i - 1) + 1
      /\ info.timestamp + (i - 1) \in Nat
  OBVIOUS
<1>2. /\ Sound(q) /\ q \in Queues /\ q.queue \in Seq(Frame) /\ q.avail \in Seq(Frame)
      /\ q.posts \in Nat
      /\ Len(q.avail) \in Nat /\ Len(q.queue) \in Nat /\ Len(avail) \in Nat /\ Len(queue) \in Nat
      /\ (q.queue = << >> <=> Len(q.queue) = 0) /\ (q.avail = << >> <=> Len(q.avail) = 0)
  <2>1. Sound(q) /\ q \in Queues
    BY DEF Handed, Sound
  <2>2. q.queue \in Seq(Frame) /\ q.avail \in Seq(Frame) /\ q.posts \in Nat
    BY <2>1 DEF Queues
  <2> QED BY <2>1, <2>2, FramesOf
<1>3. /\ Ticks(queue) \in Nat /\ Ticks(q.queue) = Ticks(queue) + q.posts
      /\ Len(q.avail) + Len(q.queue) = Len(avail) + Len(queue)
  BY TicksSum DEF Handed
<1> HIDE DEF left
<1>4. CASE Duplicate(q, left) /\ q.queue = << >>
  <2>1. r = q
    BY <1>4 DEF QueueFrame, Repeat
  <2>2. q.avail = << >>
    BY <1>4 DEF Duplicate
  <2>3. ~(Len(avail) + Len(queue) > 0)
    BY <2>2, <1>2, <1>4 DEF Handed
  <2> QED BY <2>1, <2>3 DEF Handed, left
<1>5. CASE Duplicate(q, left) /\ q.queue # << >>
  <2>1. r = Repeat(q)
    BY <1>5 DEF QueueFrame
  <2>2. /\ r.avail = q.avail /\ r.posts = q.posts + 1
        /\ r.queue = OneMore(q.queue)
    BY <2>1, <1>2, <1>5, RepeatFields
  <2>3. Sound(r)
    BY <2>1, <1>2, <1>5, RepeatSound
  <2> HIDE DEF r
  <2>4. /\ Len(r.queue) = Len(q.queue)
        /\ \A f \in Frames(r.queue) : \E g \in Frames(q.queue) :
             f.timestamp = g.timestamp /\ f.tick = g.tick
    <3>1. q.queue \in Seq(Frame) /\ q.queue # << >> /\ r.queue = OneMore(q.queue)
      BY <2>2, <1>2, <1>5
    <3>2. /\ Len(r.queue) = Len(q.queue)
          /\ \A f \in Frames(r.queue) : \E g \in Frames(q.queue) :
               /\ f.tex = g.tex /\ f.lock_key = g.lock_key /\ f.released = g.released
               /\ f.timestamp = g.timestamp /\ f.tick = g.tick /\ f.count >= g.count
      BY <3>1, QueueRepeat
    <3> QED BY <3>2
  <2>5. Ticks(r.queue) = Ticks(q.queue) + 1
    BY <2>2, <1>2, <1>5, TicksRepeat
  <2>6. Len(avail) + Len(queue) > 0 => Line(tf, r.queue, gpu_tick, info.timestamp + i)
    <3> SUFFICES ASSUME Len(avail) + Len(queue) > 0
                 PROVE  Line(tf, r.queue, gpu_tick, info.timestamp + (i - 1) + 1)
      BY <1>1
    <3>1. Line(tf, q.queue, gpu_tick, info.timestamp + (i - 1))
      BY DEF Handed
    <3> QED BY <3>1, <2>2, <1>1, <1>2, <1>5, RepeatLine
  <2>7. Close(r.queue, m)
    BY <2>4 DEF Handed, Close
  <2>8. Ticks(r.queue) = Ticks(queue) + r.posts
    BY <2>2, <2>5, <1>2, <1>3
  <2>9. Len(r.avail) + Len(r.queue) = Len(avail) + Len(queue)
    BY <2>2, <2>4, <1>3
  <2> QED BY <2>3, <2>6, <2>7, <2>8, <2>9 DEF Handed, r, left
<1>6. CASE ~Duplicate(q, left)
  <2> DEFINE new == NewFrame(q, info, left, raw)
  <2>1. r = Fill(q, info, left, raw) /\ q.avail # << >>
    BY <1>6 DEF QueueFrame, Duplicate
  <2>2. /\ r.avail = Tail(q.avail) /\ r.posts = q.posts + 1 /\ new \in Frame
        /\ r.queue = Append(q.queue, new)
    <3> DEFINE fill == Fill(q, info, left, raw)
    <3>1. /\ fill.avail = Tail(q.avail) /\ fill.posts = q.posts + 1 /\ new \in Frame
          /\ fill.queue = Append(q.queue, new)
      <4>1. q \in Queues /\ q.avail # << >> /\ info.timestamp \in Nat /\ info.count \in Nat
            /\ left \in Nat /\ left <= info.count
        BY <2>1, <1>1, <1>2
      <4> QED BY <4>1, FillFields
    <3> HIDE DEF new, fill, r
    <3>2. r = fill
      BY <2>1 DEF fill
    <3> QED BY <3>1, <3>2
  <2>3. Sound(r)
    BY <2>1, <1>1, <1>2, FillSound
  <2>4. new.count = 1 /\ new.tick = info.timestamp + (i - 1) /\ new.timestamp = info.timestamp
    BY <1>1 DEF NewFrame
  <2> HIDE DEF r, new
  <2>5. /\ Len(r.queue) = Len(q.queue) + 1 /\ Frames(r.queue) = Frames(q.queue) \cup {new}
    BY <2>2, <1>2, QueueAppend
  <2>6. Len(r.avail) = Len(q.avail) - 1
    BY <2>1, <2>2, <1>2, QueueTail
  <2>7. Ticks(r.queue) = Ticks(q.queue) + 1
    BY <2>2, <2>4, <1>2, TicksAppend
  <2>8. Len(avail) + Len(queue) > 0 => Line(tf, r.queue, gpu_tick, info.timestamp + i)
    <3> SUFFICES ASSUME Len(avail) + Len(queue) > 0
                 PROVE  Line(tf, r.queue, gpu_tick, info.timestamp + (i - 1) + 1)
      BY <1>1
    <3>1. Line(tf, q.queue, gpu_tick, info.timestamp + (i - 1))
      BY DEF Handed
    <3> QED BY <3>1, <2>2, <2>4, <1>1, <1>2, FillLine
  <2>9. Close(r.queue, m)
    <3>1. new.tick - new.timestamp \in 0 .. m - 1
      BY <2>4, <1>1
    <3> QED BY <3>1, <2>5 DEF Handed, Close
  <2>10. Ticks(r.queue) = Ticks(queue) + r.posts
    BY <2>2, <2>7, <1>2, <1>3
  <2>11. Len(r.avail) + Len(r.queue) = Len(avail) + Len(queue)
    <3> DEFINE x == Len(r.avail) y == Len(r.queue) v == Len(q.avail) w == Len(q.queue)
    <3>1. y = w + 1 /\ x = v - 1 /\ v \in Nat /\ w \in Nat /\ v + w = Len(avail) + Len(queue)
      BY <2>5, <2>6, <1>2, <1>3
    <3> HIDE DEF x, y, v, w
    <3>2. x + y = v + w
      BY <3>1
    <3> QED BY <3>1, <3>2 DEF x, y, v, w
  <2> QED BY <2>3, <2>8, <2>9, <2>10, <2>11 DEF Handed, r, left
<1> QED BY <1>4, <1>5, <1>6 DEF left

(* encode_gpu(), whose loop is a function of the ticks done *)
LEMMA EncodeGpuHands ==
  ASSUME NEW m \in Nat, NEW info \in [timestamp : Nat, count : 1 .. m], NEW raw \in BOOLEAN,
         tf \in Frame, avail \in Seq(Frame), queue \in Seq(Frame), gpu_semaphore \in Nat,
         EncodeGpu(info, raw), NEW start,
         start = [avail |-> avail, queue |-> queue, convert |-> convert_texture,
                  keys |-> keys, posts |-> 0],
         Handed(start, info, 0, m)
  PROVE  \E q : /\ Handed(q, info, info.count, m)
                /\ avail' = q.avail /\ queue' = q.queue /\ convert_texture' = q.convert
                /\ keys' = q.keys /\ gpu_semaphore' = gpu_semaphore + q.posts
<1> DEFINE n == info.count
           Step(q, i) == QueueFrame(q, info, n - i + 1, raw)
           G(g, k) == g = [i \in 0 .. k |-> IF i = 0 THEN start ELSE Step(g[i - 1], i)]
           T == {k \in 0 .. n : \E g : G(g, k)}
<1>1. n \in Nat /\ n >= 1 /\ n \in 0 .. n
  OBVIOUS
<1> HIDE DEF n
<1>2. 0 \in T
  <2> HIDE DEF Step
  <2> DEFINE z == [i \in 0 .. 0 |-> start]
  <2>1. G(z, 0)
    OBVIOUS
  <2> HIDE DEF z, G
  <2> QED BY <2>1, <1>1
<1>3. ASSUME NEW k \in 1 .. n, k - 1 \in T
      PROVE  k \in T
  <2>1. PICK g : G(g, k - 1)
    BY <1>3
  <2> HIDE DEF Step
  <2> DEFINE h == [i \in 0 .. k |-> IF i = k THEN Step(g[k - 1], k) ELSE g[i]]
  <2>2. \A i \in 0 .. k : i = k \/ i \in 0 .. k - 1
    OBVIOUS
  <2>3. \A i \in 0 .. k - 1 : h[i] = g[i] /\ g[i] = IF i = 0 THEN start ELSE Step(g[i - 1], i)
    BY <2>1
  <2>4. h[k] = Step(h[k - 1], k)
    BY <2>3
  <2>5. \A i \in 0 .. k : h[i] = IF i = 0 THEN start ELSE Step(h[i - 1], i)
    <3> HIDE DEF h, G
    <3> TAKE i \in 0 .. k
    <3>1. CASE i = k
      BY <3>1, <2>4
    <3>2. CASE i \in 0 .. k - 1 /\ i # 0
      <4>1. i - 1 \in 0 .. k - 1
        BY <3>2
      <4> QED BY <4>1, <3>2, <2>3
    <3>3. CASE i = 0
      <4>1. 0 \in 0 .. k - 1
        OBVIOUS
      <4> QED BY <4>1, <3>3, <2>3
    <3> QED BY <3>1, <3>2, <3>3, <2>2
  <2>6. G(h, k)
    <3>1. h = [i \in 0 .. k |-> h[i]]
      OBVIOUS
    <3> HIDE DEF h
    <3> QED BY <2>5, <3>1
  <2> HIDE DEF G, h
  <2> QED BY <2>6
<1>4. \E g : G(g, n)
  <2> HIDE DEF T
  <2>1. n \in T
    BY <1>1, <1>2, <1>3, IntervalInduction
  <2> QED BY <2>1 DEF T
<1>5. \E g : /\ G(g, n)
             /\ avail' = g[n].avail /\ queue' = g[n].queue /\ convert_texture' = g[n].convert
             /\ keys' = g[n].keys /\ gpu_semaphore' = gpu_semaphore + g[n].posts
  <2> DEFINE c == CHOOSE g : G(g, n)
  <2>1. G(c, n)
    <3> HIDE DEF G
    <3> QED BY <1>4
  <2>2. /\ avail' = c[n].avail /\ queue' = c[n].queue /\ convert_texture' = c[n].convert
        /\ keys' = c[n].keys /\ gpu_semaphore' = gpu_semaphore + c[n].posts
    BY Zenon DEF EncodeGpu, n
  <2> HIDE DEF c, G
  <2> QED BY <2>1, <2>2
<1>6. PICK g : /\ G(g, n)
               /\ avail' = g[n].avail /\ queue' = g[n].queue /\ convert_texture' = g[n].convert
               /\ keys' = g[n].keys /\ gpu_semaphore' = gpu_semaphore + g[n].posts
  BY <1>5
<1> DEFINE U == {k \in 0 .. n : Handed(g[k], info, k, m)}
<1>7. 0 \in U
  <2>1. g[0] = start
    BY <1>1, <1>6
  <2> QED BY <2>1, <1>1
<1>8. ASSUME NEW k \in 1 .. n, k - 1 \in U
      PROVE  k \in U
  <2>1. g[k] = Step(g[k - 1], k) /\ k \in 1 .. info.count
    <3> HIDE DEF Step
    <3> QED BY <1>1, <1>6 DEF n
  <2>2. Handed(g[k - 1], info, k - 1, m)
    BY <1>8
  <2>3. Handed(QueueFrame(g[k - 1], info, info.count - k + 1, raw), info, k, m)
    BY <2>1, <2>2, QueueFrameStep
  <2> QED BY <2>1, <2>3 DEF n
<1>9. n \in U
  <2> HIDE DEF U
  <2> QED BY <1>1, <1>7, <1>8, IntervalInduction
<1> QED BY <1>6, <1>9 DEF n

-----------------------------------------------------------------------------
(* The invariant                                                            *)

GpuTypes ==
  /\ avail \in Seq(Frame) /\ queue \in Seq(Frame) /\ tf \in Frame
  /\ convert_texture \in Textures /\ keys \in [Textures -> Keys]
  /\ gpu_semaphore \in Nat /\ wait_frames \in 0 .. WaitFrames /\ gpu_tick \in Nat
  /\ lock_key \in Nat /\ next_key \in Nat /\ lock_count \in Nat
  /\ gpu_thread \in {"none", "wait", "woken", "reset", "pop", "encode", "blocked", "left"}
  /\ gpu_exists \in BOOLEAN /\ gpu_stop \in BOOLEAN
  /\ encoders \in Seq(Encoders) /\ gpu_encoders \in Seq(Encoders)
  /\ start_ts \subseteq Encoders /\ failed \subseteq Encoders
  /\ gpu_counter \in [Encoders -> Nat]
  /\ stopping \in [Encoders -> {"no", "wait", "last", "join", "free"}]

(* The last encoder is being stopped. *)
Closing(e) == stopping[e] \in {"last", "join", "free"}

(* Encoders that run are listed once; one is stopped at a time, unless the  *)
(* thread is caught in a stop of its own; the queue is there from the start *)
(* of the first encoder until the stop of the last one has freed it.        *)
Once(s) == \A i, j \in 1 .. Len(s) : s[i] = s[j] => i = j

GpuUsers ==
  /\ gpu_encoder_active = Len(gpu_encoders) /\ Once(gpu_encoders)
  /\ \A e \in Frames(gpu_encoders) : stopping[e] = "no"
  /\ \A e, x \in Encoders : stopping[e] # "no" /\ stopping[x] # "no" /\ e # x
                              => gpu_thread = "blocked"
  /\ \A e \in Encoders : Closing(e) => gpu_encoders = << >>
  /\ gpu_exists <=> gpu_encoders # << >> \/ \E e \in Encoders : Closing(e)
  /\ \A e \in Encoders : stopping[e] # "no" => gpu_exists
  /\ \A e \in Encoders : stopping[e] \in {"join", "free"} => gpu_stop /\ gpu_thread # "blocked"
  /\ \A e \in Encoders : stopping[e] = "free" => gpu_thread = "none"

(* What the thread holds at each of its places *)
GpuThreadAt ==
  /\ gpu_inactive <=> gpu_thread \notin {"pop", "encode", "blocked"}
  /\ ~gpu_exists => gpu_thread = "none"
  /\ gpu_exists /\ gpu_stop => gpu_encoders = << >> /\ gpu_thread # "blocked"
  /\ gpu_thread \in {"encode", "blocked"} <=> tf.count > 0
  /\ gpu_thread \notin {"encode", "blocked"} => encoders = << >>
  /\ gpu_thread = "encode" => next_key = lock_key
  /\ gpu_thread \in {"reset", "pop"} => wait_frames = 0 /\ queue # << >>
  /\ \A e \in Frames(encoders) : e \in Frames(gpu_encoders) \/ stopping[e] # "no"

(* Where the textures are *)
Stock ==
  /\ Places(avail, queue, tf, convert_texture)
  /\ Keyed(avail, queue, tf, convert_texture, keys)
  /\ gpu_exists => Len(avail) + Len(queue) + Taken(tf) = NumTextures
  /\ ~gpu_exists => avail = << >> /\ queue = << >> /\ gpu_tick = 0

GpuInv == GpuTypes /\ GpuUsers /\ GpuThreadAt /\ Stock /\ SemaphoreMatches

-----------------------------------------------------------------------------
(* Lists of encoders *)
LEMMA ListOf ==
  ASSUME NEW s \in Seq(Encoders)
  PROVE  /\ Frames(s) = {s[i] : i \in 1 .. Len(s)} /\ Frames(s) \subseteq Encoders
         /\ Len(s) \in Nat /\ (s = << >> <=> Len(s) = 0) /\ (s = << >> <=> Frames(s) = {})
<1>1. DOMAIN s = 1 .. Len(s) /\ \A i \in 1 .. Len(s) : s[i] \in Encoders
  BY LenProperties, ElementOfSeq
<1>2. Frames(s) = {s[i] : i \in 1 .. Len(s)} /\ Len(s) \in Nat /\ (s = << >> <=> Len(s) = 0)
  BY <1>1, LenProperties, EmptySeq DEF Frames
<1>3. s # << >> => 1 \in 1 .. Len(s)
  BY <1>2
<1>4. s # << >> <=> Frames(s) # {}
  <2>1. ASSUME s # << >> PROVE Frames(s) # {}
    <3>1. s[1] \in Frames(s)
      BY <2>1, <1>2, <1>3
    <3> QED BY <3>1
  <2>2. ASSUME s = << >> PROVE Frames(s) = {}
    <3>1. 1 .. Len(s) = {}
      BY <2>2, <1>2
    <3> QED BY <3>1, <1>2
  <2> QED BY <2>1, <2>2
<1> QED BY <1>1, <1>2, <1>4

LEMMA ListTail ==
  ASSUME NEW s \in Seq(Encoders), s # << >>
  PROVE  /\ Tail(s) \in Seq(Encoders) /\ Head(s) \in Encoders /\ Head(s) \in Frames(s)
         /\ Frames(Tail(s)) \subseteq Frames(s)
<1> DEFINE t == Tail(s)
<1>1. /\ t \in Seq(Encoders) /\ Len(t) = Len(s) - 1 /\ Len(s) \in Nat /\ Len(s) > 0
      /\ Head(s) = s[1] /\ \A i \in 1 .. Len(t) : t[i] = s[i + 1]
  BY HeadTailProperties, ListOf
<1> HIDE DEF t
<1>2. /\ Frames(s) = {s[i] : i \in 1 .. Len(s)} /\ Frames(t) = {t[i] : i \in 1 .. Len(t)}
      /\ Frames(s) \subseteq Encoders
  BY <1>1, ListOf
<1>3. \A i \in 1 .. Len(t) : i + 1 \in 1 .. Len(s)
  BY <1>1
<1>4. 1 \in 1 .. Len(s)
  BY <1>1
<1>5. Head(s) \in Frames(s)
  BY <1>1, <1>2, <1>4
<1>6. Frames(t) \subseteq Frames(s)
  BY <1>1, <1>2, <1>3
<1> QED BY <1>1, <1>2, <1>5, <1>6 DEF t

LEMMA ListAppend ==
  ASSUME NEW s \in Seq(Encoders), NEW e \in Encoders
  PROVE  /\ Append(s, e) \in Seq(Encoders) /\ Len(Append(s, e)) = Len(s) + 1
         /\ Append(s, e) # << >>
         /\ Frames(Append(s, e)) = Frames(s) \cup {e}
         /\ Once(s) /\ e \notin Frames(s) => Once(Append(s, e))
<1> DEFINE a == Append(s, e)
<1>1. /\ a \in Seq(Encoders) /\ Len(a) = Len(s) + 1 /\ a[Len(s) + 1] = e
      /\ \A i \in 1 .. Len(s) : a[i] = s[i]
  BY AppendProperties
<1> HIDE DEF a
<1>2. /\ Len(s) \in Nat /\ Frames(s) = {s[i] : i \in 1 .. Len(s)}
      /\ Frames(a) = {a[i] : i \in 1 .. Len(a)} /\ a # << >>
  BY <1>1, ListOf
<1>3. 1 .. Len(a) = 1 .. Len(s) \cup {Len(s) + 1}
  BY <1>1, <1>2
<1>4. Frames(a) = Frames(s) \cup {e}
  BY <1>1, <1>2, <1>3
<1>5. Once(s) /\ e \notin Frames(s) => Once(a)
  BY <1>1, <1>2, <1>3 DEF Once
<1> QED BY <1>1, <1>2, <1>4, <1>5 DEF a

(* An encoder is taken off the list. *)
LEMMA ListErase ==
  ASSUME NEW s \in Seq(Encoders), Once(s), NEW i \in 1 .. Len(s)
  PROVE  LET t == SubSeq(s, 1, i - 1) \o SubSeq(s, i + 1, Len(s))
         IN /\ t \in Seq(Encoders) /\ Len(t) = Len(s) - 1 /\ Once(t)
            /\ Frames(t) = Frames(s) \ {s[i]} /\ s[i] \in Frames(s)
<1> DEFINE u == SubSeq(s, 1, i - 1)
           v == SubSeq(s, i + 1, Len(s))
           t == u \o v
           At(j) == IF j < i THEN j ELSE j + 1
<1>1. Len(s) \in Nat /\ Frames(s) = {s[k] : k \in 1 .. Len(s)}
  BY ListOf
<1>2. /\ u \in Seq(Encoders) /\ Len(u) = i - 1 /\ \A k \in 1 .. i - 1 : u[k] = s[k]
  <2>1. \A k \in 1 .. i - 1 : s[k] \in Encoders
    BY <1>1, ElementOfSeq
  <2>2. (IF 1 <= i - 1 THEN i - 1 - 1 + 1 ELSE 0) = i - 1
    OBVIOUS
  <2>3. 1 \in 1 .. Len(s) + 1 /\ i - 1 \in 0 .. Len(s)
    BY <1>1
  <2> QED BY <2>1, <2>2, <2>3, SubSeqProperties
<1>3. /\ v \in Seq(Encoders) /\ Len(v) = Len(s) - i
      /\ \A k \in 1 .. Len(s) - i : v[k] = s[i + k]
  <2>1. i + 1 \in 1 .. Len(s) + 1 /\ Len(s) \in i .. Len(s)
    BY <1>1
  <2> QED BY <2>1, <1>1, SubSeqProperties
<1>4. /\ t \in Seq(Encoders) /\ Len(t) = Len(s) - 1
      /\ \A j \in 1 .. Len(t) : t[j] = s[At(j)] /\ At(j) \in 1 .. Len(s) /\ At(j) # i
  <2> HIDE DEF u, v
  <2>1. /\ t \in Seq(Encoders) /\ Len(t) = Len(u) + Len(v)
        /\ \A j \in 1 .. Len(u) + Len(v) : t[j] = IF j <= Len(u) THEN u[j] ELSE v[j - Len(u)]
    BY <1>2, <1>3, ConcatProperties
  <2>2. Len(t) = Len(s) - 1
    BY <2>1, <1>1, <1>2, <1>3
  <2> SUFFICES ASSUME NEW j \in 1 .. Len(t)
               PROVE  t[j] = s[At(j)] /\ At(j) \in 1 .. Len(s) /\ At(j) # i
    BY <2>1, <2>2
  <2>3. CASE j < i
    BY <2>1, <2>2, <2>3, <1>1, <1>2
  <2>4. CASE j >= i
    <3>1. j - Len(u) \in 1 .. Len(s) - i /\ i + (j - Len(u)) = j + 1 /\ ~(j <= Len(u))
      BY <2>2, <2>4, <1>1, <1>2
    <3>2. j \in 1 .. Len(u) + Len(v)
      BY <2>1
    <3>3. t[j] = v[j - Len(u)]
      <4> HIDE DEF t
      <4> QED BY <3>1, <3>2, <2>1
    <3>4. v[j - Len(u)] = s[i + (j - Len(u))]
      BY <3>1, <1>3
    <3>5. At(j) = j + 1 /\ j + 1 \in 1 .. Len(s) /\ j + 1 # i
      BY <2>2, <2>4, <1>1
    <3> HIDE DEF t, At
    <3> QED BY <3>1, <3>3, <3>4, <3>5
  <2> QED BY <2>3, <2>4
<1> HIDE DEF t
<1>5. Once(t)
  <2> SUFFICES ASSUME NEW j \in 1 .. Len(t), NEW k \in 1 .. Len(t), t[j] = t[k] PROVE j = k
    BY DEF Once
  <2>1. At(j) = At(k)
    <3> HIDE DEF At
    <3> QED BY <1>4 DEF Once
  <2> QED BY <2>1
<1>6. Frames(t) = {t[j] : j \in 1 .. Len(t)}
  BY <1>4, ListOf
<1>7. Frames(t) = Frames(s) \ {s[i]}
  <2>1. \A j \in 1 .. Len(t) : t[j] \in Frames(s) \ {s[i]}
    <3> HIDE DEF At
    <3> QED BY <1>1, <1>4 DEF Once
  <2>2. ASSUME NEW k \in 1 .. Len(s), s[k] # s[i]
        PROVE  s[k] \in Frames(t)
    <3>1. CASE k < i
      <4>1. k \in 1 .. Len(t) /\ At(k) = k
        BY <3>1, <1>1, <1>4
      <4> HIDE DEF At
      <4> QED BY <4>1, <1>4, <1>6
    <3>2. CASE k > i
      <4>1. k - 1 \in 1 .. Len(t) /\ At(k - 1) = k
        BY <3>2, <1>1, <1>4
      <4> HIDE DEF At
      <4> QED BY <4>1, <1>4, <1>6
    <3> QED BY <2>2, <3>1, <3>2
  <2> QED BY <2>1, <2>2, <1>1, <1>6
<1>8. s[i] \in Frames(s)
  BY <1>1
<1> QED BY <1>4, <1>5, <1>7, <1>8 DEF t

-----------------------------------------------------------------------------
(* The GPU encode thread                                                    *)

(* What is queued is in line with the next tick of the graphics thread, and *)
(* stamped less than m ticks late.                                          *)
Ready(next, m) ==
  /\ Line(tf, queue, gpu_tick, next)
  /\ Close(queue, m)
  /\ tf.count > 0 => tf.tick - tf.timestamp \in 0 .. m - 1

(* The thread is there only with its queue. *)
LEMMA ThreadHasQueue ==
  ASSUME GpuInv, gpu_thread # "none"
  PROVE  gpu_exists
  BY DEF GpuInv, GpuThreadAt, GpuTypes

LEMMA QueueFrames ==
  ASSUME GpuInv
  PROVE  /\ Frames(avail) \subseteq Frame /\ Frames(queue) \subseteq Frame
         /\ Len(avail) \in Nat /\ Len(queue) \in Nat /\ Ticks(queue) \in Nat
         /\ (avail = << >> <=> Len(avail) = 0) /\ (queue = << >> <=> Len(queue) = 0)
         /\ tf.count \in Nat /\ tf.tex \in Textures /\ tf.lock_key \in Nat
         /\ tf.tick \in Nat /\ tf.timestamp \in Nat /\ tf.released \in BOOLEAN
<1>1. avail \in Seq(Frame) /\ queue \in Seq(Frame) /\ tf \in Frame
  BY DEF GpuInv, GpuTypes
<1>2. /\ tf.count \in Nat /\ tf.tex \in Textures /\ tf.lock_key \in Nat
      /\ tf.tick \in Nat /\ tf.timestamp \in Nat /\ tf.released \in BOOLEAN
  BY <1>1 DEF Frame
<1> QED BY <1>1, <1>2, FramesOf, TicksSum

-----------------------------------------------------------------------------
(* The thread *)
LEMMA GpuWakeKeeps ==
  ASSUME GpuInv, GpuWake
  PROVE  GpuInv' /\ \A next, m : Ready(next, m) => Ready(next, m)'
<1>1. /\ gpu_thread = "wait" /\ gpu_semaphore > 0 /\ gpu_semaphore' = gpu_semaphore - 1
      /\ gpu_thread' = "woken"
  BY DEF GpuWake
<1>2. UNCHANGED <<avail, queue, convert_texture, keys, tf, encoders, lock_count, lock_key, next_key,
                  gpu_inactive, gpu_exists, gpu_stop, wait_frames, gpu_encoders, gpu_encoder_active,
                  stopping, start_ts, gpu_counter, failed, gpu_tick>>
  BY DEF GpuWake, textures, threadVars, userVars, encoderVars
<1>3. GpuTypes'
  <2>1. GpuTypes
    BY DEF GpuInv
  <2>2. gpu_semaphore' \in Nat
    BY <2>1, <1>1 DEF GpuTypes
  <2> QED BY <2>1, <2>2, <1>1, <1>2 DEF GpuTypes
<1>4. GpuUsers'
  BY <1>1, <1>2 DEF GpuInv, GpuUsers, Closing, Frames, Once
<1>5. GpuThreadAt'
  BY <1>1, <1>2, ThreadHasQueue DEF GpuInv, GpuThreadAt, Frames
<1>6. Stock'
  BY <1>1, <1>2 DEF GpuInv, Stock, Places, Keyed, Taken, Distinct, Frames
<1>7. SemaphoreMatches'
  <2>1. Ticks(queue)' = Ticks(queue) /\ Ticks(queue) \in Nat /\ tf' = tf /\ tf.count \in Nat
    BY <1>2, QueueFrames DEF Ticks
  <2>2. gpu_semaphore \in Nat /\ wait_frames \in 0 .. WaitFrames /\ WaitFrames \in Nat
    BY GpuAssumption DEF GpuInv, GpuTypes
  <2>3. ~gpu_stop => Ticks(queue) + tf.count = gpu_semaphore + WaitFrames - wait_frames
    <3>1. ~gpu_stop => Ticks(queue) + tf.count = gpu_semaphore + 0 + WaitFrames - wait_frames
      BY <1>1 DEF GpuInv, SemaphoreMatches
    <3> QED BY <3>1, <2>2
  <2> QED BY <2>1, <2>2, <2>3, <1>1, <1>2 DEF SemaphoreMatches
<1>8. \A next, m : Ready(next, m) => Ready(next, m)'
  BY <1>2 DEF Ready, Line, Close, Starts, Frames
<1> QED BY <1>3, <1>4, <1>5, <1>6, <1>7, <1>8 DEF GpuInv

(* The thread does not go on to an empty queue: the semaphore it has taken  *)
(* stood for a tick.                                                        *)
LEMMA GpuLookKeeps ==
  ASSUME GpuInv, GpuLook
  PROVE  GpuInv' /\ \A next, m : Ready(next, m) => Ready(next, m)'
<1>1. /\ gpu_thread = "woken"
      /\ \/ gpu_stop /\ gpu_thread' = "left" /\ wait_frames' = wait_frames
         \/ ~gpu_stop /\ wait_frames > 0 /\ wait_frames' = wait_frames - 1 /\ gpu_thread' = "wait"
         \/ ~gpu_stop /\ wait_frames = 0 /\ gpu_thread' = "reset" /\ wait_frames' = wait_frames
  BY DEF GpuLook
<1>2. UNCHANGED <<avail, queue, convert_texture, keys, tf, encoders, lock_count, lock_key, next_key,
                  gpu_semaphore, gpu_inactive, gpu_exists, gpu_stop, gpu_encoders,
                  gpu_encoder_active, stopping, start_ts, gpu_counter, failed, gpu_tick>>
  BY DEF GpuLook, textures, threadVars, syncVars, userVars, encoderVars
<1>3. /\ Ticks(queue) \in Nat /\ tf.count \in Nat /\ gpu_semaphore \in Nat
      /\ wait_frames \in 0 .. WaitFrames /\ WaitFrames \in Nat /\ gpu_exists /\ gpu_inactive
      /\ ~(tf.count > 0) /\ encoders = << >>
  BY <1>1, ThreadHasQueue, QueueFrames, GpuAssumption DEF GpuInv, GpuTypes, GpuThreadAt
<1>4. ~gpu_stop => Ticks(queue) + tf.count = gpu_semaphore + 1 + WaitFrames - wait_frames
  BY <1>1 DEF GpuInv, SemaphoreMatches
<1>5. ~gpu_stop => queue # << >>
  <2>1. ~gpu_stop => Ticks(queue) # 0
    BY <1>3, <1>4
  <2> QED BY <2>1, TicksEmpty
<1>6. GpuTypes'
  <2>1. GpuTypes
    BY DEF GpuInv
  <2>2. wait_frames' \in 0 .. WaitFrames
    BY <1>1, <1>3
  <2> QED BY <2>1, <2>2, <1>1, <1>2 DEF GpuTypes
<1>7. GpuUsers'
  BY <1>1, <1>2 DEF GpuInv, GpuUsers, Closing, Frames, Once
<1>8. GpuThreadAt'
  <2>1. GpuThreadAt
    BY DEF GpuInv
  <2>2. encoders' = << >> /\ ~(tf'.count > 0) /\ gpu_exists /\ gpu_exists' /\ gpu_stop' = gpu_stop
        /\ gpu_inactive' = TRUE /\ queue' = queue /\ gpu_encoders' = gpu_encoders
    BY <1>2, <1>3
  <2>3. \A e \in Frames(encoders') : e \in Frames(gpu_encoders') \/ stopping'[e] # "no"
    BY <2>1, <1>2 DEF GpuThreadAt
  <2>4. CASE gpu_thread' = "left"
    BY <2>1, <2>2, <2>3, <2>4 DEF GpuThreadAt, Frames
  <2>5. CASE gpu_thread' = "wait"
    BY <2>1, <2>2, <2>3, <2>5 DEF GpuThreadAt, Frames
  <2>6. CASE gpu_thread' = "reset" /\ wait_frames' = 0 /\ queue # << >>
    BY <2>1, <2>2, <2>3, <2>6 DEF GpuThreadAt, Frames
  <2> QED BY <2>4, <2>5, <2>6, <1>1, <1>5
<1>9. Stock'
  BY <1>1, <1>2 DEF GpuInv, Stock, Places, Keyed, Taken, Distinct, Frames
<1>10. SemaphoreMatches'
  <2>1. Ticks(queue)' = Ticks(queue) /\ tf' = tf
    BY <1>2 DEF Ticks
  <2> QED BY <2>1, <1>1, <1>2, <1>3, <1>4 DEF SemaphoreMatches
<1>11. \A next, m : Ready(next, m) => Ready(next, m)'
  BY <1>2 DEF Ready, Line, Close, Starts, Frames
<1> QED BY <1>6, <1>7, <1>8, <1>9, <1>10, <1>11 DEF GpuInv

LEMMA GpuBusyKeeps ==
  ASSUME GpuInv, GpuBusy
  PROVE  GpuInv' /\ \A next, m : Ready(next, m) => Ready(next, m)'
<1>1. gpu_thread = "reset" /\ gpu_thread' = "pop" /\ gpu_inactive' = FALSE
  BY DEF GpuBusy
<1>2. UNCHANGED <<avail, queue, convert_texture, keys, tf, encoders, lock_count, lock_key, next_key,
                  gpu_semaphore, gpu_exists, gpu_stop, wait_frames, gpu_encoders,
                  gpu_encoder_active, stopping, start_ts, gpu_counter, failed, gpu_tick>>
  BY DEF GpuBusy, textures, threadVars, userVars, encoderVars
<1>3. GpuTypes'
  BY <1>1, <1>2 DEF GpuInv, GpuTypes
<1>4. GpuUsers'
  BY <1>1, <1>2 DEF GpuInv, GpuUsers, Closing, Frames, Once
<1>5. GpuThreadAt'
  BY <1>1, <1>2, ThreadHasQueue DEF GpuInv, GpuThreadAt, Frames
<1>6. Stock'
  BY <1>1, <1>2 DEF GpuInv, Stock, Places, Keyed, Taken, Distinct, Frames
<1>7. SemaphoreMatches'
  <2>1. Ticks(queue)' = Ticks(queue)
    BY <1>2 DEF Ticks
  <2> QED BY <2>1, <1>1, <1>2 DEF GpuInv, SemaphoreMatches
<1>8. \A next, m : Ready(next, m) => Ready(next, m)'
  BY <1>2 DEF Ready, Line, Close, Starts, Frames
<1> QED BY <1>3, <1>4, <1>5, <1>6, <1>7, <1>8 DEF GpuInv

LEMMA PopTextureKeeps ==
  ASSUME GpuInv, PopTexture
  PROVE  /\ queue # << >>
         /\ GpuInv' /\ \A next, m : Ready(next, m) => Ready(next, m)'
<1>1. /\ gpu_thread = "pop" /\ tf' = Head(queue) /\ queue' = Tail(queue)
      /\ lock_key' = tf'.lock_key /\ next_key' = tf'.lock_key /\ lock_count' = 0
      /\ encoders' = gpu_encoders /\ gpu_thread' = "encode"
  BY DEF PopTexture
<1>2. UNCHANGED <<avail, convert_texture, keys, wait_frames, gpu_semaphore, gpu_inactive, 
                  gpu_exists, gpu_stop, gpu_encoders, gpu_encoder_active, stopping, start_ts,
                  gpu_counter, failed, gpu_tick>>
  BY DEF PopTexture, syncVars, userVars, encoderVars
<1>3. /\ gpu_exists /\ wait_frames = 0 /\ tf.count = 0
      /\ avail \in Seq(Frame) /\ queue \in Seq(Frame) /\ Len(avail) \in Nat /\ Len(queue) \in Nat
      /\ gpu_tick \in Nat
  <2>1. tf.count \in Nat /\ ~(tf.count > 0)
    BY <1>1, QueueFrames DEF GpuInv, GpuThreadAt
  <2> QED BY <2>1, <1>1, ThreadHasQueue, QueueFrames DEF GpuInv, GpuThreadAt, GpuTypes
<1>4. /\ ~gpu_stop => Ticks(queue) = gpu_semaphore + 1 + WaitFrames
      /\ gpu_semaphore \in Nat /\ WaitFrames \in Nat
  <2>1. ~gpu_stop => Ticks(queue) + 0 = gpu_semaphore + 1 + WaitFrames - 0
    BY <1>1, <1>3 DEF GpuInv, SemaphoreMatches
  <2> QED BY <2>1, GpuAssumption, QueueFrames DEF GpuInv, GpuTypes
<1>5. queue # << >>
  BY <1>1 DEF GpuInv, GpuThreadAt
<1>6. /\ queue' \in Seq(Frame) /\ tf' \in Frame /\ Len(queue') = Len(queue) - 1
      /\ tf' = queue[1] /\ \A i \in 1 .. Len(queue) - 1 : queue'[i] = queue[i + 1]
      /\ Frames(queue) = Frames(queue') \cup {tf'}
      /\ Distinct(queue) => Distinct(queue') /\ \A g \in Frames(queue') : g.tex # tf'.tex
  BY <1>1, <1>3, <1>5, QueueTail
<1>7. tf' \in Frames(queue) /\ tf'.count \in Nat /\ tf'.count > 0 /\ tf'.released
      /\ keys[tf'.tex] = tf'.lock_key /\ tf'.lock_key \in Nat
  <2>1. tf' \in Frames(queue)
    BY <1>6
  <2>2. tf'.count \in Nat /\ tf'.lock_key \in Nat
    BY <1>6 DEF Frame
  <2> QED BY <2>1, <2>2 DEF GpuInv, Stock, Keyed
<1>8. GpuTypes'
  <2>1. GpuTypes
    BY DEF GpuInv
  <2> QED BY <2>1, <1>1, <1>2, <1>6, <1>7 DEF GpuTypes
<1>9. GpuUsers'
  BY <1>1, <1>2 DEF GpuInv, GpuUsers, Closing, Frames, Once
<1>10. GpuThreadAt'
  BY <1>1, <1>2, <1>3, <1>7 DEF GpuInv, GpuThreadAt, Frames
<1>11. Stock'
  <2>1. Places(avail, queue, tf, convert_texture) /\ Keyed(avail, queue, tf, convert_texture, keys)
        /\ Len(avail) + Len(queue) + Taken(tf) = NumTextures
    BY <1>3 DEF GpuInv, Stock
  <2>2. Places(avail, queue', tf', convert_texture)
    BY <2>1, <1>6, <1>7 DEF Places
  <2>3. Keyed(avail, queue, tf, convert_texture, keys)'
    <3>1. \A f \in Frames(queue') : f.count > 0 /\ f.released /\ keys[f.tex] = f.lock_key
      BY <2>1, <1>6 DEF Keyed
    <3> QED BY <2>1, <3>1, <1>1, <1>2, <1>7 DEF Keyed, Frames
  <2>4. Len(avail) + Len(queue') + Taken(tf') = NumTextures
    <3>1. Taken(tf) = 0 /\ Taken(tf') = 1
      BY <1>3, <1>7 DEF Taken
    <3> QED BY <3>1, <2>1, <1>3, <1>6
  <2>5. Places(avail, queue, tf, convert_texture)'
    BY <2>2, <1>2 DEF Places, Frames, Distinct
  <2>6. (Len(avail) + Len(queue) + Taken(tf) = NumTextures)'
    BY <2>4, <1>2 DEF Taken
  <2> QED BY <2>3, <2>5, <2>6, <1>2, <1>3 DEF Stock
<1>12. SemaphoreMatches'
  <2>1. Ticks(queue) = tf'.count + Ticks(queue') /\ Ticks(queue') \in Nat
    BY <1>1, <1>3, <1>5, <1>6, TicksTail, TicksSum
  <2>2. Ticks(queue)' = Ticks(queue')
    BY DEF Ticks
  <2>3. ~gpu_stop => Ticks(queue)' + tf'.count = gpu_semaphore + 1 + WaitFrames
    BY <2>1, <2>2, <1>4, <1>7
  <2>4. gpu_semaphore + 1 + WaitFrames = gpu_semaphore + 1 + WaitFrames - 0
    BY <1>4
  <2> QED BY <2>3, <2>4, <1>1, <1>2, <1>3 DEF SemaphoreMatches
<1>13. ASSUME NEW next, NEW m, Ready(next, m)
       PROVE  Ready(next, m)'
  <2>1. Line(tf, queue, gpu_tick, next) /\ Close(queue, m)
    BY <1>13 DEF Ready
  <2>2. 1 \in 1 .. Len(queue) /\ Len(queue) \in 1 .. Len(queue)
    BY <1>3, <1>5, QueueFrames
  <2>3. queue' = << >> <=> Len(queue) = 1
    BY <1>3, <1>6, <2>2, FramesOf
  <2>4. \A i \in 1 .. Len(queue') - 1 : queue'[i + 1].tick = queue'[i].tick + queue'[i].count
    <3> TAKE i \in 1 .. Len(queue') - 1
    <3>1. /\ i + 1 \in 1 .. Len(queue) - 1 /\ i \in 1 .. Len(queue) - 1
          /\ queue'[i] = queue[i + 1] /\ queue'[i + 1] = queue[i + 1 + 1]
      BY <1>3, <1>6
    <3> QED BY <3>1, <2>1 DEF Line
  <2>5. queue' # << >> => queue'[Len(queue')].tick + queue'[Len(queue')].count = next
    <3> SUFFICES ASSUME queue' # << >> PROVE queue'[Len(queue')] = queue[Len(queue)]
      BY <2>1, <1>5 DEF Line
    <3>1. Len(queue') \in 1 .. Len(queue) - 1 /\ Len(queue') + 1 = Len(queue)
      BY <2>2, <2>3, <1>3, <1>6
    <3> QED BY <3>1, <1>6
  <2>6. Starts(queue', next, tf'.tick + tf'.count)
    <3>1. CASE queue' = << >>
      <4>1. queue[Len(queue)].tick + queue[Len(queue)].count = next /\ Len(queue) = 1
        BY <2>1, <2>3, <3>1, <1>5 DEF Line
      <4> QED BY <4>1, <3>1, <1>6 DEF Starts
    <3>2. CASE queue' # << >>
      <4>1. 1 \in 1 .. Len(queue) - 1 /\ queue'[1] = queue[1 + 1]
        BY <2>2, <2>3, <3>2, <1>3, <1>6
      <4>2. queue[1 + 1].tick = queue[1].tick + queue[1].count
        BY <4>1, <2>1 DEF Line
      <4> QED BY <4>1, <4>2, <3>2, <1>6 DEF Starts
    <3> QED BY <3>1, <3>2
  <2>7. gpu_tick > 0 => tf'.tick = gpu_tick + 1
    BY <2>1, <1>3, <1>5, <1>6 DEF Line, Starts
  <2>8. Line(tf', queue', gpu_tick, next)
    BY <2>4, <2>5, <2>6, <2>7, <1>7 DEF Line
  <2>9. Close(queue', m) /\ tf'.tick - tf'.timestamp \in 0 .. m - 1
    BY <2>1, <1>6, <1>7 DEF Close
  <2> QED BY <2>8, <2>9, <1>2 DEF Ready, Line, Starts, Close, Frames
<1> QED BY <1>5, <1>8, <1>9, <1>10, <1>11, <1>12, <1>13 DEF GpuInv

(* Between two frames of the thread only its list of encoders shrinks and   *)
(* the key of its texture changes.                                          *)
LEMMA PassOverKeeps ==
  ASSUME GpuInv, PassOver
  PROVE  GpuInv' /\ \A next, m : Ready(next, m) => Ready(next, m)'
<1>1. /\ gpu_thread = "encode" /\ encoders # << >> /\ encoders' = Tail(encoders)
      /\ UNCHANGED <<avail, queue, convert_texture, keys, wait_frames, gpu_semaphore, gpu_inactive,
                     gpu_exists, gpu_stop, gpu_encoders, gpu_encoder_active, stopping, start_ts,
                     tf, lock_key, next_key, lock_count, gpu_thread, failed, gpu_tick>>
  BY DEF PassOver, textures, syncVars, userVars
<1>2. gpu_counter' \in [Encoders -> Nat]
  <2>1. Head(encoders) \in Encoders /\ gpu_counter \in [Encoders -> Nat]
    BY <1>1, ListTail DEF GpuInv, GpuTypes
  <2>2. ASSUME NEW e \in Encoders
        PROVE  (gpu_counter[e] + 1) % GpuDivisor[e] \in Nat
    <3>1. gpu_counter[e] + 1 \in Nat /\ GpuDivisor[e] \in Nat \ {0}
      BY <2>1, GpuAssumption
    <3> QED BY <3>1
  <2>3. \/ gpu_counter' = gpu_counter
        \/ gpu_counter' = [gpu_counter EXCEPT ![Head(encoders)] =
                             (gpu_counter[Head(encoders)] + 1) % GpuDivisor[Head(encoders)]]
    BY DEF PassOver
  <2> QED BY <2>1, <2>2, <2>3
<1>3. Tail(encoders) \in Seq(Encoders) /\ Frames(Tail(encoders)) \subseteq Frames(encoders)
  BY <1>1, ListTail DEF GpuInv, GpuTypes
<1>4. GpuTypes'
  <2>1. GpuTypes
    BY DEF GpuInv
  <2> QED BY <2>1, <1>1, <1>2, <1>3 DEF GpuTypes
<1>5. GpuUsers'
  BY <1>1 DEF GpuInv, GpuUsers, Closing, Frames, Once
<1>6. GpuThreadAt'
  <2>1. GpuThreadAt
    BY DEF GpuInv
  <2>2. \A e \in Frames(encoders') : e \in Frames(gpu_encoders') \/ stopping'[e] # "no"
    BY <2>1, <1>1, <1>3 DEF GpuThreadAt
  <2> QED BY <2>1, <2>2, <1>1 DEF GpuThreadAt, Frames
<1>7. Stock'
  BY <1>1 DEF GpuInv, Stock, Places, Keyed, Taken, Distinct, Frames
<1>8. SemaphoreMatches'
  BY <1>1 DEF GpuInv, SemaphoreMatches, Ticks
<1>9. \A next, m : Ready(next, m) => Ready(next, m)'
  BY <1>1 DEF Ready, Line, Close, Starts, Frames
<1> QED BY <1>4, <1>5, <1>6, <1>7, <1>8, <1>9 DEF GpuInv

LEMMA EncodeKeeps ==
  ASSUME GpuInv, Encode
  PROVE  GpuInv' /\ \A next, m : Ready(next, m) => Ready(next, m)'
<1> DEFINE e == Head(encoders)
<1>1. /\ gpu_thread = "encode" /\ encoders # << >> /\ encoders' = Tail(encoders)
      /\ gpu_counter' = [gpu_counter EXCEPT ![e] = (@ + 1) % GpuDivisor[e]]
      /\ start_ts' = start_ts \cup {e}
      /\ keys' = [keys EXCEPT ![tf.tex] = KeyAfter]
      /\ lock_count' = lock_count + 1 /\ next_key' = KeyAfter /\ lock_key' = KeyAfter
  BY DEF Encode
<1>2. UNCHANGED <<avail, queue, convert_texture, wait_frames, gpu_semaphore, gpu_inactive,
                  gpu_exists, gpu_stop, gpu_encoders, gpu_encoder_active, stopping, 
                  tf, gpu_thread, failed, gpu_tick>>
  BY DEF Encode, syncVars, userVars
<1>3. /\ Tail(encoders) \in Seq(Encoders) /\ Frames(Tail(encoders)) \subseteq Frames(encoders)
      /\ e \in Encoders
  BY <1>1, ListTail DEF GpuInv, GpuTypes
<1>4. KeyAfter \in Nat /\ tf.count > 0
  BY <1>1 DEF GpuInv, GpuThreadAt, GpuTypes, KeyAfter
<1> HIDE DEF e
<1>5. GpuTypes'
  <2>1. GpuTypes
    BY DEF GpuInv
  <2>2. gpu_counter' \in [Encoders -> Nat]
    <3>1. gpu_counter[e] + 1 \in Nat /\ GpuDivisor[e] \in Nat \ {0}
      BY <2>1, <1>3, GpuAssumption DEF GpuTypes
    <3>2. (gpu_counter[e] + 1) % GpuDivisor[e] \in Nat
      BY <3>1
    <3> QED BY <3>2, <2>1, <1>1, <1>3 DEF GpuTypes
  <2>3. keys' \in [Textures -> Keys] /\ lock_count' \in Nat
    <3>1. KeyAfter \in Keys /\ keys \in [Textures -> Keys] /\ lock_count \in Nat
      BY <2>1, <1>4 DEF GpuTypes, Keys
    <3> HIDE DEF e
    <3>2. keys' \in [Textures -> Keys]
      BY <3>1, <1>1
    <3> QED BY <3>1, <3>2, <1>1
  <2>4. start_ts' \subseteq Encoders
    BY <2>1, <1>1, <1>3 DEF GpuTypes
  <2> QED BY <2>1, <2>2, <2>3, <2>4, <1>1, <1>2, <1>3, <1>4 DEF GpuTypes
<1>6. GpuUsers'
  BY <1>1, <1>2 DEF GpuInv, GpuUsers, Closing, Frames, Once
<1>7. GpuThreadAt'
  <2>1. GpuThreadAt
    BY DEF GpuInv
  <2>2. \A x \in Frames(encoders') : x \in Frames(gpu_encoders') \/ stopping'[x] # "no"
    BY <2>1, <1>1, <1>2, <1>3 DEF GpuThreadAt
  <2> QED BY <2>1, <2>2, <1>1, <1>2 DEF GpuThreadAt, Frames
<1>8. Stock'
  <2>1. Places(avail, queue, tf, convert_texture) /\ Keyed(avail, queue, tf, convert_texture, keys)
    BY DEF GpuInv, Stock
  <2>2. keys \in [Textures -> Keys] /\ tf.tex \in Textures /\ convert_texture \in Textures
    BY QueueFrames DEF GpuInv, GpuTypes
  <2>3. keys'[tf.tex] = lock_key' /\ keys'[convert_texture] = keys[convert_texture]
    BY <2>1, <2>2, <1>1, <1>4 DEF Places
  <2>4. \A f \in Frames(avail) : f.tex # tf.tex /\ keys'[f.tex] = keys[f.tex]
    <3>1. \A f \in Frames(avail) : f.tex # tf.tex /\ f.tex \in Textures
      BY <2>1, <1>4, QueueFrames DEF Places, Frame
    <3> QED BY <3>1, <2>2, <1>1
  <2>5. \A f \in Frames(queue) : f.tex # tf.tex /\ keys'[f.tex] = keys[f.tex]
    <3>1. \A f \in Frames(queue) : f.tex # tf.tex /\ f.tex \in Textures
      BY <2>1, <1>4, QueueFrames DEF Places, Frame
    <3> QED BY <3>1, <2>2, <1>1
  <2>6. Keyed(avail, queue, tf, convert_texture, keys)'
    BY <2>1, <2>3, <2>4, <2>5, <1>2 DEF Keyed, Frames
  <2> QED BY <2>6, <1>2 DEF GpuInv, Stock, Places, Taken, Distinct, Frames
<1>9. SemaphoreMatches'
  BY <1>2 DEF GpuInv, SemaphoreMatches, Ticks
<1>10. \A next, m : Ready(next, m) => Ready(next, m)'
  BY <1>2 DEF Ready, Line, Close, Starts, Frames
<1> QED BY <1>5, <1>6, <1>7, <1>8, <1>9, <1>10 DEF GpuInv

(* stop_gpu_encode() takes an encoder off the list. *)
LEMMA BeginStopUsers ==
  ASSUME GpuInv, NEW e \in Encoders, BeginStop(e), Quiet \/ gpu_thread' = "blocked",
         gpu_exists' = gpu_exists, gpu_stop' = gpu_stop,
         gpu_thread' = gpu_thread \/ gpu_thread' = "blocked"
  PROVE  /\ GpuUsers' /\ gpu_exists /\ ~gpu_stop
         /\ gpu_encoders' \in Seq(Encoders)
         /\ stopping' \in [Encoders -> {"no", "wait", "last", "join", "free"}]
         /\ \A x \in Frames(gpu_encoders) : x \in Frames(gpu_encoders)' \/ stopping'[x] # "no"
         /\ \A x \in Encoders : stopping[x] # "no" => stopping'[x] # "no"
<1>1. /\ gpu_encoders \in Seq(Encoders) /\ Once(gpu_encoders)
      /\ stopping \in [Encoders -> {"no", "wait", "last", "join", "free"}]
      /\ gpu_encoder_active = Len(gpu_encoders)
      /\ DOMAIN gpu_encoders = 1 .. Len(gpu_encoders) /\ Len(gpu_encoders) \in Nat
  BY LenProperties DEF GpuInv, GpuTypes, GpuUsers
<1>2. PICK i \in 1 .. Len(gpu_encoders) :
        /\ gpu_encoders[i] = e /\ gpu_encoder_active' = gpu_encoder_active - 1
        /\ gpu_encoders' = SubSeq(gpu_encoders, 1, i - 1)
                             \o SubSeq(gpu_encoders, i + 1, Len(gpu_encoders))
        /\ stopping' = [stopping EXCEPT ![e] = IF gpu_encoders' = << >> THEN "last" ELSE "wait"]
  BY <1>1 DEF BeginStop
<1>3. /\ gpu_encoders' \in Seq(Encoders) /\ Len(gpu_encoders') = Len(gpu_encoders) - 1
      /\ Once(gpu_encoders') /\ Frames(gpu_encoders') = Frames(gpu_encoders) \ {e}
      /\ e \in Frames(gpu_encoders)
  BY <1>1, <1>2, ListErase
<1>4. /\ stopping' \in [Encoders -> {"no", "wait", "last", "join", "free"}]
      /\ stopping'[e] = IF gpu_encoders' = << >> THEN "last" ELSE "wait"
      /\ \A x \in Encoders : x # e => stopping'[x] = stopping[x]
  BY <1>1, <1>2
<1>5. gpu_encoders # << >> /\ Frames(gpu_encoders) \subseteq Encoders
  BY <1>1, <1>3, ListOf
<1>6. /\ \A x \in Encoders : ~Closing(x)
      /\ gpu_exists /\ ~gpu_stop
  BY <1>5 DEF GpuInv, GpuUsers, GpuThreadAt
<1>7. \A x \in Encoders : Closing(x)' <=> x = e /\ gpu_encoders' = << >>
  BY <1>4, <1>6 DEF Closing
<1>8. gpu_encoder_active' = Len(gpu_encoders')
  BY <1>1, <1>2, <1>3
<1>9. \A x \in Frames(gpu_encoders') : stopping'[x] = "no"
  <2> SUFFICES ASSUME NEW x \in Frames(gpu_encoders') PROVE stopping'[x] = "no"
    OBVIOUS
  <2>1. x \in Frames(gpu_encoders) /\ x # e /\ x \in Encoders
    BY <1>3, <1>5
  <2> QED BY <2>1, <1>4 DEF GpuInv, GpuUsers
<1>10. \A y, x \in Encoders : stopping'[y] # "no" /\ stopping'[x] # "no" /\ y # x
                                => gpu_thread' = "blocked"
  BY <1>4 DEF Quiet
<1>11. \A x \in Encoders : stopping'[x] \notin {"join", "free"}
  BY <1>4, <1>6 DEF Closing
<1>12. gpu_exists' <=> gpu_encoders' # << >> \/ \E x \in Encoders : Closing(x)'
  BY <1>6, <1>7
<1>13. GpuUsers'
  <2>1. (\A x \in Frames(gpu_encoders) : stopping[x] = "no")'
    BY <1>9 DEF Frames
  <2>2. Once(gpu_encoders)'
    BY <1>3 DEF Once
  <2>3. \A x \in Encoders : Closing(x)' => gpu_encoders' = << >>
    BY <1>7
  <2> QED BY <2>1, <2>2, <2>3, <1>6, <1>8, <1>10, <1>11, <1>12 DEF GpuUsers
<1>14. \A x \in Frames(gpu_encoders) : x \in Frames(gpu_encoders') \/ stopping'[x] # "no"
  BY <1>3, <1>4
<1>15. \A x \in Encoders : stopping[x] # "no" => stopping'[x] # "no"
  BY <1>4
<1> QED BY <1>3, <1>4, <1>6, <1>13, <1>14, <1>15 DEF Frames

LEMMA EncodeFailsKeeps ==
  ASSUME GpuInv, EncodeFails
  PROVE  GpuInv' /\ \A next, m : Ready(next, m) => Ready(next, m)'
<1> DEFINE e == Head(encoders)
<1>1. /\ gpu_thread = "encode" /\ encoders # << >> /\ gpu_thread' = "blocked"
      /\ gpu_counter' = [gpu_counter EXCEPT ![e] = (@ + 1) % GpuDivisor[e]]
      /\ start_ts' = start_ts \cup {e} /\ failed' = failed \cup {e}
      /\ lock_count' = lock_count + 1 /\ next_key' = lock_key
      /\ BeginStop(e)
  BY DEF EncodeFails
<1>2. UNCHANGED <<avail, queue, convert_texture, keys, wait_frames, gpu_semaphore, gpu_inactive,
                  gpu_exists, gpu_stop, encoders, lock_key, tf, gpu_tick>>
  BY DEF EncodeFails, syncVars, textures
<1>3. e \in Encoders
  BY <1>1, ListTail DEF GpuInv, GpuTypes
<1> HIDE DEF e
<1>4. /\ GpuUsers' /\ gpu_encoders' \in Seq(Encoders) /\ ~gpu_stop
      /\ stopping' \in [Encoders -> {"no", "wait", "last", "join", "free"}]
      /\ \A x \in Frames(gpu_encoders) : x \in Frames(gpu_encoders)' \/ stopping'[x] # "no"
      /\ \A x \in Encoders : stopping[x] # "no" => stopping'[x] # "no"
  BY <1>1, <1>2, <1>3, BeginStopUsers
<1>5. GpuTypes'
  <2>1. GpuTypes
    BY DEF GpuInv
  <2>2. gpu_counter' \in [Encoders -> Nat]
    <3>1. gpu_counter[e] + 1 \in Nat /\ GpuDivisor[e] \in Nat \ {0}
      BY <2>1, <1>3, GpuAssumption DEF GpuTypes
    <3>2. (gpu_counter[e] + 1) % GpuDivisor[e] \in Nat
      BY <3>1
    <3> QED BY <3>2, <2>1, <1>1, <1>3 DEF GpuTypes
  <2>3. start_ts' \subseteq Encoders /\ failed' \subseteq Encoders /\ lock_count' \in Nat
    BY <2>1, <1>1, <1>3 DEF GpuTypes
  <2> QED BY <2>1, <2>2, <2>3, <1>1, <1>2, <1>4 DEF GpuTypes
<1>6. GpuThreadAt'
  <2>1. GpuThreadAt /\ gpu_exists /\ ~gpu_stop
    BY <1>1, <1>4, ThreadHasQueue DEF GpuInv
  <2>2. \A x \in Frames(encoders)' : x \in Frames(gpu_encoders)' \/ stopping'[x] # "no"
    <3>1. Frames(encoders)' = Frames(encoders) /\ Frames(encoders) \subseteq Encoders
      BY <1>2, ListOf DEF GpuInv, GpuTypes, Frames
    <3> QED BY <3>1, <2>1, <1>4 DEF GpuThreadAt
  <2>3. gpu_inactive' <=> gpu_thread' \notin {"pop", "encode", "blocked"}
    BY <2>1, <1>1, <1>2 DEF GpuThreadAt
  <2>4. tf'.count > 0 /\ gpu_exists' /\ ~gpu_stop'
    BY <2>1, <1>1, <1>2 DEF GpuThreadAt
  <2> QED BY <2>2, <2>3, <2>4, <1>1 DEF GpuThreadAt
<1>7. Stock'
  BY <1>2 DEF GpuInv, Stock, Places, Keyed, Taken, Distinct, Frames
<1>8. SemaphoreMatches'
  BY <1>1, <1>2 DEF GpuInv, SemaphoreMatches, Ticks
<1>9. \A next, m : Ready(next, m) => Ready(next, m)'
  BY <1>2 DEF Ready, Line, Close, Starts, Frames
<1> QED BY <1>4, <1>5, <1>6, <1>7, <1>8, <1>9 DEF GpuInv

(* The texture after its tick *)
Done == [tf EXCEPT !.lock_key = next_key, !.count = @ - 1]
Onward == [Done EXCEPT !.timestamp = @ + 1, !.tick = @ + 1]

LEMMA DoneFields ==
  ASSUME GpuInv, gpu_thread = "encode"
  PROVE  /\ tf.count \in Nat /\ tf.count > 0
         /\ Done \in Frame /\ Onward \in Frame
         /\ Done.tex = tf.tex /\ Done.lock_key = lock_key /\ Done.released = tf.released
         /\ Done.count = tf.count - 1
         /\ Onward.tex = tf.tex /\ Onward.lock_key = lock_key /\ Onward.released = tf.released
         /\ Onward.count = tf.count - 1 /\ Onward.tick = tf.tick + 1
         /\ Onward.timestamp = tf.timestamp + 1
<1>1. tf \in Frame /\ next_key = lock_key /\ lock_key \in Nat /\ tf.count > 0
  BY DEF GpuInv, GpuTypes, GpuThreadAt
<1>2. /\ tf.count \in Nat /\ tf.tex \in Textures /\ tf.released \in BOOLEAN
      /\ tf.tick \in Nat /\ tf.timestamp \in Nat
      /\ tf = [tex |-> tf.tex, lock_key |-> tf.lock_key, released |-> tf.released,
               count |-> tf.count, timestamp |-> tf.timestamp, tick |-> tf.tick]
  BY <1>1 DEF Frame
<1> DEFINE d == [tf EXCEPT !.lock_key = next_key, !.count = @ - 1]
           o == [d EXCEPT !.timestamp = @ + 1, !.tick = @ + 1]
<1>3. /\ d.tex = tf.tex /\ d.lock_key = lock_key /\ d.released = tf.released
      /\ d.count = tf.count - 1 /\ d.timestamp = tf.timestamp /\ d.tick = tf.tick
      /\ d \in Frame
  <2>1. tf.count - 1 \in Nat
    BY <1>1, <1>2
  <2> QED BY <2>1, <1>1, <1>2 DEF Frame
<1> HIDE DEF d
<1>4. /\ o.tex = d.tex /\ o.lock_key = d.lock_key /\ o.released = d.released
      /\ o.count = d.count /\ o.timestamp = d.timestamp + 1 /\ o.tick = d.tick + 1
      /\ o \in Frame
  <2>1. /\ d.timestamp + 1 \in Nat /\ d.tick + 1 \in Nat
    BY <1>2, <1>3
  <2>2. o = [d EXCEPT !.timestamp = d.timestamp + 1, !.tick = d.tick + 1]
    BY <1>3 DEF Frame
  <2> HIDE DEF o
  <2> QED BY <2>1, <2>2, <1>3 DEF Frame
<1> HIDE DEF o
<1>5. Done = d /\ Onward = o
  BY DEF Done, Onward, d, o
<1> QED BY <1>1, <1>2, <1>3, <1>4, <1>5

LEMMA EndTextureKeeps ==
  ASSUME GpuInv, EndTexture
  PROVE  GpuInv' /\ \A next, m : Ready(next, m) => Ready(next, m)'
<1>1. /\ gpu_thread = "encode" /\ encoders = << >>
      /\ tf' = NoTexture /\ gpu_tick' = tf.tick
      /\ lock_key' = 0 /\ next_key' = 0 /\ lock_count' = 0
      /\ gpu_thread' = "wait" /\ gpu_inactive' = TRUE
      /\ IF Done.count > 0 THEN queue' = <<Onward>> \o queue /\ avail' = avail
         ELSE avail' = Append(avail, Done) /\ queue' = queue
  BY DEF EndTexture, GiveBack, Done, Onward
<1>2. UNCHANGED <<convert_texture, keys, encoders, gpu_semaphore, gpu_exists, gpu_stop, wait_frames,
                  gpu_encoders, gpu_encoder_active, stopping, start_ts, gpu_counter, failed>>
  BY DEF EndTexture, userVars, encoderVars
<1>3. /\ avail \in Seq(Frame) /\ queue \in Seq(Frame) /\ Len(avail) \in Nat /\ Len(queue) \in Nat
      /\ tf.tick \in Nat /\ gpu_exists
  BY <1>1, QueueFrames, ThreadHasQueue DEF GpuInv, GpuTypes
<1>4. tf'.count = 0 /\ tf' \in Frame
  BY <1>1, GpuAssumption DEF NoTexture, Frame, Textures
<1>5. /\ tf.count \in Nat /\ tf.count > 0
      /\ Done \in Frame /\ Onward \in Frame
      /\ Done.tex = tf.tex /\ Done.lock_key = lock_key /\ Done.released = tf.released
      /\ Done.count = tf.count - 1
      /\ Onward.tex = tf.tex /\ Onward.lock_key = lock_key /\ Onward.released = tf.released
      /\ Onward.count = tf.count - 1 /\ Onward.tick = tf.tick + 1
      /\ Onward.timestamp = tf.timestamp + 1
  BY <1>1, DoneFields
<1> DEFINE Ended ==
             /\ Stock' /\ avail' \in Seq(Frame) /\ queue' \in Seq(Frame)
             /\ Ticks(queue') = tf.count - 1 + Ticks(queue)
             /\ \A next, m : Ready(next, m) => Line(tf', queue', gpu_tick', next) /\ Close(queue', m)
<1>6. ASSUME Done.count > 0 PROVE Ended
  <2>1. queue' = <<Onward>> \o queue /\ avail' = avail /\ tf.count - 1 > 0
    BY <1>1, <1>5, <1>6
  <2>2. /\ queue' \in Seq(Frame) /\ Len(queue') = Len(queue) + 1 /\ queue' # << >>
        /\ queue'[1] = Onward /\ \A i \in 1 .. Len(queue) : queue'[i + 1] = queue[i]
        /\ Frames(queue') = Frames(queue) \cup {Onward}
        /\ Distinct(queue) /\ (\A g \in Frames(queue) : g.tex # Onward.tex) => Distinct(queue')
    BY <2>1, <1>3, <1>5, QueueFront
  <2>3. Places(avail, queue, tf, convert_texture) /\ Keyed(avail, queue, tf, convert_texture, keys)
        /\ Len(avail) + Len(queue) + Taken(tf) = NumTextures
    BY <1>3 DEF GpuInv, Stock
  <2>4. Places(avail, queue', tf', convert_texture)
    BY <2>2, <2>3, <1>4, <1>5 DEF Places
  <2>5. /\ \A f \in Frames(queue') : f.count > 0 /\ f.released /\ keys[f.tex] = f.lock_key
        /\ \A f \in Frames(avail) : f.released => keys[f.tex] = f.lock_key
        /\ keys[convert_texture] = ByGraphics
    BY <2>1, <2>2, <2>3, <1>5 DEF Keyed
  <2>6. Len(avail) + Len(queue') + Taken(tf') = NumTextures
    <3>1. Taken(tf) = 1 /\ Taken(tf') = 0
      BY <1>4, <1>5 DEF Taken
    <3> QED BY <3>1, <2>2, <2>3, <1>3
  <2>7. Stock'
    <3>0. Places(avail', queue', tf', convert_texture')
      BY <2>1, <2>4, <1>2
    <3>1. Places(avail, queue, tf, convert_texture)'
      BY <3>0 DEF Places, Frames, Distinct
    <3>2. Keyed(avail, queue, tf, convert_texture, keys)'
      BY <2>1, <2>5, <1>2, <1>4 DEF Keyed, Frames
    <3>3. (Len(avail) + Len(queue) + Taken(tf) = NumTextures)'
      BY <2>1, <2>6 DEF Taken
    <3> QED BY <3>1, <3>2, <3>3, <1>2, <1>3 DEF Stock
  <2>8. avail' \in Seq(Frame) /\ queue' \in Seq(Frame)
    BY <2>1, <2>2, <1>3
  <2>9. Ticks(queue') = tf.count - 1 + Ticks(queue)
    BY <2>1, <1>3, <1>5, TicksFront
  <2>10. ASSUME NEW next, NEW m, Ready(next, m)
         PROVE  Line(tf', queue', gpu_tick', next) /\ Close(queue', m)
    <3>1. /\ Line(tf, queue, gpu_tick, next) /\ Close(queue, m)
          /\ tf.tick - tf.timestamp \in 0 .. m - 1
      BY <2>10, <1>5 DEF Ready
    <3>2. Starts(queue, next, Onward.tick + Onward.count)
      <4>1. Onward.tick + Onward.count = tf.tick + tf.count
        <5>1. /\ tf.tick \in Nat /\ tf.count \in Nat
              /\ Onward.tick = tf.tick + 1 /\ Onward.count = tf.count - 1
          BY <1>3, <1>5
        <5> DEFINE a == Onward.tick b == Onward.count c == tf.tick d == tf.count
        <5> HIDE DEF a, b, c, d
        <5>2. c \in Nat /\ d \in Nat /\ a = c + 1 /\ b = d - 1
          BY <5>1 DEF a, b, c, d
        <5>3. a + b = c + d
          BY <5>2
        <5> QED BY <5>3 DEF a, b, c, d
      <4> QED BY <3>1, <4>1, <1>5 DEF Line
    <3>3. \A i \in 1 .. Len(queue') - 1 : queue'[i + 1].tick = queue'[i].tick + queue'[i].count
      <4> TAKE i \in 1 .. Len(queue') - 1
      <4>1. i \in 1 .. Len(queue) /\ queue'[i + 1] = queue[i]
        BY <2>2, <1>3
      <4>2. CASE i = 1
        <5>1. queue # << >>
          BY <4>1, QueueFrames
        <5> QED BY <5>1, <4>1, <4>2, <3>2, <2>2 DEF Starts
      <4>3. CASE i # 1
        <5>1. i - 1 \in 1 .. Len(queue) - 1 /\ i - 1 \in 1 .. Len(queue)
          BY <4>1, <4>3, <1>3
        <5>2. queue[i - 1 + 1].tick = queue[i - 1].tick + queue[i - 1].count
          BY <5>1, <3>1 DEF Line
        <5>3. queue'[i - 1 + 1] = queue[i - 1]
          BY <5>1, <2>2
        <5>4. i - 1 + 1 = i
          BY <4>1
        <5> QED BY <5>2, <5>3, <5>4, <4>1
      <4> QED BY <4>2, <4>3
    <3>4. queue'[Len(queue')].tick + queue'[Len(queue')].count = next
      <4>1. CASE queue = << >>
        BY <4>1, <3>2, <2>2 DEF Starts
      <4>2. CASE queue # << >>
        <5>1. Len(queue) \in 1 .. Len(queue)
          BY <4>2, QueueFrames
        <5>2. queue'[Len(queue')] = queue[Len(queue)]
          BY <5>1, <2>2
        <5> QED BY <5>2, <4>2, <3>1 DEF Line
      <4> QED BY <4>1, <4>2
    <3>5. Line(tf', queue', gpu_tick', next)
      BY <3>3, <3>4, <2>2, <1>1, <1>4, <1>5 DEF Line, Starts
    <3>6. Onward.tick - Onward.timestamp = tf.tick - tf.timestamp
      BY <1>5, QueueFrames
    <3> QED BY <3>1, <3>5, <3>6, <2>2 DEF Close
  <2> QED BY <2>7, <2>8, <2>9, <2>10
<1>7. ASSUME ~(Done.count > 0) PROVE Ended
  <2>1. avail' = Append(avail, Done) /\ queue' = queue /\ tf.count = 1
    BY <1>1, <1>5, <1>7
  <2>2. /\ avail' \in Seq(Frame) /\ Len(avail') = Len(avail) + 1
        /\ Frames(avail') = Frames(avail) \cup {Done}
        /\ Distinct(avail) /\ (\A g \in Frames(avail) : g.tex # Done.tex) => Distinct(avail')
    BY <2>1, <1>3, <1>5, QueueAppend
  <2>3. Places(avail, queue, tf, convert_texture) /\ Keyed(avail, queue, tf, convert_texture, keys)
        /\ Len(avail) + Len(queue) + Taken(tf) = NumTextures
    BY <1>3 DEF GpuInv, Stock
  <2>4. Places(avail', queue, tf', convert_texture)
    BY <2>2, <2>3, <1>4, <1>5 DEF Places
  <2>5. /\ \A f \in Frames(queue) : f.count > 0 /\ f.released /\ keys[f.tex] = f.lock_key
        /\ \A f \in Frames(avail') : f.released => keys[f.tex] = f.lock_key
        /\ keys[convert_texture] = ByGraphics
    BY <2>2, <2>3, <1>5 DEF Keyed
  <2>6. Len(avail') + Len(queue) + Taken(tf') = NumTextures
    <3>1. Taken(tf) = 1 /\ Taken(tf') = 0
      BY <1>4, <1>5 DEF Taken
    <3> QED BY <3>1, <2>2, <2>3, <1>3
  <2>7. Stock'
    <3>1. Places(avail, queue, tf, convert_texture)'
      BY <2>1, <2>4, <1>2 DEF Places, Frames, Distinct
    <3>2. Keyed(avail, queue, tf, convert_texture, keys)'
      BY <2>1, <2>5, <1>2, <1>4 DEF Keyed, Frames
    <3>3. (Len(avail) + Len(queue) + Taken(tf) = NumTextures)'
      BY <2>1, <2>6 DEF Taken
    <3> QED BY <3>1, <3>2, <3>3, <1>2, <1>3 DEF Stock
  <2>8. avail' \in Seq(Frame) /\ queue' \in Seq(Frame)
    BY <2>1, <2>2, <1>3
  <2>9. Ticks(queue') = tf.count - 1 + Ticks(queue)
    <3>1. Ticks(queue') = Ticks(queue) /\ Ticks(queue) \in Nat
      BY <2>1, QueueFrames
    <3> QED BY <3>1, <2>1
  <2>10. ASSUME NEW next, NEW m, Ready(next, m)
         PROVE  Line(tf', queue', gpu_tick', next) /\ Close(queue', m)
    <3>1. Line(tf, queue, gpu_tick, next) /\ Close(queue, m)
      BY <2>10 DEF Ready
    <3>2. Starts(queue, next, tf.tick + 1)
      BY <3>1, <2>1 DEF Line
    <3> QED BY <3>1, <3>2, <2>1, <1>1, <1>4 DEF Line, Starts
  <2> QED BY <2>7, <2>8, <2>9, <2>10
<1>14. Ended
  <2> HIDE DEF Ended
  <2> QED BY <1>6, <1>7
<1>8. GpuTypes'
  <2>1. GpuTypes /\ avail' \in Seq(Frame) /\ queue' \in Seq(Frame)
    BY <1>14 DEF GpuInv
  <2> QED BY <2>1, <1>1, <1>2, <1>3, <1>4 DEF GpuTypes
<1>9. GpuUsers'
  BY <1>1, <1>2 DEF GpuInv, GpuUsers, Closing, Frames, Once
<1>10. GpuThreadAt'
  <2>1. Frames(encoders') = {}
    BY <1>1, <1>2 DEF Frames
  <2>2. Frames(encoders)' = {} /\ encoders' = << >> /\ ~(tf'.count > 0)
    BY <2>1, <1>1, <1>2, <1>4 DEF Frames
  <2> QED BY <2>2, <1>1, <1>2, <1>3 DEF GpuInv, GpuThreadAt
<1>11. SemaphoreMatches'
  <2>1. Ticks(queue)' = Ticks(queue')
    BY DEF Ticks
  <2>2. /\ ~gpu_stop => Ticks(queue) + tf.count = gpu_semaphore + 1 + WaitFrames - wait_frames
        /\ gpu_semaphore \in Nat /\ WaitFrames \in Nat /\ wait_frames \in Nat
        /\ Ticks(queue) \in Nat
    BY <1>1, <1>3, GpuAssumption, QueueFrames DEF GpuInv, GpuTypes, SemaphoreMatches
  <2>3. Ticks(queue') = tf.count - 1 + Ticks(queue)
    BY <1>14
  <2>4. ~gpu_stop => Ticks(queue)' + tf'.count = gpu_semaphore + 0 + WaitFrames - wait_frames
    BY <2>1, <2>2, <2>3, <1>4, <1>5
  <2> QED BY <2>4, <1>1, <1>2 DEF SemaphoreMatches
<1>12. \A next, m : Ready(next, m) => Ready(next, m)'
  <2> SUFFICES ASSUME NEW next, NEW m, Ready(next, m) PROVE Ready(next, m)'
    OBVIOUS
  <2>1. Line(tf', queue', gpu_tick', next) /\ Close(queue', m)
    BY <1>14
  <2> QED BY <2>1, <1>4 DEF Ready, Line, Starts, Close, Frames
<1>13. Stock'
  BY <1>14
<1> QED BY <1>8, <1>9, <1>10, <1>11, <1>12, <1>13 DEF GpuInv

-----------------------------------------------------------------------------
(* Starting and stopping encoders                                           *)

LEMMA QuietQueue ==
  ASSUME GpuInv, Quiet, gpu_encoders = << >>
  PROVE  /\ ~gpu_exists /\ gpu_thread = "none" /\ avail = << >> /\ queue = << >> /\ gpu_tick = 0
         /\ encoders = << >> /\ ~(tf.count > 0)
<1>1. ~gpu_exists
  BY DEF GpuInv, GpuUsers, Quiet, Closing
<1> QED BY <1>1 DEF GpuInv, GpuThreadAt, Stock

(* The textures of init_gpu_encoding() *)
LEMMA NewTextures ==
  ASSUME NEW c \in Textures, NEW new,
         new = [i \in 1 .. NumTextures |-> [NoTexture EXCEPT !.tex = IF i > c THEN i ELSE i - 1]]
  PROVE  /\ new \in Seq(Frame) /\ Len(new) = NumTextures /\ Distinct(new)
         /\ \A f \in Frames(new) : f.tex # c /\ f.released = FALSE
<1>1. NumTextures \in Nat /\ 0 \in Textures
  BY GpuAssumption DEF Textures
<1>2. \A i \in 1 .. NumTextures :
        /\ new[i].tex = (IF i > c THEN i ELSE i - 1) /\ new[i].released = FALSE
        /\ new[i] \in Frame
  <2> TAKE i \in 1 .. NumTextures
  <2> DEFINE t == IF i > c THEN i ELSE i - 1
  <2>1. t \in Textures
    BY <1>1 DEF Textures
  <2>2. new[i] = [NoTexture EXCEPT !.tex = t]
    OBVIOUS
  <2> HIDE DEF t
  <2>3. [NoTexture EXCEPT !.tex = t].tex = t /\ [NoTexture EXCEPT !.tex = t].released = FALSE
    BY DEF NoTexture
  <2>4. [NoTexture EXCEPT !.tex = t] \in Frame
    BY <1>1, <2>1 DEF NoTexture, Frame
  <2> QED BY <2>2, <2>3, <2>4 DEF t
<1>3. new \in Seq(Frame) /\ Len(new) = NumTextures /\ DOMAIN new = 1 .. NumTextures
  <2>1. new \in [1 .. NumTextures -> Frame]
    BY <1>2
  <2> QED BY <2>1, <1>1, SeqDef, LenProperties
<1>4. Distinct(new)
  <2> SUFFICES ASSUME NEW i \in 1 .. NumTextures, NEW j \in 1 .. NumTextures,
                      new[i].tex = new[j].tex
               PROVE  i = j
    BY <1>3 DEF Distinct
  <2>1. (IF i > c THEN i ELSE i - 1) = (IF j > c THEN j ELSE j - 1) /\ c \in Nat
    BY <1>2 DEF Textures
  <2> QED BY <2>1
<1>5. \A i \in 1 .. NumTextures : new[i].tex # c
  <2> TAKE i \in 1 .. NumTextures
  <2>1. (IF i > c THEN i ELSE i - 1) # c
    BY DEF Textures
  <2> QED BY <2>1, <1>2
<1>6. ASSUME NEW f \in Frames(new) PROVE f.tex # c /\ f.released = FALSE
  <2>1. PICK i \in 1 .. NumTextures : f = new[i]
    BY <1>3 DEF Frames
  <2>2. new[i].tex # c
    BY <1>5
  <2>3. new[i].released = FALSE
    BY <1>2
  <2> QED BY <2>1, <2>2, <2>3
<1> QED BY <1>3, <1>4, <1>6

LEMMA StartGpuEncodeKeeps ==
  ASSUME GpuInv, Overlap = FALSE, NEW e \in Encoders, StartGpuEncode(e)
  PROVE  GpuInv' /\ \A next, m : Ready(next, m) => Ready(next, m)'
<1>1. /\ stopping[e] = "no" /\ e \notin Frames(gpu_encoders) /\ Quiet /\ gpu_thread # "blocked"
      /\ IF gpu_encoders = << >> THEN Create
         ELSE UNCHANGED <<textures, syncVars, gpu_thread, wait_frames>>
      /\ gpu_encoders' = Append(gpu_encoders, e)
      /\ gpu_encoder_active' = gpu_encoder_active + 1
      /\ start_ts' = start_ts \ {e} /\ gpu_counter' = [gpu_counter EXCEPT ![e] = 0]
  BY DEF StartGpuEncode, Frames
<1>2. UNCHANGED <<tf, encoders, lock_count, lock_key, next_key, stopping, failed, gpu_tick>>
  BY DEF StartGpuEncode, threadVars
<1>3. /\ gpu_encoders \in Seq(Encoders) /\ Once(gpu_encoders)
      /\ gpu_encoder_active = Len(gpu_encoders)
      /\ gpu_encoders' \in Seq(Encoders) /\ Len(gpu_encoders') = Len(gpu_encoders) + 1
      /\ gpu_encoders' # << >>
      /\ Frames(gpu_encoders') = Frames(gpu_encoders) \cup {e}
      /\ Once(gpu_encoders')
  BY <1>1, ListAppend DEF GpuInv, GpuTypes, GpuUsers
<1>4. \A x \in Encoders : stopping'[x] = "no"
  BY <1>1, <1>2 DEF Quiet
<1>5. start_ts' \subseteq Encoders /\ gpu_counter' \in [Encoders -> Nat]
  BY <1>1 DEF GpuInv, GpuTypes
<1>6. gpu_exists' => GpuUsers'
  <2> SUFFICES ASSUME gpu_exists' PROVE GpuUsers'
    OBVIOUS
  <2>1. (\A x \in Frames(gpu_encoders) : stopping[x] = "no")'
    <3>1. Frames(gpu_encoders') \subseteq Encoders
      BY <1>3, ListOf
    <3> QED BY <3>1, <1>4 DEF Frames
  <2>2. Once(gpu_encoders)' /\ gpu_encoder_active' = Len(gpu_encoders')
    BY <1>1, <1>3 DEF Once
  <2>3. \A x \in Encoders : ~Closing(x)'
    BY <1>4 DEF Closing
  <2> QED BY <2>1, <2>2, <2>3, <1>3, <1>4 DEF GpuUsers
<1> DEFINE Created == /\ GpuInv' /\ \A next, m : Ready(next, m) => Ready(next, m)'
<1>7. ASSUME gpu_encoders = << >> PROVE Created
  <2> DEFINE new == [i \in 1 .. NumTextures |->
               [NoTexture EXCEPT !.tex = IF i > convert_texture THEN i ELSE i - 1]]
  <2>1. /\ avail' = avail \o new /\ keys' = [t \in Textures |-> ByGraphics]
        /\ gpu_semaphore' = 0 /\ gpu_inactive' = TRUE /\ gpu_exists' = TRUE /\ gpu_stop' = FALSE
        /\ gpu_thread' = "wait" /\ wait_frames' = WaitFrames
        /\ queue' = queue /\ convert_texture' = convert_texture
    BY <1>1, <1>7 DEF Create
  <2>2. /\ avail = << >> /\ queue = << >> /\ gpu_tick = 0 /\ encoders = << >> /\ ~(tf.count > 0)
    BY <1>1, <1>7, QuietQueue
  <2>3. convert_texture \in Textures /\ NumTextures \in Nat /\ WaitFrames \in Nat
    BY GpuAssumption DEF GpuInv, GpuTypes
  <2>4. /\ new \in Seq(Frame) /\ Len(new) = NumTextures /\ Distinct(new)
        /\ \A f \in Frames(new) : f.tex # convert_texture /\ f.released = FALSE
    BY <2>3, NewTextures
  <2> HIDE DEF new
  <2>5. avail' = new
    BY <2>1, <2>2, <2>4
  <2>6. GpuTypes'
    <3>1. GpuTypes /\ wait_frames' \in 0 .. WaitFrames
      BY <2>1, <2>3 DEF GpuInv
    <3>2. keys' \in [Textures -> Keys]
      BY <2>1 DEF Keys, ByGraphics
    <3> QED BY <3>1, <3>2, <2>1, <2>4, <2>5, <1>2, <1>3, <1>5 DEF GpuTypes
  <2>7. GpuThreadAt'
    <3>1. Frames(encoders)' = {} /\ encoders' = << >> /\ ~(tf'.count > 0)
      BY <2>2, <1>2 DEF Frames
    <3> QED BY <3>1, <2>1 DEF GpuThreadAt
  <2>8. Stock'
    <3>1. Frames(queue) = {} /\ Distinct(queue) /\ Len(queue) = 0
      BY <2>2, EmptyQueue
    <3>2. Places(avail', queue', tf', convert_texture')
      BY <3>1, <2>1, <2>2, <2>4, <2>5, <1>2 DEF Places
    <3>3. Places(avail, queue, tf, convert_texture)'
      BY <3>2 DEF Places, Frames, Distinct
    <3>4. keys'[convert_texture'] = ByGraphics
      BY <2>1, <2>3
    <3>5. Frames(queue)' = {} /\ \A f \in Frames(avail)' : f.released = FALSE
      BY <3>1, <2>1, <2>4, <2>5 DEF Frames
    <3>6. Keyed(avail, queue, tf, convert_texture, keys)'
      BY <3>4, <3>5, <2>2, <1>2 DEF Keyed
    <3>7. Len(avail') + Len(queue') + Taken(tf)' = NumTextures
      <4>1. Len(avail') = NumTextures /\ Len(queue') = 0 /\ Taken(tf)' = 0
        BY <3>1, <2>1, <2>2, <2>4, <2>5, <1>2 DEF Taken
      <4> QED BY <4>1, <2>3
    <3> QED BY <3>3, <3>6, <3>7, <2>1 DEF Stock
  <2>9. SemaphoreMatches'
    <3>1. Ticks(queue)' = 0 /\ tf'.count = 0
      <4>1. tf.count \in Nat
        BY QueueFrames
      <4> QED BY <4>1, <2>1, <2>2, <1>2, TicksEmpty DEF Ticks
    <3>2. Ticks(queue)' + tf'.count = 0 + 0 + WaitFrames - WaitFrames
      BY <3>1, <2>3
    <3> QED BY <3>2, <2>1 DEF SemaphoreMatches
  <2>10. \A next, m : Ready(next, m) => Ready(next, m)'
    BY <2>1, <1>2 DEF Ready, Line, Close, Starts, Frames
  <2> QED BY <2>1, <2>6, <2>7, <2>8, <2>9, <2>10, <1>6 DEF GpuInv
<1>8. ASSUME gpu_encoders # << >> PROVE Created
  <2>1. /\ gpu_exists /\ ~gpu_stop
        /\ UNCHANGED <<avail, queue, convert_texture, keys, gpu_semaphore, gpu_inactive,
                       gpu_exists, gpu_stop, gpu_thread, wait_frames>>
    BY <1>1, <1>8 DEF GpuInv, GpuUsers, GpuThreadAt, textures, syncVars
  <2>2. GpuTypes'
    <3>1. GpuTypes
      BY DEF GpuInv
    <3> QED BY <3>1, <2>1, <1>2, <1>3, <1>5 DEF GpuTypes
  <2>3. GpuThreadAt'
    <3>1. Frames(encoders)' = Frames(encoders) /\ Frames(encoders) \subseteq Encoders
      BY <1>2, ListOf DEF GpuInv, GpuTypes, Frames
    <3>2. \A x \in Frames(encoders)' : x \in Frames(gpu_encoders)' \/ stopping'[x] # "no"
      BY <3>1, <1>2, <1>3 DEF GpuInv, GpuThreadAt, Frames
    <3> QED BY <3>2, <2>1, <1>2 DEF GpuInv, GpuThreadAt
  <2>4. Stock'
    BY <2>1, <1>2 DEF GpuInv, Stock, Places, Keyed, Taken, Distinct, Frames
  <2>5. SemaphoreMatches'
    BY <2>1, <1>2 DEF GpuInv, SemaphoreMatches, Ticks
  <2>6. \A next, m : Ready(next, m) => Ready(next, m)'
    BY <2>1, <1>2 DEF Ready, Line, Close, Starts, Frames
  <2> QED BY <2>1, <2>2, <2>3, <2>4, <2>5, <2>6, <1>6 DEF GpuInv
<1> HIDE DEF Created
<1>9. Created
  BY <1>7, <1>8
<1> QED BY <1>9 DEF Created

LEMMA StopGpuEncodeKeeps ==
  ASSUME GpuInv, Overlap = FALSE, NEW e \in Encoders, StopGpuEncode(e)
  PROVE  GpuInv' /\ \A next, m : Ready(next, m) => Ready(next, m)'
<1>1. Quiet /\ BeginStop(e)
  BY DEF StopGpuEncode
<1>2. UNCHANGED <<avail, queue, convert_texture, keys, wait_frames, gpu_semaphore, gpu_inactive,
                  gpu_exists, gpu_stop, gpu_thread, encoders, lock_count, lock_key, next_key, tf,
                  start_ts, gpu_counter, failed, gpu_tick>>
  BY DEF StopGpuEncode, syncVars, textures, threadVars, encoderVars
<1>3. /\ GpuUsers' /\ gpu_encoders' \in Seq(Encoders) /\ ~gpu_stop
      /\ stopping' \in [Encoders -> {"no", "wait", "last", "join", "free"}]
      /\ \A x \in Frames(gpu_encoders) : x \in Frames(gpu_encoders)' \/ stopping'[x] # "no"
      /\ \A x \in Encoders : stopping[x] # "no" => stopping'[x] # "no"
  BY <1>1, <1>2, BeginStopUsers
<1>4. GpuTypes'
  <2>1. GpuTypes
    BY DEF GpuInv
  <2> QED BY <2>1, <1>2, <1>3 DEF GpuTypes
<1>5. GpuThreadAt'
  <2>1. Frames(encoders)' = Frames(encoders) /\ Frames(encoders) \subseteq Encoders
    BY <1>2, ListOf DEF GpuInv, GpuTypes, Frames
  <2>2. \A x \in Frames(encoders)' : x \in Frames(gpu_encoders)' \/ stopping'[x] # "no"
    BY <2>1, <1>3 DEF GpuInv, GpuThreadAt
  <2> QED BY <2>2, <1>2, <1>3 DEF GpuInv, GpuThreadAt
<1>6. Stock'
  BY <1>2 DEF GpuInv, Stock, Places, Keyed, Taken, Distinct, Frames
<1>7. SemaphoreMatches'
  BY <1>2 DEF GpuInv, SemaphoreMatches, Ticks
<1>8. \A next, m : Ready(next, m) => Ready(next, m)'
  BY <1>2 DEF Ready, Line, Close, Starts, Frames
<1> QED BY <1>3, <1>4, <1>5, <1>6, <1>7, <1>8 DEF GpuInv

(* While it is stopped, the thread holds no texture. *)
LEMMA NoStopInside ==
  ASSUME GpuInv, gpu_thread \notin {"encode", "blocked"}
  PROVE  /\ encoders = << >> /\ Frames(encoders) = {} /\ tf.count = 0
         /\ gpu_thread # "none" => gpu_exists
<1>1. encoders = << >> /\ ~(tf.count > 0) /\ tf.count \in Nat
  BY QueueFrames DEF GpuInv, GpuThreadAt
<1> QED BY <1>1, ThreadHasQueue DEF Frames

LEMMA StopWaitedKeeps ==
  ASSUME GpuInv, NEW e \in Encoders, StopWaited(e)
  PROVE  GpuInv' /\ \A next, m : Ready(next, m) => Ready(next, m)'
<1>1. /\ gpu_inactive
      /\ \/ /\ stopping[e] = "wait" /\ stopping' = [stopping EXCEPT ![e] = "no"]
            /\ gpu_stop' = gpu_stop /\ gpu_semaphore' = gpu_semaphore
         \/ /\ stopping[e] = "last" /\ stopping' = [stopping EXCEPT ![e] = "join"]
            /\ gpu_stop' = TRUE /\ gpu_semaphore' = gpu_semaphore + 1
  BY DEF StopWaited
<1>2. UNCHANGED <<avail, queue, convert_texture, keys, wait_frames, gpu_inactive,
                  gpu_exists, gpu_thread, encoders, lock_count, lock_key, next_key, tf,
                  gpu_encoders, gpu_encoder_active, start_ts, gpu_counter, failed, gpu_tick>>
  BY DEF StopWaited, textures, threadVars, encoderVars
<1>3. /\ gpu_thread \notin {"pop", "encode", "blocked"} /\ encoders = << >> /\ Frames(encoders) = {}
      /\ tf.count = 0 /\ gpu_exists
      /\ stopping \in [Encoders -> {"no", "wait", "last", "join", "free"}]
  <2>1. gpu_thread \notin {"pop", "encode", "blocked"}
    BY <1>1 DEF GpuInv, GpuThreadAt, GpuTypes
  <2>2. gpu_exists
    BY <1>1 DEF GpuInv, GpuUsers
  <2> QED BY <2>1, <2>2, NoStopInside DEF GpuInv, GpuTypes
<1>4. /\ stopping' \in [Encoders -> {"no", "wait", "last", "join", "free"}]
      /\ \A x \in Encoders : x # e => stopping'[x] = stopping[x]
      /\ stopping'[e] # "last" /\ stopping'[e] # "wait" /\ stopping'[e] # "free"
  BY <1>1, <1>3
<1>5. \A x \in Encoders : Closing(x)' <=> Closing(x)
  BY <1>1, <1>3 DEF Closing
<1>6. \A x \in Encoders : stopping'[x] # "no" => stopping[x] # "no"
  BY <1>1, <1>3
<1>7. GpuTypes'
  <2>1. GpuTypes
    BY DEF GpuInv
  <2>2. gpu_semaphore' \in Nat
    BY <2>1, <1>1 DEF GpuTypes
  <2>3. gpu_stop' \in BOOLEAN
    BY <2>1, <1>1 DEF GpuTypes
  <2> QED BY <2>1, <2>2, <2>3, <1>2, <1>4 DEF GpuTypes
<1>8. GpuUsers'
  <2>1. GpuUsers
    BY DEF GpuInv
  <2>2. (\A x \in Frames(gpu_encoders) : stopping[x] = "no")'
    <3>1. Frames(gpu_encoders)' = Frames(gpu_encoders) /\ Frames(gpu_encoders) \subseteq Encoders
      BY <1>2, ListOf DEF GpuInv, GpuTypes, Frames
    <3> QED BY <3>1, <2>1, <1>6 DEF GpuUsers
  <2>3. gpu_encoder_active' = Len(gpu_encoders') /\ Once(gpu_encoders)'
    BY <2>1, <1>2 DEF GpuUsers, Once
  <2>4. \A x, y \in Encoders : stopping'[x] # "no" /\ stopping'[y] # "no" /\ x # y
                                 => gpu_thread' = "blocked"
    BY <2>1, <1>2, <1>6 DEF GpuUsers
  <2>5. /\ \A x \in Encoders : Closing(x)' => gpu_encoders' = << >>
        /\ gpu_exists' <=> gpu_encoders' # << >> \/ \E x \in Encoders : Closing(x)'
    BY <2>1, <1>2, <1>5 DEF GpuUsers
  <2>6. \A x \in Encoders : stopping'[x] # "no" => gpu_exists'
    BY <1>2, <1>3
  <2>7. ASSUME NEW x \in Encoders, stopping'[x] \in {"join", "free"}
        PROVE  gpu_stop' /\ gpu_thread' # "blocked"
    <3>1. CASE x = e
      BY <3>1, <2>7, <1>1, <1>2, <1>3
    <3>2. CASE x # e
      <4>1. gpu_stop
        BY <3>2, <2>1, <2>7, <1>4 DEF GpuUsers
      <4> QED BY <4>1, <1>1, <1>2, <1>3
    <3> QED BY <3>1, <3>2
  <2>8. \A x \in Encoders : stopping'[x] = "free" => gpu_thread' = "none"
    BY <2>1, <1>2, <1>4 DEF GpuUsers
  <2> QED BY <2>2, <2>3, <2>4, <2>5, <2>6, <2>7, <2>8 DEF GpuUsers
<1>9. GpuThreadAt'
  <2>1. Frames(encoders)' = {} /\ encoders' = << >> /\ ~(tf'.count > 0)
    BY <1>2, <1>3 DEF Frames
  <2>2. gpu_stop' => gpu_encoders' = << >>
    BY <1>1, <1>2, <1>3 DEF GpuInv, GpuUsers, GpuThreadAt, Closing
  <2> QED BY <2>1, <2>2, <1>2, <1>3 DEF GpuInv, GpuThreadAt
<1>10. Stock'
  BY <1>2 DEF GpuInv, Stock, Places, Keyed, Taken, Distinct, Frames
<1>11. SemaphoreMatches'
  BY <1>1, <1>2 DEF GpuInv, SemaphoreMatches, Ticks
<1>12. \A next, m : Ready(next, m) => Ready(next, m)'
  BY <1>2 DEF Ready, Line, Close, Starts, Frames
<1> QED BY <1>7, <1>8, <1>9, <1>10, <1>11, <1>12 DEF GpuInv

LEMMA StopJoinedKeeps ==
  ASSUME GpuInv, NEW e \in Encoders, StopJoined(e)
  PROVE  GpuInv' /\ \A next, m : Ready(next, m) => Ready(next, m)'
<1>1. /\ stopping[e] = "join" /\ gpu_thread = "left"
      /\ stopping' = [stopping EXCEPT ![e] = "free"] /\ gpu_thread' = "none"
  BY DEF StopJoined
<1>2. UNCHANGED <<avail, queue, convert_texture, keys, wait_frames, gpu_inactive, gpu_semaphore,
                  gpu_exists, gpu_stop, encoders, lock_count, lock_key, next_key, tf,
                  gpu_encoders, gpu_encoder_active, start_ts, gpu_counter, failed, gpu_tick>>
  BY DEF StopJoined, textures, threadVars, encoderVars, syncVars
<1>3. /\ encoders = << >> /\ Frames(encoders) = {} /\ tf.count = 0 /\ gpu_exists
      /\ stopping \in [Encoders -> {"no", "wait", "last", "join", "free"}]
      /\ gpu_stop
  BY <1>1, NoStopInside DEF GpuInv, GpuTypes, GpuUsers
<1>4. /\ stopping' \in [Encoders -> {"no", "wait", "last", "join", "free"}]
      /\ \A x \in Encoders : Closing(x)' <=> Closing(x)
      /\ \A x \in Encoders : stopping'[x] # "no" <=> stopping[x] # "no"
  BY <1>1, <1>3 DEF Closing
<1>5. GpuTypes'
  <2>1. GpuTypes
    BY DEF GpuInv
  <2> QED BY <2>1, <1>1, <1>2, <1>4 DEF GpuTypes
<1>6. GpuUsers'
  <2>1. GpuUsers
    BY DEF GpuInv
  <2>2. (\A x \in Frames(gpu_encoders) : stopping[x] = "no")'
    <3>1. Frames(gpu_encoders)' = Frames(gpu_encoders) /\ Frames(gpu_encoders) \subseteq Encoders
      BY <1>2, ListOf DEF GpuInv, GpuTypes, Frames
    <3> QED BY <3>1, <2>1, <1>4 DEF GpuUsers
  <2>3. gpu_encoder_active' = Len(gpu_encoders') /\ Once(gpu_encoders)'
    BY <2>1, <1>2 DEF GpuUsers, Once
  <2>4. \A x, y \in Encoders : stopping'[x] # "no" /\ stopping'[y] # "no" /\ x # y
                                 => gpu_thread' = "blocked"
    BY <2>1, <1>1, <1>4 DEF GpuUsers
  <2>5. /\ \A x \in Encoders : Closing(x)' => gpu_encoders' = << >>
        /\ gpu_exists' <=> gpu_encoders' # << >> \/ \E x \in Encoders : Closing(x)'
    BY <2>1, <1>2, <1>4 DEF GpuUsers
  <2>6. gpu_exists' /\ gpu_stop' /\ gpu_thread' = "none"
    BY <1>1, <1>2, <1>3
  <2> QED BY <2>2, <2>3, <2>4, <2>5, <2>6 DEF GpuUsers
<1>7. GpuThreadAt'
  <2>1. Frames(encoders)' = {} /\ encoders' = << >> /\ ~(tf'.count > 0)
    BY <1>2, <1>3 DEF Frames
  <2> QED BY <2>1, <1>1, <1>2, <1>3 DEF GpuInv, GpuThreadAt
<1>8. Stock'
  BY <1>2 DEF GpuInv, Stock, Places, Keyed, Taken, Distinct, Frames
<1>9. SemaphoreMatches'
  BY <1>1 DEF SemaphoreMatches
<1>10. \A next, m : Ready(next, m) => Ready(next, m)'
  BY <1>2 DEF Ready, Line, Close, Starts, Frames
<1> QED BY <1>5, <1>6, <1>7, <1>8, <1>9, <1>10 DEF GpuInv

LEMMA StopFreedKeeps ==
  ASSUME GpuInv, NEW e \in Encoders, StopFreed(e)
  PROVE  GpuInv' /\ \A next, m : Ready(next, m)'
<1>1. /\ stopping[e] = "free" /\ stopping' = [stopping EXCEPT ![e] = "no"]
      /\ avail' = << >> /\ queue' = << >> /\ gpu_exists' = FALSE
      /\ gpu_semaphore' = 0 /\ gpu_tick' = 0
  BY DEF StopFreed
<1>2. UNCHANGED <<convert_texture, keys, wait_frames, gpu_inactive, gpu_thread,
                  gpu_stop, encoders, lock_count, lock_key, next_key, tf,
                  gpu_encoders, gpu_encoder_active, start_ts, gpu_counter, failed>>
  BY DEF StopFreed, threadVars, encoderVars
<1>3. /\ gpu_thread = "none" /\ gpu_encoders = << >>
      /\ stopping \in [Encoders -> {"no", "wait", "last", "join", "free"}]
  BY <1>1 DEF GpuInv, GpuTypes, GpuUsers, Closing
<1>4. encoders = << >> /\ Frames(encoders) = {} /\ tf.count = 0
  BY <1>3, NoStopInside
<1>5. \A x \in Encoders : stopping'[x] = "no"
  <2>1. \A x \in Encoders : x # e => stopping[x] = "no"
    BY <1>1, <1>3 DEF GpuInv, GpuUsers
  <2> QED BY <2>1, <1>1, <1>3
<1>6. GpuTypes'
  <2>1. GpuTypes
    BY DEF GpuInv
  <2> QED BY <2>1, <1>1, <1>2, EmptyQueue DEF GpuTypes
<1>7. GpuUsers'
  <2>1. gpu_encoder_active' = Len(gpu_encoders') /\ Once(gpu_encoders)'
    BY <1>2 DEF GpuInv, GpuUsers, Once
  <2>2. (\A x \in Frames(gpu_encoders) : stopping[x] = "no")'
    BY <1>2, <1>3 DEF Frames
  <2>3. gpu_exists' = FALSE /\ gpu_encoders' = << >> /\ \A x \in Encoders : ~Closing(x)'
    BY <1>1, <1>2, <1>3, <1>5 DEF Closing
  <2> QED BY <2>1, <2>2, <2>3, <1>5 DEF GpuUsers
<1>8. GpuThreadAt'
  <2>1. Frames(encoders)' = {} /\ encoders' = << >> /\ ~(tf'.count > 0)
    BY <1>2, <1>4 DEF Frames
  <2> QED BY <2>1, <1>1, <1>2, <1>3 DEF GpuInv, GpuThreadAt
<1>9. Frames(avail)' = {} /\ Frames(queue)' = {} /\ ~(tf'.count > 0)
  BY <1>1, <1>2, <1>4 DEF Frames
<1>10. Stock'
  <2>1. Distinct(avail)' /\ Distinct(queue)'
    BY <1>1 DEF Distinct
  <2>2. Places(avail, queue, tf, convert_texture)'
    BY <2>1, <1>9 DEF Places
  <2>3. keys'[convert_texture'] = ByGraphics
    BY <1>2 DEF GpuInv, Stock, Keyed
  <2>4. Keyed(avail, queue, tf, convert_texture, keys)'
    BY <2>3, <1>9 DEF Keyed
  <2> QED BY <2>2, <2>4, <1>1 DEF Stock
<1>11. SemaphoreMatches'
  BY <1>2, <1>3 DEF SemaphoreMatches
<1>12. ASSUME NEW next, NEW m PROVE Ready(next, m)'
  <2>1. Line(tf, queue, gpu_tick, next)'
    BY <1>1, <1>9 DEF Line
  <2> QED BY <2>1, <1>9 DEF Ready, Close
<1> QED BY <1>6, <1>7, <1>8, <1>10, <1>11, <1>12 DEF GpuInv

-----------------------------------------------------------------------------
(* The graphics thread and the start                                        *)

LEMMA MorePosts ==
  ASSUME NEW a \in Nat, NEW p \in Nat, NEW t \in Nat, NEW s \in Nat, NEW x \in Nat, NEW w \in Nat,
         NEW f \in Nat, a + t = s + x + w - f
  PROVE  a + p + t = s + p + x + w - f
  OBVIOUS

LEMMA BothZero ==
  ASSUME NEW a \in Nat, NEW b \in Nat, a + b = 0 + 0
  PROVE  a = 0 /\ b = 0
  OBVIOUS

(* The graphics thread hands over a frame that stands for several ticks. *)
LEMMA EncodeGpuKeeps ==
  ASSUME GpuInv, NEW m \in Nat, NEW info \in [timestamp : Nat, count : 1 .. m],
         NEW raw \in BOOLEAN, EncodeGpu(info, raw), Ready(info.timestamp, m)
  PROVE  GpuInv' /\ Ready(info.timestamp + info.count, m)'
<1> DEFINE start == [avail |-> avail, queue |-> queue, convert |-> convert_texture,
                     keys |-> keys, posts |-> 0]
<1>1. /\ tf \in Frame /\ avail \in Seq(Frame) /\ queue \in Seq(Frame) /\ gpu_semaphore \in Nat
      /\ convert_texture \in Textures /\ keys \in [Textures -> Keys]
      /\ Ticks(queue) \in Nat /\ Len(avail) \in Nat /\ Len(queue) \in Nat /\ NumTextures \in Nat
      /\ NumTextures > 1 /\ tf.count \in Nat
  BY QueueFrames, GpuAssumption DEF GpuInv, GpuTypes
<1>2. Handed(start, info, 0, m)
  <2>1. Sound(start)
    <3>1. start \in Queues
      BY <1>1 DEF Queues
    <3> QED BY <3>1 DEF GpuInv, Stock, Sound
  <2>2. Line(tf, queue, gpu_tick, info.timestamp + 0) /\ Close(queue, m)
    BY DEF Ready
  <2>3. Ticks(start.queue) = Ticks(queue) + start.posts
    <3>1. start.queue = queue /\ start.posts = 0
      OBVIOUS
    <3> QED BY <3>1, <1>1
  <2> QED BY <2>1, <2>2, <2>3 DEF Handed
<1>3. PICK q : /\ Handed(q, info, info.count, m)
               /\ avail' = q.avail /\ queue' = q.queue /\ convert_texture' = q.convert
               /\ keys' = q.keys /\ gpu_semaphore' = gpu_semaphore + q.posts
  <2> HIDE DEF start
  <2>1. start = [avail |-> avail, queue |-> queue, convert |-> convert_texture,
                 keys |-> keys, posts |-> 0]
    BY DEF start
  <2> QED BY <2>1, <1>1, <1>2, EncodeGpuHands
<1>4. UNCHANGED <<gpu_inactive, gpu_exists, gpu_stop, gpu_thread, wait_frames, gpu_tick,
                  tf, encoders, lock_count, lock_key, next_key, gpu_encoders, gpu_encoder_active,
                  stopping, start_ts, gpu_counter, failed>>
  BY DEF EncodeGpu, threadVars, userVars, encoderVars
<1>5. /\ q \in Queues /\ Places(q.avail, q.queue, tf, q.convert)
      /\ Keyed(q.avail, q.queue, tf, q.convert, q.keys)
      /\ Len(q.avail) + Len(q.queue) = Len(avail) + Len(queue)
      /\ Ticks(q.queue) = Ticks(queue) + q.posts
      /\ Len(avail) + Len(queue) > 0 => Line(tf, q.queue, gpu_tick, info.timestamp + info.count)
      /\ Close(q.queue, m)
  BY <1>3 DEF Handed, Sound
<1>6. /\ q.avail \in Seq(Frame) /\ q.queue \in Seq(Frame) /\ q.convert \in Textures
      /\ q.keys \in [Textures -> Keys] /\ q.posts \in Nat
      /\ Len(q.avail) \in Nat /\ Len(q.queue) \in Nat
      /\ (q.avail = << >> <=> Len(q.avail) = 0) /\ (q.queue = << >> <=> Len(q.queue) = 0)
  <2>1. /\ q.avail \in Seq(Frame) /\ q.queue \in Seq(Frame) /\ q.convert \in Textures
        /\ q.keys \in [Textures -> Keys] /\ q.posts \in Nat
    BY <1>5 DEF Queues
  <2> QED BY <2>1, FramesOf
<1>7. GpuTypes'
  <2>1. GpuTypes /\ gpu_semaphore' \in Nat
    BY <1>1, <1>3, <1>6 DEF GpuInv
  <2> QED BY <2>1, <1>3, <1>4, <1>6 DEF GpuTypes
<1>8. GpuUsers'
  BY <1>4 DEF GpuInv, GpuUsers, Closing, Frames, Once
<1>9. GpuThreadAt'
  <2>1. ASSUME queue # << >> PROVE queue' # << >>
    <3>1. Ticks(queue) = Head(queue).count + Ticks(Tail(queue)) /\ Tail(queue) \in Seq(Frame)
      BY <2>1, <1>1, QueueTail, TicksTail
    <3>2. Head(queue).count \in Nat /\ Head(queue).count > 0
      <4>1. Head(queue) \in Frames(queue) /\ Frames(queue) \subseteq Frame
        BY <2>1, <1>1, QueueTail, QueueFrames
      <4> QED BY <4>1 DEF GpuInv, Stock, Keyed, Frame
    <3>3. Ticks(Tail(queue)) \in Nat /\ q.posts \in Nat
      BY <3>1, <1>6, TicksSum
    <3>4. Ticks(q.queue) # 0
      BY <3>1, <3>2, <3>3, <1>1, <1>5
    <3> QED BY <3>4, <1>3, TicksEmpty
  <2> QED BY <2>1, <1>4 DEF GpuInv, GpuThreadAt, Frames
<1>10. ~gpu_exists => /\ q.avail = << >> /\ q.queue = << >> /\ gpu_tick = 0 /\ ~(tf.count > 0)
  <2>1. ~gpu_exists => Len(q.avail) + Len(q.queue) = 0 + 0 /\ gpu_tick = 0
    BY <1>5, EmptyQueue DEF GpuInv, Stock
  <2>2. ~gpu_exists => ~(tf.count > 0)
    BY DEF GpuInv, GpuThreadAt
  <2>3. ~gpu_exists => Len(q.avail) = 0 /\ Len(q.queue) = 0
    BY <2>1, <1>6, BothZero
  <2> QED BY <2>1, <2>2, <2>3, <1>6
<1>11. Stock'
  <2>1. Places(avail', queue', tf', convert_texture')
        /\ Keyed(avail', queue', tf, convert_texture', keys')
    BY <1>3, <1>4, <1>5
  <2>2. Places(avail, queue, tf, convert_texture)'
    BY <2>1 DEF Places, Frames, Distinct
  <2>3. Keyed(avail, queue, tf, convert_texture, keys)'
    BY <2>1, <1>4 DEF Keyed, Frames
  <2>4. gpu_exists => Len(avail') + Len(queue') + Taken(tf)' = NumTextures
    <3>1. Taken(tf)' = Taken(tf)
      BY <1>4 DEF Taken
    <3>2. gpu_exists => Len(avail) + Len(queue) + Taken(tf) = NumTextures
      BY DEF GpuInv, Stock
    <3>3. Len(avail') + Len(queue') = Len(avail) + Len(queue)
      BY <1>3, <1>5
    <3> QED BY <3>1, <3>2, <3>3
  <2> QED BY <2>2, <2>3, <2>4, <1>3, <1>4, <1>10 DEF Stock
<1>12. SemaphoreMatches'
  <2>1. Ticks(queue)' = Ticks(queue) + q.posts /\ tf' = tf
    BY <1>3, <1>4, <1>5 DEF Ticks
  <2>2. wait_frames \in Nat /\ WaitFrames \in Nat
    BY GpuAssumption DEF GpuInv, GpuTypes
  <2> DEFINE x == IF gpu_thread = "wait" THEN 0 ELSE 1
  <2>3. x \in Nat
    OBVIOUS
  <2>4. gpu_thread \in {"wait", "woken", "reset", "pop", "encode", "blocked"} /\ ~gpu_stop =>
          Ticks(queue) + tf.count = gpu_semaphore + x + WaitFrames - wait_frames
    BY DEF GpuInv, SemaphoreMatches
  <2> HIDE DEF x
  <2>5. gpu_thread \in {"wait", "woken", "reset", "pop", "encode", "blocked"} /\ ~gpu_stop =>
          Ticks(queue) + q.posts + tf.count = gpu_semaphore + q.posts + x + WaitFrames - wait_frames
    <3> SUFFICES ASSUME gpu_thread \in {"wait", "woken", "reset", "pop", "encode", "blocked"}, ~gpu_stop
                 PROVE  Ticks(queue) + q.posts + tf.count
                          = gpu_semaphore + q.posts + x + WaitFrames - wait_frames
      OBVIOUS
    <3>1. /\ Ticks(queue) \in Nat /\ q.posts \in Nat /\ tf.count \in Nat /\ gpu_semaphore \in Nat
          /\ Ticks(queue) + tf.count = gpu_semaphore + x + WaitFrames - wait_frames
      BY <2>4, <1>1, <1>6
    <3> QED BY <3>1, <2>2, <2>3, MorePosts
  <2> QED BY <2>1, <2>5, <1>3, <1>4 DEF SemaphoreMatches, x
<1>13. Line(tf, q.queue, gpu_tick, info.timestamp + info.count)
  <2>1. CASE gpu_exists
    <3>1. Len(avail) + Len(queue) + Taken(tf) = NumTextures /\ Taken(tf) \in 0 .. 1
      BY <2>1 DEF GpuInv, Stock, Taken
    <3>2. Len(avail) + Len(queue) > 0
      BY <3>1, <1>1
    <3> QED BY <3>2, <1>5
  <2>2. CASE ~gpu_exists
    BY <2>2, <1>10, <1>1, EmptyQueue DEF Line
  <2> QED BY <2>1, <2>2
<1>14. Ready(info.timestamp + info.count, m)'
  <2>1. Line(tf', queue', gpu_tick', info.timestamp + info.count) /\ Close(queue', m)
    BY <1>3, <1>4, <1>5, <1>13
  <2> QED BY <2>1, <1>4 DEF Ready, Line, Starts, Close, Frames
<1> QED BY <1>7, <1>8, <1>9, <1>11, <1>12, <1>14 DEF GpuInv

LEMMA GpuInitInv ==
  ASSUME GpuInit
  PROVE  GpuInv /\ \A next, m : Ready(next, m)
<1>1. /\ avail = << >> /\ queue = << >> /\ convert_texture = 0
      /\ keys = [t \in Textures |-> ByGraphics] /\ tf = NoTexture /\ gpu_tick = 0
      /\ encoders = << >> /\ gpu_encoders = << >> /\ gpu_encoder_active = 0
      /\ gpu_thread = "none" /\ gpu_exists = FALSE /\ gpu_stop = FALSE /\ gpu_inactive = TRUE
      /\ stopping = [e \in Encoders |-> "no"]
  BY DEF GpuInit
<1>2. /\ tf.count = 0 /\ tf \in Frame /\ 0 \in Textures /\ NumTextures \in Nat /\ WaitFrames \in Nat
  BY <1>1, GpuAssumption DEF NoTexture, Frame, Textures
<1>3. /\ Frames(avail) = {} /\ Frames(queue) = {} /\ Distinct(avail) /\ Distinct(queue)
      /\ avail \in Seq(Frame) /\ queue \in Seq(Frame) /\ Len(queue) = 0
  BY <1>1, EmptyQueue
<1>4. GpuTypes
  <2>1. << >> \in Seq(Encoders)
    OBVIOUS
  <2>2. keys \in [Textures -> Keys]
    BY <1>1 DEF Keys, ByGraphics
  <2>3. gpu_counter \in [Encoders -> Nat] /\ start_ts \subseteq Encoders /\ failed \subseteq Encoders
    BY DEF GpuInit
  <2> QED BY <2>1, <2>2, <2>3, <1>1, <1>2, <1>3 DEF GpuTypes, GpuInit
<1>5. GpuUsers
  BY <1>1 DEF GpuUsers, Closing, Frames, Once
<1>6. GpuThreadAt
  BY <1>1, <1>2 DEF GpuThreadAt, Frames
<1>7. Stock
  BY <1>1, <1>2, <1>3 DEF Stock, Places, Keyed
<1>8. SemaphoreMatches
  BY <1>1 DEF SemaphoreMatches
<1>9. \A next, m : Ready(next, m)
  BY <1>1, <1>2, <1>3 DEF Ready, Line, Close
<1> QED BY <1>4, <1>5, <1>6, <1>7, <1>8, <1>9 DEF GpuInv

-----------------------------------------------------------------------------
(* What the invariant says                                                  *)

LEMMA Joined ==
  ASSUME NEW s \in Seq(Frame), NEW t \in Seq(Frame)
  PROVE  /\ s \o t \in Seq(Frame) /\ Len(s \o t) = Len(s) + Len(t)
         /\ Frames(s \o t) = Frames(s) \cup Frames(t)
         /\ Distinct(s) /\ Distinct(t) /\ (\A f \in Frames(s), g \in Frames(t) : f.tex # g.tex)
              => Distinct(s \o t)
<1> DEFINE a == s \o t
<1>1. /\ a \in Seq(Frame) /\ Len(a) = Len(s) + Len(t)
      /\ \A i \in 1 .. Len(s) + Len(t) : a[i] = IF i <= Len(s) THEN s[i] ELSE t[i - Len(s)]
  BY ConcatProperties
<1> HIDE DEF a
<1>2. /\ Len(s) \in Nat /\ Len(t) \in Nat
      /\ Frames(s) = {s[i] : i \in 1 .. Len(s)} /\ Frames(t) = {t[i] : i \in 1 .. Len(t)}
      /\ Frames(a) = {a[i] : i \in 1 .. Len(a)}
  BY <1>1, FramesOf
<1>3. \A i \in 1 .. Len(a) : \/ i \in 1 .. Len(s) /\ a[i] = s[i]
                             \/ ~(i \in 1 .. Len(s)) /\ i - Len(s) \in 1 .. Len(t)
                                /\ a[i] = t[i - Len(s)]
  BY <1>1, <1>2
<1>4. \A i \in 1 .. Len(s) : i \in 1 .. Len(a) /\ a[i] = s[i]
  BY <1>1, <1>2
<1>5. \A i \in 1 .. Len(t) : Len(s) + i \in 1 .. Len(a) /\ a[Len(s) + i] = t[i]
  <2> TAKE i \in 1 .. Len(t)
  <2>1. Len(s) + i \in 1 .. Len(a) /\ ~(Len(s) + i <= Len(s)) /\ Len(s) + i - Len(s) = i
    BY <1>1, <1>2
  <2> QED BY <2>1, <1>1
<1>6. Frames(a) = Frames(s) \cup Frames(t)
  <2>1. \A f \in Frames(a) : f \in Frames(s) \/ f \in Frames(t)
    BY <1>2, <1>3
  <2>2. \A f \in Frames(s) : f \in Frames(a)
    BY <1>2, <1>4
  <2>3. \A f \in Frames(t) : f \in Frames(a)
    BY <1>2, <1>5
  <2> QED BY <2>1, <2>2, <2>3
<1>7. ASSUME Distinct(s), Distinct(t), \A f \in Frames(s), g \in Frames(t) : f.tex # g.tex
      PROVE  Distinct(a)
  <2>1. \A i \in 1 .. Len(s), j \in 1 .. Len(t) : s[i].tex # t[j].tex
    BY <1>2, <1>7
  <2> SUFFICES ASSUME NEW i \in 1 .. Len(a), NEW j \in 1 .. Len(a), a[i].tex = a[j].tex
               PROVE  i = j
    BY DEF Distinct
  <2>2. i \in 1 .. Len(s) <=> j \in 1 .. Len(s)
    BY <2>1, <1>3
  <2>3. CASE i \in 1 .. Len(s)
    BY <2>2, <2>3, <1>3, <1>7 DEF Distinct
  <2>4. CASE ~(i \in 1 .. Len(s))
    <3>1. i - Len(s) = j - Len(s)
      BY <2>2, <2>4, <1>3, <1>7 DEF Distinct
    <3> QED BY <3>1, <1>1, <1>2
  <2> QED BY <2>3, <2>4
<1> QED BY <1>1, <1>6, <1>7 DEF a

(* As many textures as there are places *)
LEMMA CountTextures ==
  ASSUME NEW s \in Seq(Frame), Distinct(s), NEW c, \A f \in Frames(s) : f.tex # c
  PROVE  Cardinality({f.tex : f \in Frames(s)} \cup {c}) = Len(s) + 1
<1> DEFINE T == {f.tex : f \in Frames(s)} \cup {c}
           n == Len(s) + 1
           M == [i \in 1 .. n |-> IF i = n THEN c ELSE s[i].tex]
<1>1. Len(s) \in Nat /\ n \in Nat /\ Frames(s) = {s[i] : i \in 1 .. Len(s)}
  BY FramesOf
<1>2. \A i \in 1 .. Len(s) : s[i] \in Frames(s) /\ i \in 1 .. n /\ i # n
  BY <1>1
<1>3. \A i \in 1 .. n : i = n \/ i \in 1 .. Len(s)
  BY <1>1
<1>4. M[n] = c /\ \A i \in 1 .. Len(s) : M[i] = s[i].tex
  BY <1>1, <1>2
<1> HIDE DEF n
<1>5. M \in [1 .. n -> T]
  BY <1>2, <1>3
<1> HIDE DEF M
<1>6. \A i, j \in 1 .. n : M[i] = M[j] => i = j
  BY <1>2, <1>3, <1>4 DEF Distinct
<1>7. \A t \in T : \E i \in 1 .. n : M[i] = t
  <2>1. n \in 1 .. n
    BY <1>1 DEF n
  <2>2. \A f \in Frames(s) : \E i \in 1 .. Len(s) : f = s[i]
    BY <1>1
  <2>3. \A f \in Frames(s) : \E i \in 1 .. n : M[i] = f.tex
    BY <2>2, <1>2, <1>4
  <2> QED BY <2>1, <2>3, <1>4
<1> HIDE DEF T
<1>8. M \in Bijection(1 .. n, T)
  <2>1. M \in Injection(1 .. n, T)
    BY <1>5, <1>6 DEF Injection, IsInjective
  <2>2. M \in Surjection(1 .. n, T)
    BY <1>5, <1>7 DEF Surjection
  <2> QED BY <2>1, <2>2 DEF Bijection
<1>9. Cardinality(T) = n
  BY <1>1, <1>8, FS_CountingElements DEF ExistsBijection
<1> QED BY <1>9 DEF T, n

LEMMA ThreadFrames ==
  ASSUME GpuInv
  PROVE  /\ InThread \in Seq(Frame) /\ Distinct(InThread) /\ Len(InThread) = Taken(tf)
         /\ Frames(InThread) = IF tf.count > 0 THEN {tf} ELSE {}
<1>1. tf \in Frame /\ tf.count \in Nat
  BY QueueFrames DEF GpuInv, GpuTypes
<1>2. CASE tf.count = 0
  <2>1. InThread = << >> /\ Taken(tf) = 0 /\ ~(tf.count > 0)
    BY <1>2 DEF InThread, Taken
  <2> QED BY <2>1, EmptyQueue
<1>3. CASE tf.count > 0
  <2>1. InThread = <<tf>> /\ Taken(tf) = 1
    BY <1>3 DEF InThread, Taken
  <2>2. Frames(<<tf>>) = {tf} /\ Len(<<tf>>) = 1 /\ <<tf>> \in Seq(Frame)
    BY <1>1 DEF Frames
  <2>3. Distinct(<<tf>>)
    BY DEF Distinct
  <2> QED BY <2>1, <2>2, <2>3, <1>3
<1> QED BY <1>1, <1>2, <1>3

LEMMA AllFrames ==
  ASSUME GpuInv
  PROVE  /\ AllTextures \in Seq(Frame) /\ Len(AllTextures) = Len(avail) + Len(queue) + Taken(tf)
         /\ Frames(AllTextures) = Frames(avail) \cup Frames(queue) \cup Frames(InThread)
         /\ Distinct(AllTextures) /\ \A f \in Frames(AllTextures) : f.tex # convert_texture
<1>1. /\ avail \in Seq(Frame) /\ queue \in Seq(Frame)
      /\ Places(avail, queue, tf, convert_texture)
  BY DEF GpuInv, GpuTypes, Stock
<1>2. /\ InThread \in Seq(Frame) /\ Distinct(InThread) /\ Len(InThread) = Taken(tf)
      /\ \A f \in Frames(InThread) : tf.count > 0 /\ f = tf
  BY ThreadFrames
<1> DEFINE a == avail \o queue
<1>3. /\ a \in Seq(Frame) /\ Len(a) = Len(avail) + Len(queue)
      /\ Frames(a) = Frames(avail) \cup Frames(queue) /\ Distinct(a)
  BY <1>1, Joined DEF Places
<1> HIDE DEF a
<1>4. \A f \in Frames(a), g \in Frames(InThread) : f.tex # g.tex
  BY <1>1, <1>2, <1>3 DEF Places
<1>5. /\ a \o InThread \in Seq(Frame) /\ Len(a \o InThread) = Len(a) + Len(InThread)
      /\ Frames(a \o InThread) = Frames(a) \cup Frames(InThread) /\ Distinct(a \o InThread)
  BY <1>2, <1>3, <1>4, Joined
<1>6. \A f \in Frames(a \o InThread) : f.tex # convert_texture
  BY <1>1, <1>2, <1>3, <1>5 DEF Places
<1>7. AllTextures = a \o InThread
  BY DEF AllTextures, a
<1> QED BY <1>2, <1>3, <1>5, <1>6, <1>7

LEMMA InvTextures == ASSUME GpuInv PROVE TexturesOnce
<1> SUFFICES ASSUME gpu_exists
             PROVE  /\ Len(AllTextures) = NumTextures
                    /\ Cardinality({f.tex : f \in Frames(AllTextures)} \cup {convert_texture})
                         = NumTextures + 1
  BY DEF TexturesOnce
<1>1. Len(AllTextures) = NumTextures
  BY AllFrames DEF GpuInv, Stock
<1> QED BY <1>1, AllFrames, CountTextures

LEMMA InvKeys == ASSUME GpuInv PROVE KeysHandedOver
<1>1. avail \in Seq(Frame) /\ queue \in Seq(Frame) /\ Keyed(avail, queue, tf, convert_texture, keys)
  BY DEF GpuInv, GpuTypes, Stock
<1>2. Frames(avail \o queue) = Frames(avail) \cup Frames(queue)
  BY <1>1, Joined
<1> QED BY <1>1, <1>2 DEF KeysHandedOver, Keyed, CanAcquire

LEMMA InvTypes == ASSUME GpuInv PROVE GpuTypeOK
<1>1. Frames(AllTextures) \subseteq Frame
  BY AllFrames, FramesOf
<1>2. /\ Frames(encoders) \subseteq Encoders /\ Frames(gpu_encoders) \subseteq Encoders
  BY ListOf DEF GpuInv, GpuTypes
<1>3. GpuTypes
  BY DEF GpuInv
<1> QED BY <1>1, <1>2, <1>3 DEF GpuTypeOK, GpuTypes, Keys, Frame

(* What InThread \o queue is like *)
LEMMA LineOf ==
  ASSUME GpuInv, NEW line, line = InThread \o queue
  PROVE  /\ tf.count = 0 => line = queue
         /\ tf.count > 0 => /\ Len(line) = Len(queue) + 1 /\ line # << >> /\ line[1] = tf
                            /\ \A i \in 1 .. Len(queue) : line[i + 1] = queue[i]
         /\ Frames(line) = Frames(queue) \cup (IF tf.count > 0 THEN {tf} ELSE {})
         /\ Len(line) \in Nat /\ (line = << >> <=> Len(line) = 0)
<1>1. queue \in Seq(Frame) /\ tf \in Frame /\ InThread \in Seq(Frame)
  BY ThreadFrames DEF GpuInv, GpuTypes
<1>2. Frames(line) = Frames(queue) \cup (IF tf.count > 0 THEN {tf} ELSE {})
  BY <1>1, Joined, ThreadFrames
<1>3. Len(line) \in Nat /\ (line = << >> <=> Len(line) = 0)
  <2>1. line \in Seq(Frame)
    BY <1>1, Joined
  <2> QED BY <2>1, FramesOf
<1>4. ASSUME tf.count = 0 PROVE line = queue
  <2>1. line = << >> \o queue
    BY <1>4 DEF InThread
  <2> QED BY <2>1, <1>1
<1>5. ASSUME tf.count > 0
      PROVE  /\ Len(line) = Len(queue) + 1 /\ line # << >> /\ line[1] = tf
             /\ \A i \in 1 .. Len(queue) : line[i + 1] = queue[i]
  <2>1. line = <<tf>> \o queue
    BY <1>5 DEF InThread
  <2> QED BY <2>1, <1>1, QueueFront
<1> QED BY <1>2, <1>3, <1>4, <1>5

LEMMA ReadyStamps ==
  ASSUME GpuInv, NEW next, NEW m, Ready(next, m)
  PROVE  \A f \in Frames(InThread \o queue) : f.tick - f.timestamp \in 0 .. m - 1
<1>1. Frames(InThread \o queue) = Frames(queue) \cup (IF tf.count > 0 THEN {tf} ELSE {})
  BY LineOf
<1> QED BY <1>1 DEF Ready, Close

LEMMA ReadyLine ==
  ASSUME GpuInv, NEW next \in Nat, NEW m, Ready(next, m), NEW line, line = InThread \o queue,
         line # << >>
  PROVE  /\ \A i \in 1 .. Len(line) - 1 : line[i + 1].tick = line[i].tick + line[i].count
         /\ gpu_tick > 0 => line[1].tick = gpu_tick + 1
         /\ Last(line).tick + Last(line).count = next
<1>1. Line(tf, queue, gpu_tick, next) /\ tf.count \in Nat /\ Len(queue) \in Nat
      /\ (queue = << >> <=> Len(queue) = 0)
  BY QueueFrames DEF Ready
<1>2. CASE tf.count = 0
  <2>1. line = queue
    BY <1>2, LineOf
  <2> QED BY <2>1, <1>1, <1>2 DEF Line, Starts, Last
<1>3. CASE tf.count > 0
  <2>1. /\ Len(line) = Len(queue) + 1 /\ line[1] = tf
        /\ \A i \in 1 .. Len(queue) : line[i + 1] = queue[i]
    BY <1>3, LineOf
  <2>2. Starts(queue, next, tf.tick + tf.count) /\ (gpu_tick > 0 => tf.tick = gpu_tick + 1)
    BY <1>1, <1>3 DEF Line
  <2>3. \A i \in 1 .. Len(line) - 1 : line[i + 1].tick = line[i].tick + line[i].count
    <3> TAKE i \in 1 .. Len(line) - 1
    <3>1. i \in 1 .. Len(queue) /\ queue # << >>
      BY <2>1, <1>1
    <3>2. CASE i = 1
      BY <3>1, <3>2, <2>1, <2>2 DEF Starts
    <3>3. CASE i # 1
      <4>1. i - 1 \in 1 .. Len(queue) - 1 /\ i - 1 \in 1 .. Len(queue) /\ i - 1 + 1 = i
        BY <3>1, <3>3, <1>1
      <4>2. queue[i].tick = queue[i - 1].tick + queue[i - 1].count
        BY <4>1, <1>1 DEF Line
      <4>3. line[i] = queue[i - 1] /\ line[i + 1] = queue[i]
        BY <4>1, <3>1, <2>1
      <4> QED BY <4>2, <4>3
    <3> QED BY <3>2, <3>3
  <2>4. Last(line).tick + Last(line).count = next
    <3>1. CASE queue = << >>
      <4>1. Len(line) = 1
        BY <3>1, <2>1, <1>1
      <4>2. Last(line) = tf
        BY <4>1, <2>1 DEF Last
      <4> QED BY <4>2, <3>1, <2>2 DEF Starts
    <3>2. CASE queue # << >>
      <4>1. Len(queue) \in 1 .. Len(queue)
        BY <3>2, <1>1
      <4>2. Last(line) = queue[Len(queue)]
        BY <4>1, <2>1 DEF Last
      <4> QED BY <4>2, <3>2, <1>1 DEF Line
    <3> QED BY <3>1, <3>2
  <2> QED BY <2>1, <2>2, <2>3, <2>4
<1> QED BY <1>1, <1>2, <1>3
=============================================================================
