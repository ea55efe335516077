------------------------- MODULE ReplayBuffer_proof -------------------------
(***************************************************************************)
(* Proofs about ReplayBuffer: for every ring size, horizon, set of tracks  *)
(* and kind of failure.  First what holds in every step of every use (the  *)
(* inductive invariant Inv, the sizes); then what of it ends with the      *)
(* output or with a save (QuietInv, SaveInv); then what a single session   *)
(* keeps in memory: packets in the interleaver's order, in groups of       *)
(* pictures, begun by a keyframe (RingInv) and long enough (WindowInv),    *)
(* and dense enough for a clip whose streams stay in order and in sync     *)
(* (OrderInv); last what the purge makes of the cap (CapInv), and that it  *)
(* ends (PurgeInv).                                                        *)
(***************************************************************************)
EXTENDS ReplayBuffer, ReplayClip_proof

(* The streams of a session are never more than one timestamp apart, and    *)
(* none is behind its start.                                                *)
Lockstep ==
  \E t \in Streams : /\ base <= next[t]
                     /\ \A s \in Streams : next[s] = next[t] \/ next[s] = next[t] + 1

Running == {"open", "write", "fail", "fail: end", "fail: stopping", "fail: signal",
            "fail: capturing", "drop", "free"}

(* What muxing, mux_joinable and mux_packets say of the mux thread          *)
MuxInv ==
  /\ mux_joinable <=> mux # "none"
  /\ muxing <=> mux \in Running
  /\ mux \in {"none", "open", "write", "exited"} => written = 0
  /\ muxing => written <= Len(mux_packets)
  /\ mux \in {"signal", "exited"} => mux_packets = << >>
  /\ mux = "none" /\ ~ThreadMayFail => mux_packets = << >>

(* Which steps of the data thread exclude which states of the others        *)
DataInv ==
  /\ data = "join" => mux \in {"signal", "exited"}
  /\ data = "save" => mux = "none"
  /\ failing => data \in {"end capture", "deactivate"}
  /\ capture = "idle" => data \in {"idle", "end capture", "deactivate"}
  /\ ui \in {"joining", "destroyed"} => capture = "idle"

(* cur_size, which the cap is compared with, is what the ring takes. *)
SizeCounter == cur_size = SizeSum(packets)

Inv == TypeOK /\ Lockstep /\ MuxInv /\ DataInv /\ RingCounters /\ PacketRefs
-----------------------------------------------------------------------------
(* The initial state. *)
LEMMA InitInv == Init => Inv
<1> SUFFICES ASSUME Init PROVE Inv
  OBVIOUS
<1> USE DEF Init
<1>1. TypeOK
  <2>1. NoPacket \in Packet
    BY DEF NoPacket, Packet, Streams
  <2>2. << >> \in Seq(Packet) /\ << >> \in Seq(ClipPacket)
    OBVIOUS
  <2>3. RingTypeOK
    BY <2>2 DEF RingTypeOK
  <2>4. SaveTypeOK
    BY <2>2 DEF SaveTypeOK, MuxStates
  <2>5. DataTypeOK
    BY <2>1 DEF DataTypeOK, DataStates
  <2>6. FlagsTypeOK /\ FrontendTypeOK
    BY DEF FlagsTypeOK, FrontendTypeOK
  <2>7. refs \in Int
    OBVIOUS
  <2> QED BY <2>3, <2>4, <2>5, <2>6, <2>7 DEF TypeOK
<1>2. Lockstep
  BY DEF Lockstep, Streams
<1>3. MuxInv /\ DataInv
  BY DEF MuxInv, DataInv, Running
<1>4. RingCounters
  BY FS_EmptySet DEF RingCounters
<1>5. PacketRefs
  BY DEF PacketRefs, InHand, InClip, Purging
<1> QED BY <1>1, <1>2, <1>3, <1>4, <1>5 DEF Inv

(* The newest timestamp is a timestamp. *)
LEMMA LastSysType ==
  ASSUME TypeOK, Lockstep
  PROVE  LastSys \in Nat /\ \A s \in Streams : next[s] <= LastSys
<1>1. PICK t \in Streams : \A s \in Streams : next[s] = next[t] \/ next[s] = next[t] + 1
  BY DEF Lockstep
<1>2. \A s \in Streams : next[s] \in Nat
  BY DEF TypeOK, DataTypeOK
<1>3. \E s \in Streams : \A r \in Streams : next[s] >= next[r]
  <2>1. CASE \E s \in Streams : next[s] = next[t] + 1
    BY <1>1, <1>2, <2>1
  <2>2. CASE ~ \E s \in Streams : next[s] = next[t] + 1
    BY <1>1, <1>2, <2>2
  <2> QED BY <2>1, <2>2
<1> QED BY <1>2, <1>3 DEF LastSys

(* A request is made at a point of time. *)
LEMMA NowType ==
  ASSUME TypeOK, Lockstep
  PROVE  Now \subseteq Nat
BY LastSysType, BoundsAssumption DEF Now

(* A request to stop leaves the flags what they are. *)
LEMMA MuxStopType ==
  ASSUME FlagsTypeOK, NEW ts \in Nat, MuxStop(ts)
  PROVE  /\ active' \in BOOLEAN /\ capturing' \in BOOLEAN /\ stopping' \in BOOLEAN
         /\ stop_ts' \in Nat
<1>1. CASE capturing \/ ts = 0
  BY <1>1 DEF MuxStop, FlagsTypeOK
<1>2. CASE ~ (capturing \/ ts = 0)
  BY <1>2 DEF MuxStop, FlagsTypeOK, flags
<1> QED BY <1>1, <1>2

(* A delivered packet leaves to the data thread what becomes of the output. *)
LEMMA DeliverLeaves ==
  ASSUME DeliverPacket
  PROVE  UNCHANGED <<ring, limits, flags, save, muxThread, output, base, enc_error, frontend>>
<1> PICK s \in Streams, key \in BOOLEAN, size \in KeySizes \cup DeltaSizes \cup AudioSizes :
      Deliver(s, key, size)
  BY DEF DeliverPacket
<1> QED BY DEF Deliver

(* A delivered packet is a packet of this session, and is all that the data *)
(* thread sees of it.                                                       *)
LEMMA DeliverEffect ==
  ASSUME DeliverPacket, TypeOK, Lockstep
  PROVE  /\ data = "idle" /\ capture # "idle"
         /\ failing' = failing /\ pkt' \in Packet
         /\ \/ data' \in {"idle", "end capture"} /\ refs' = refs
            \/ data' = "purge" /\ refs' = refs + 1
         /\ UNCHANGED <<ring, limits, flags, save, muxThread, output, base, enc_error, frontend>>
<1> PICK s \in Streams, key \in BOOLEAN, size \in KeySizes \cup DeltaSizes \cup AudioSizes :
      Deliver(s, key, size)
  BY DEF DeliverPacket
<1> DEFINE p == [stream |-> s, key |-> key, dts |-> next[s] - base, size |-> size]
<1>1. p \in Packet
  <2>1. next[s] - base \in Nat
    BY DEF Lockstep, TypeOK, DataTypeOK
  <2>2. size \in Nat
    BY SizesAssumption
  <2> QED BY <2>1, <2>2 DEF Packet
<1>2. refs \in Int /\ pkt \in Packet
  BY DEF TypeOK, RingTypeOK, DataTypeOK
<1> HIDE DEF p
<1>3. /\ data = "idle" /\ capture # "idle"
      /\ UNCHANGED <<ring, limits, flags, save, muxThread, output, base, enc_error, frontend>>
  BY DEF Deliver
<1>4. /\ failing' = failing
      /\ \/ data' = data /\ pkt' = pkt /\ refs' = refs
         \/ data' = "end capture" /\ pkt' = p /\ refs' = refs
         \/ data' = "purge" /\ pkt' = p /\ refs' = refs + 1
  BY DEF Deliver, dataThread, p
<1> QED BY <1>1, <1>2, <1>3, <1>4

-----------------------------------------------------------------------------
(* Counting the keyframes of a sequence of packets. *)
KeyPositions(seq) == {i \in DOMAIN seq : IsKeyframe(seq[i])}

LEMMA KeyPositionsFinite ==
  ASSUME NEW seq \in Seq(Packet)
  PROVE  IsFiniteSet(KeyPositions(seq)) /\ Cardinality(KeyPositions(seq)) \in Nat
<1>1. DOMAIN seq = 1 .. Len(seq) /\ Len(seq) \in Nat
  OBVIOUS
<1>2. IsFiniteSet(DOMAIN seq)
  BY <1>1, FS_Interval
<1>3. IsFiniteSet(KeyPositions(seq))
  BY <1>2, FS_Subset DEF KeyPositions
<1> QED BY <1>3, FS_CardinalityType

LEMMA KeysOfAppend ==
  ASSUME NEW seq \in Seq(Packet), NEW p \in Packet
  PROVE  Cardinality(KeyPositions(Append(seq, p)))
           = Cardinality(KeyPositions(seq)) + (IF IsKeyframe(p) THEN 1 ELSE 0)
<1> DEFINE n == Len(seq) + 1
<1>1. /\ Append(seq, p) \in Seq(Packet) /\ DOMAIN Append(seq, p) = 1 .. n
      /\ Append(seq, p)[n] = p /\ n \in Nat /\ DOMAIN seq = 1 .. n - 1
      /\ \A i \in 1 .. n - 1 : Append(seq, p)[i] = seq[i]
  OBVIOUS
<1> HIDE DEF n
<1>2. KeyPositions(Append(seq, p))
        = IF IsKeyframe(p) THEN KeyPositions(seq) \cup {n} ELSE KeyPositions(seq)
  BY <1>1 DEF KeyPositions
<1>3. n \notin KeyPositions(seq)
  BY <1>1 DEF KeyPositions
<1>4. IsFiniteSet(KeyPositions(seq)) /\ Cardinality(KeyPositions(seq)) \in Nat
  BY KeyPositionsFinite
<1>5. Cardinality(KeyPositions(seq) \cup {n}) = Cardinality(KeyPositions(seq)) + 1
  BY <1>3, <1>4, FS_AddElement
<1> QED BY <1>2, <1>4, <1>5

LEMMA KeysOfTail ==
  ASSUME NEW seq \in Seq(Packet), seq # << >>
  PROVE  Cardinality(KeyPositions(Tail(seq)))
           = Cardinality(KeyPositions(seq)) - (IF IsKeyframe(Head(seq)) THEN 1 ELSE 0)
<1> DEFINE Back == KeyPositions(Tail(seq))
           Rest == KeyPositions(seq) \ {1}
           shift == [i \in Back |-> i + 1]
<1>1. /\ Len(seq) \in Nat \ {0} /\ Head(seq) = seq[1]
      /\ Tail(seq) \in Seq(Packet) /\ Len(Tail(seq)) = Len(seq) - 1
      /\ \A i \in 1 .. Len(seq) - 1 : Tail(seq)[i] = seq[i + 1]
      /\ DOMAIN seq = 1 .. Len(seq) /\ DOMAIN Tail(seq) = 1 .. Len(seq) - 1
  OBVIOUS
<1>2. shift \in Bijection(Back, Rest)
  <2>1. \A i \in Back : i \in Nat /\ i + 1 \in Rest
    BY <1>1 DEF KeyPositions
  <2>2. \A j \in Rest : j - 1 \in Back /\ j \in Nat
    BY <1>1 DEF KeyPositions
  <2> HIDE DEF Back, Rest
  <2>3. shift \in [Back -> Rest]
    BY <2>1
  <2>4. \A i, j \in Back : shift[i] = shift[j] => i = j
    BY <2>1
  <2>5. \A j \in Rest : \E i \in Back : shift[i] = j
    <3> SUFFICES ASSUME NEW j \in Rest PROVE \E i \in Back : shift[i] = j
      OBVIOUS
    <3>1. j - 1 \in Back /\ shift[j - 1] = j
      BY <2>2
    <3> QED BY <3>1
  <2> HIDE DEF shift
  <2> QED BY <2>3, <2>4, <2>5 DEF Bijection, Injection, IsInjective, Surjection
<1>3. IsFiniteSet(Back) /\ Cardinality(Back) = Cardinality(Rest)
  <2>1. IsFiniteSet(Back)
    BY <1>1, KeyPositionsFinite
  <2>2. ExistsBijection(Back, Rest)
    BY <1>2 DEF ExistsBijection
  <2> HIDE DEF Back, Rest
  <2> QED BY <2>1, <2>2, FS_Bijection
<1>4. /\ IsFiniteSet(KeyPositions(seq)) /\ Cardinality(KeyPositions(seq)) \in Nat
      /\ 1 \in KeyPositions(seq) <=> IsKeyframe(Head(seq))
  <2>1. IsFiniteSet(KeyPositions(seq)) /\ Cardinality(KeyPositions(seq)) \in Nat
    BY KeyPositionsFinite
  <2>2. 1 \in DOMAIN seq /\ Head(seq) = seq[1]
    BY <1>1
  <2> QED BY <2>1, <2>2 DEF KeyPositions
<1>5. Cardinality(Rest) = IF 1 \in KeyPositions(seq) THEN Cardinality(KeyPositions(seq)) - 1
                                                    ELSE Cardinality(KeyPositions(seq))
  BY <1>4, FS_RemoveElement
<1> HIDE DEF Back, Rest
<1> QED BY <1>3, <1>4, <1>5 DEF Back

(* The three ways the ring changes keep its counters in step with it. *)
LEMMA PushRing ==
  ASSUME RingTypeOK, RingCounters, Push, pkt \in Packet
  PROVE  RingTypeOK' /\ RingCounters'
<1>1. /\ packets' = Append(packets, pkt)
      /\ cur_time' = IF packets = << >> THEN pkt.dts ELSE cur_time
      /\ cur_size' = cur_size + pkt.size
      /\ keyframes' = keyframes + (IF IsKeyframe(pkt) THEN 1 ELSE 0)
      /\ UNCHANGED limits
  BY DEF Push
<1>2. pkt.dts \in Nat /\ pkt.size \in Nat
  BY DEF Packet
<1>3. RingTypeOK'
  BY <1>1, <1>2 DEF RingTypeOK, limits
<1>4. keyframes' = Cardinality(KeyPositions(packets'))
  BY <1>1, KeysOfAppend DEF RingTypeOK, RingCounters, KeyPositions
<1>5. cur_time' = Head(packets').dts
  BY <1>1 DEF RingTypeOK, RingCounters
<1> QED BY <1>3, <1>4, <1>5 DEF RingCounters, KeyPositions

LEMMA PurgeFrontRing ==
  ASSUME RingTypeOK, RingCounters, PurgeFront, UNCHANGED limits
  PROVE  RingTypeOK' /\ RingCounters'
<1>1. CASE packets = << >>
  BY <1>1 DEF PurgeFront, RingTypeOK, RingCounters, ring, limits
<1>2. CASE packets # << >>
  <2>1. /\ packets' = Tail(packets)
        /\ keyframes' = keyframes - (IF IsKeyframe(Head(packets)) THEN 1 ELSE 0)
        /\ \/ Len(packets) = 1 /\ cur_size' = 0 /\ cur_time' = 0
           \/ /\ Len(packets) # 1
              /\ cur_size' = cur_size - Head(packets).size
              /\ cur_time' = packets[2].dts
    BY <1>2 DEF PurgeFront, FrontIsKeyframe, Freed
  <2>2. packets \in Seq(Packet) /\ cur_size \in Int /\ max_size \in Nat /\ max_time \in Nat
    BY DEF RingTypeOK
  <2>3. /\ Tail(packets) \in Seq(Packet) /\ Len(packets) \in Nat \ {0}
        /\ Head(packets) = packets[1] /\ Head(packets) \in Packet
        /\ Tail(packets) # << >> => Len(packets) # 1 /\ Head(Tail(packets)) = packets[2]
        /\ Len(packets) # 1 => packets[2] \in Packet
    <3>1. Tail(packets) \in Seq(Packet) /\ Len(Tail(packets)) = Len(packets) - 1
      BY <1>2, <2>2
    <3>2. Len(packets) \in Nat \ {0} /\ Head(packets) = packets[1] /\ Head(packets) \in Packet
      BY <1>2, <2>2
    <3>3. Len(packets) # 1 => packets[2] \in Packet
      <4>1. \A n \in Nat \ {0} : n # 1 => 2 \in 1 .. n
        OBVIOUS
      <4>2. Len(packets) # 1 => 2 \in 1 .. Len(packets)
        BY <3>2, <4>1
      <4> QED BY <2>2, <4>2, ElementOfSeq
    <3>4. ASSUME Tail(packets) # << >>
          PROVE  Len(packets) # 1 /\ Head(Tail(packets)) = packets[2]
      <4>1. Len(Tail(packets)) # 0
        BY <3>1, <3>4, EmptySeq
      <4>2. 1 \in 1 .. Len(Tail(packets)) /\ Tail(packets)[1] = packets[2]
        BY <1>2, <2>2, <3>1, <4>1, HeadTailProperties
      <4> QED BY <3>1, <3>2, <4>1, <4>2
    <3> QED BY <3>1, <3>2, <3>3, <3>4
  <2>4. keyframes' = Cardinality(KeyPositions(packets'))
    BY <1>2, <2>1, <2>2, KeysOfTail DEF RingCounters, KeyPositions
  <2>5. keyframes' \in Nat
    BY <2>1, <2>3, <2>4, KeyPositionsFinite
  <2>6. cur_time' \in Nat /\ cur_size' \in Int
    BY <2>1, <2>2, <2>3 DEF Packet
  <2>7. packets' # << >> => cur_time' = Head(packets').dts
    BY <2>1, <2>3
  <2> QED BY <2>1, <2>2, <2>3, <2>4, <2>5, <2>6, <2>7
          DEF RingTypeOK, RingCounters, KeyPositions, limits
<1> QED BY <1>1, <1>2

LEMMA ClearRingRing ==
  ASSUME ClearRing
  PROVE  RingTypeOK' /\ RingCounters'
<1>1. /\ packets' = << >> /\ keyframes' = 0 /\ cur_size' = 0 /\ cur_time' = 0
      /\ max_size' = 0 /\ max_time' = 0
  BY DEF ClearRing
<1>2. RingTypeOK'
  BY <1>1 DEF RingTypeOK
<1>3. KeyPositions(packets') = {}
  BY <1>1 DEF KeyPositions
<1> QED BY <1>1, <1>2, <1>3, FS_EmptySet DEF RingCounters, KeyPositions

(* What holds while packets are counted: the lengths are numbers. *)
LEMMA Lengths ==
  ASSUME Inv
  PROVE  /\ Len(packets) \in Nat /\ Len(mux_packets) \in Nat /\ written \in Nat /\ refs \in Int
         /\ packets = << >> => Len(packets) = 0
         /\ mux_packets = << >> => Len(mux_packets) = 0
<1>1. packets \in Seq(Packet) /\ mux_packets \in Seq(ClipPacket) /\ written \in Nat /\ refs \in Int
  BY DEF Inv, TypeOK, RingTypeOK, SaveTypeOK
<1>2. Len(<< >>) = 0
  BY EmptySeq
<1> QED BY <1>1, <1>2, LenProperties

LEMMA HeldTypes ==
  ASSUME Inv
  PROVE  InHand \in Int /\ InClip \in Int
<1>1. InHand \in Int
  BY DEF InHand
<1>2. InClip \in Int
  BY Lengths DEF InClip
<1> QED BY <1>1, <1>2

(* The purge drops a reference for every packet it takes off the ring. *)
LEMMA PurgeFrontRefs ==
  ASSUME Inv, PurgeFront
  PROVE  refs' - Len(packets') = refs - Len(packets) /\ Len(packets') \in Nat /\ refs' \in Int
<1>1. packets \in Seq(Packet)
  BY DEF Inv, TypeOK, RingTypeOK
<1>2. CASE packets = << >>
  BY <1>2, Lengths DEF PurgeFront, ring
<1>3. CASE packets # << >>
  <2>1. packets' = Tail(packets) /\ refs' = refs - 1
    BY <1>3 DEF PurgeFront
  <2>2. Len(Tail(packets)) = Len(packets) - 1 /\ Len(packets) \in Nat \ {0}
    BY <1>1, <1>3, HeadTailProperties, EmptySeq
  <2> QED BY <2>1, <2>2, Lengths
<1> QED BY <1>2, <1>3

(* Every step keeps the types of the flags of the output. *)
LEMMA FlagsTypeStep == Inv /\ [Next]_vars => FlagsTypeOK'
<1> SUFFICES ASSUME Inv, [Next]_vars PROVE FlagsTypeOK'
  OBVIOUS
<1> USE DEF FlagsTypeOK, ring, limits, flags, save, dataThread, muxThread,
            output, encoders, frontend
<1>0. FlagsTypeOK /\ Now \subseteq Nat
  BY NowType DEF Inv, TypeOK
<1>1. CASE UiNext
  <2>1. CASE StartReplayBuffer
    BY <1>0, <2>1 DEF StartReplayBuffer
  <2>2. CASE StopReplayBuffer
    BY <1>0, <2>2 DEF StopReplayBuffer, MuxStop
  <2>3. CASE SaveReplay
    BY <1>0, <2>3 DEF SaveReplay, RequestSave
  <2>4. CASE SaveHotkey
    BY <1>0, <2>4 DEF SaveHotkey, RequestSave
  <2>5. CASE Shutdown
    BY <1>0, <2>5, MuxStopType DEF Shutdown
  <2>6. CASE Destroy
    BY <1>0, <2>6 DEF Destroy, ClearRing
  <2>7. CASE DestroyJoin
    BY <1>0, <2>7 DEF DestroyJoin
  <2> QED BY <1>1, <2>1, <2>2, <2>3, <2>4, <2>5, <2>6, <2>7 DEF UiNext
<1>2. CASE EncoderNext
  <2>1. CASE DeliverPacket
    BY <1>0, <2>1, DeliverLeaves
  <2>2. CASE EncoderFails
    BY <1>0, <2>2, MuxStopType DEF EncoderFails
  <2>3. CASE DeliverError
    BY <1>0, <2>3 DEF DeliverError
  <2> QED BY <1>2, <2>1, <2>2, <2>3 DEF EncoderNext
<1>3. CASE DataNext
  BY <1>0, <1>3 DEF DataNext, EndCapture, EndDataCapture, Deactivate,
       ClearRing, Purge, PurgeForSize, PurgeFront, PurgeForTime,
       PurgeToKeyframe, Push, Join, Save
<1>4. CASE MuxNext
  BY <1>0, <1>4 DEF MuxNext, MuxOpen, MuxWrite, MuxFail, MuxFailEnd,
       EndDataCapture, MuxFailStopping, MuxFailSignal, MuxFailCapturing,
       MuxFree, ForgetClip, MuxSignalSaved
<1>5. CASE EndThread
  BY <1>0, <1>5 DEF EndThread
<1>6. CASE UNCHANGED vars
  BY <1>0, <1>6 DEF vars
<1> QED BY <1>1, <1>2, <1>3, <1>4, <1>5, <1>6 DEF Next

(* Every step keeps the types of the frontend. *)
LEMMA FrontendTypeStep == Inv /\ [Next]_vars => FrontendTypeOK'
<1> SUFFICES ASSUME Inv, [Next]_vars PROVE FrontendTypeOK'
  OBVIOUS
<1> USE DEF FrontendTypeOK, ring, limits, flags, save, dataThread, muxThread,
            output, encoders, frontend
<1>0. FrontendTypeOK
  BY DEF Inv, TypeOK
<1>1. CASE UiNext
  <2>1. CASE StartReplayBuffer
    BY <1>0, <2>1 DEF StartReplayBuffer
  <2>2. CASE StopReplayBuffer
    BY <1>0, <2>2 DEF StopReplayBuffer, MuxStop
  <2>3. CASE SaveReplay
    BY <1>0, <2>3 DEF SaveReplay, RequestSave
  <2>4. CASE SaveHotkey
    BY <1>0, <2>4 DEF SaveHotkey, RequestSave
  <2>5. CASE Shutdown
    BY <1>0, <2>5 DEF Shutdown, MuxStop
  <2>6. CASE Destroy
    BY <1>0, <2>6 DEF Destroy, ClearRing
  <2>7. CASE DestroyJoin
    BY <1>0, <2>7 DEF DestroyJoin
  <2> QED BY <1>1, <2>1, <2>2, <2>3, <2>4, <2>5, <2>6, <2>7 DEF UiNext
<1>2. CASE EncoderNext
  <2>1. CASE DeliverPacket
    BY <1>0, <2>1, DeliverLeaves
  <2>2. CASE EncoderFails
    BY <1>0, <2>2 DEF EncoderFails, MuxStop
  <2>3. CASE DeliverError
    BY <1>0, <2>3 DEF DeliverError
  <2> QED BY <1>2, <2>1, <2>2, <2>3 DEF EncoderNext
<1>3. CASE DataNext
  BY <1>0, <1>3 DEF DataNext, EndCapture, EndDataCapture, Deactivate,
       ClearRing, Purge, PurgeForSize, PurgeFront, PurgeForTime,
       PurgeToKeyframe, Push, Join, Save
<1>4. CASE MuxNext
  BY <1>0, <1>4 DEF MuxNext, MuxOpen, MuxWrite, MuxFail, MuxFailEnd,
       EndDataCapture, MuxFailStopping, MuxFailSignal, MuxFailCapturing,
       MuxFree, ForgetClip, MuxSignalSaved
<1>5. CASE EndThread
  BY <1>0, <1>5 DEF EndThread
<1>6. CASE UNCHANGED vars
  BY <1>0, <1>6 DEF vars
<1> QED BY <1>1, <1>2, <1>3, <1>4, <1>5, <1>6 DEF Next

(* Every step keeps the flags of the save in agreement with the mux thread. *)
LEMMA MuxInvStep == Inv /\ [Next]_vars => MuxInv'
<1> SUFFICES ASSUME Inv, [Next]_vars PROVE MuxInv'
  OBVIOUS
<1> USE DEF MuxInv, Running, MuxStates, ring, limits, flags, save, dataThread,
            muxThread, output, encoders, frontend
<1>0. MuxInv /\ DataInv /\ SaveTypeOK /\ RingTypeOK
  BY DEF Inv, TypeOK
<1>1. CASE UiNext
  <2>1. CASE StartReplayBuffer
    BY <1>0, <2>1 DEF StartReplayBuffer, SaveTypeOK, RingTypeOK, DataInv
  <2>2. CASE StopReplayBuffer
    BY <1>0, <2>2 DEF StopReplayBuffer, MuxStop, SaveTypeOK, RingTypeOK,
         DataInv
  <2>3. CASE SaveReplay
    BY <1>0, <2>3 DEF SaveReplay, RequestSave, SaveTypeOK, RingTypeOK, DataInv
  <2>4. CASE SaveHotkey
    BY <1>0, <2>4 DEF SaveHotkey, RequestSave, SaveTypeOK, RingTypeOK, DataInv
  <2>5. CASE Shutdown
    BY <1>0, <2>5 DEF Shutdown, MuxStop, SaveTypeOK, RingTypeOK, DataInv
  <2>6. CASE Destroy
    BY <1>0, <2>6 DEF Destroy, ClearRing, SaveTypeOK, RingTypeOK, DataInv
  <2>7. CASE DestroyJoin
    BY <1>0, <2>7 DEF DestroyJoin, SaveTypeOK, RingTypeOK, DataInv
  <2> QED BY <1>1, <2>1, <2>2, <2>3, <2>4, <2>5, <2>6, <2>7 DEF UiNext
<1>2. CASE EncoderNext
  <2>1. CASE DeliverPacket
    <3>1. /\ data = "idle" /\ capture # "idle" /\ data' \in {"idle", "end capture", "purge"}
          /\ UNCHANGED <<failing, mux_joinable, mux, muxing, written, mux_packets, capture, ui>>
      BY <2>1, DeliverEffect DEF Inv
    <3> QED BY <1>0, <3>1
  <2>2. CASE EncoderFails
    BY <1>0, <2>2 DEF EncoderFails, MuxStop, SaveTypeOK, RingTypeOK, DataInv
  <2>3. CASE DeliverError
    BY <1>0, <2>3 DEF DeliverError, SaveTypeOK, RingTypeOK, DataInv
  <2> QED BY <1>2, <2>1, <2>2, <2>3 DEF EncoderNext
<1>3. CASE DataNext
  <2>1. CASE EndCapture
    BY <1>0, <2>1 DEF EndCapture, EndDataCapture, SaveTypeOK, RingTypeOK,
         DataInv
  <2>2. CASE Deactivate
    BY <1>0, <2>2 DEF Deactivate, ClearRing, SaveTypeOK, RingTypeOK, DataInv
  <2>3. CASE Purge
    BY <1>0, <2>3 DEF Purge, SaveTypeOK, RingTypeOK, DataInv
  <2>4. CASE PurgeForSize
    BY <1>0, <2>4 DEF PurgeForSize, PurgeFront, SaveTypeOK, RingTypeOK,
         DataInv
  <2>5. CASE PurgeForTime
    BY <1>0, <2>5 DEF PurgeForTime, PurgeFront, SaveTypeOK, RingTypeOK,
         DataInv
  <2>6. CASE PurgeToKeyframe
    BY <1>0, <2>6 DEF PurgeToKeyframe, PurgeFront, SaveTypeOK, RingTypeOK,
         DataInv
  <2>7. CASE Push
    BY <1>0, <2>7 DEF Push, SaveTypeOK, RingTypeOK, DataInv
  <2>8. CASE Join
    BY <1>0, <2>8 DEF Join, SaveTypeOK, RingTypeOK, DataInv
  <2>9. CASE Save
    <3>1. Clip(mux_packets, packets) \in Seq(ClipPacket)
      BY <1>0, ClipSortsRing DEF SaveTypeOK, RingTypeOK
    <3>2. Len(mux_packets') \in Nat
      BY <2>9, <3>1 DEF Save
    <3>3. /\ written' = 0 /\ mux = "none" /\ ~ mux_joinable
          /\ \/ muxing' = TRUE /\ mux_joinable' = TRUE /\ mux' = "open"
             \/ ThreadMayFail /\ muxing' = FALSE /\ mux_joinable' = FALSE /\ mux' = mux
      BY <1>0, <2>9 DEF Save, DataInv
    <3>4. (mux_joinable' <=> mux' # "none") /\ (muxing' <=> mux' \in Running)
      BY <3>2, <3>3
    <3>5. mux' \in {"none", "open", "write", "exited"} => written' = 0
      BY <3>2, <3>3
    <3>6. muxing' => written' <= Len(mux_packets')
      BY <3>2, <3>3
    <3>7. /\ mux' \in {"signal", "exited"} => mux_packets' = << >>
          /\ mux' = "none" /\ ~ ThreadMayFail => mux_packets' = << >>
      BY <3>2, <3>3
    <3> QED BY <3>4, <3>5, <3>6, <3>7
  <2> QED BY <1>3, <2>1, <2>2, <2>3, <2>4, <2>5, <2>6, <2>7, <2>8, <2>9 DEF DataNext
<1>4. CASE MuxNext
  <2>1. CASE MuxOpen
    BY <1>0, <2>1 DEF MuxOpen, SaveTypeOK, RingTypeOK, DataInv
  <2>2. CASE MuxWrite
    <3>1. Len(mux_packets) \in Nat
      BY <1>0, LenProperties DEF SaveTypeOK
    <3>2. /\ written' \in 0 .. Len(mux_packets)
          /\ mux = "write" /\ mux' \in {"free", "fail"}
          /\ UNCHANGED <<muxing, mux_joinable, mux_packets>>
      BY <2>2, <3>1 DEF MuxWrite
    <3>4. (mux_joinable' <=> mux' # "none") /\ (muxing' <=> mux' \in Running)
      BY <1>0, <3>1, <3>2
    <3>5. mux' \in {"none", "open", "write", "exited"} => written' = 0
      BY <1>0, <3>1, <3>2
    <3>6. muxing' => written' <= Len(mux_packets')
      BY <1>0, <3>1, <3>2
    <3>7. /\ mux' \in {"signal", "exited"} => mux_packets' = << >>
          /\ mux' = "none" /\ ~ ThreadMayFail => mux_packets' = << >>
      BY <1>0, <3>1, <3>2
    <3> QED BY <3>4, <3>5, <3>6, <3>7
  <2>3. CASE MuxFail
    BY <1>0, <2>3 DEF MuxFail, SaveTypeOK, RingTypeOK, DataInv
  <2>4. CASE MuxFailEnd
    BY <1>0, <2>4 DEF MuxFailEnd, EndDataCapture, SaveTypeOK, RingTypeOK,
         DataInv
  <2>5. CASE MuxFailStopping
    BY <1>0, <2>5 DEF MuxFailStopping, SaveTypeOK, RingTypeOK, DataInv
  <2>6. CASE MuxFailSignal
    BY <1>0, <2>6 DEF MuxFailSignal, EndDataCapture, SaveTypeOK, RingTypeOK,
         DataInv
  <2>7. CASE MuxFailCapturing
    BY <1>0, <2>7 DEF MuxFailCapturing, SaveTypeOK, RingTypeOK, DataInv
  <2>8. CASE MuxFree
    BY <1>0, <2>8 DEF MuxFree, ForgetClip, SaveTypeOK, RingTypeOK, DataInv
  <2>9. CASE MuxSignalSaved
    BY <1>0, <2>9 DEF MuxSignalSaved, ForgetClip, SaveTypeOK, RingTypeOK,
         DataInv
  <2> QED BY <1>4, <2>1, <2>2, <2>3, <2>4, <2>5, <2>6, <2>7, <2>8, <2>9 DEF MuxNext
<1>5. CASE EndThread
  BY <1>0, <1>5 DEF EndThread, SaveTypeOK, RingTypeOK, DataInv
<1>6. CASE UNCHANGED vars
  BY <1>0, <1>6 DEF vars, SaveTypeOK, RingTypeOK, DataInv
<1> QED BY <1>1, <1>2, <1>3, <1>4, <1>5, <1>6 DEF Next

(* Every step keeps the threads out of the states that exclude each other. *)
LEMMA DataInvStep == Inv /\ [Next]_vars => DataInv'
<1> SUFFICES ASSUME Inv, [Next]_vars PROVE DataInv'
  OBVIOUS
<1> USE DEF DataInv, DataTypeOK, DataStates, ring, limits, flags, save,
            dataThread, muxThread, output, encoders, frontend
<1>0. DataInv /\ MuxInv /\ DataTypeOK /\ SaveTypeOK
  BY DEF Inv, TypeOK
<1>1. CASE UiNext
  <2>1. CASE StartReplayBuffer
    BY <1>0, <2>1 DEF StartReplayBuffer, MuxInv, SaveTypeOK, MuxStates,
         Running, Purging, EndDataCapture, AfterPush
  <2>2. CASE StopReplayBuffer
    BY <1>0, <2>2 DEF StopReplayBuffer, MuxStop, MuxInv, SaveTypeOK,
         MuxStates, Running, Purging, EndDataCapture, AfterPush
  <2>3. CASE SaveReplay
    BY <1>0, <2>3 DEF SaveReplay, RequestSave, MuxInv, SaveTypeOK, MuxStates,
         Running, Purging, EndDataCapture, AfterPush
  <2>4. CASE SaveHotkey
    BY <1>0, <2>4 DEF SaveHotkey, RequestSave, MuxInv, SaveTypeOK, MuxStates,
         Running, Purging, EndDataCapture, AfterPush
  <2>5. CASE Shutdown
    BY <1>0, <2>5 DEF Shutdown, MuxStop, MuxInv, SaveTypeOK, MuxStates,
         Running, Purging, EndDataCapture, AfterPush
  <2>6. CASE Destroy
    BY <1>0, <2>6 DEF Destroy, ClearRing, MuxInv, SaveTypeOK, MuxStates,
         Running, Purging, EndDataCapture, AfterPush
  <2>7. CASE DestroyJoin
    BY <1>0, <2>7 DEF DestroyJoin, MuxInv, SaveTypeOK, MuxStates, Running,
         Purging, EndDataCapture, AfterPush
  <2> QED BY <1>1, <2>1, <2>2, <2>3, <2>4, <2>5, <2>6, <2>7 DEF UiNext
<1>2. CASE EncoderNext
  <2>1. CASE DeliverPacket
    <3>1. /\ data = "idle" /\ capture # "idle" /\ data' \in {"idle", "end capture", "purge"}
          /\ UNCHANGED <<failing, mux_joinable, mux, muxing, written, mux_packets, capture, ui>>
      BY <2>1, DeliverEffect DEF Inv
    <3> QED BY <1>0, <3>1
  <2>2. CASE EncoderFails
    BY <1>0, <2>2 DEF EncoderFails, MuxStop, MuxInv, SaveTypeOK, MuxStates,
         Running, Purging, EndDataCapture, AfterPush
  <2>3. CASE DeliverError
    BY <1>0, <2>3 DEF DeliverError, MuxInv, SaveTypeOK, MuxStates, Running,
         Purging, EndDataCapture, AfterPush
  <2> QED BY <1>2, <2>1, <2>2, <2>3 DEF EncoderNext
<1>3. CASE DataNext
  <2>1. CASE EndCapture
    BY <1>0, <2>1 DEF EndCapture, EndDataCapture, MuxInv, SaveTypeOK,
         MuxStates, Running, Purging, AfterPush
  <2>2. CASE Deactivate
    BY <1>0, <2>2 DEF Deactivate, ClearRing, MuxInv, SaveTypeOK, MuxStates,
         Running, Purging, EndDataCapture, AfterPush
  <2>3. CASE Purge
    BY <1>0, <2>3 DEF Purge, MuxInv, SaveTypeOK, MuxStates, Running, Purging,
         EndDataCapture, AfterPush
  <2>4. CASE PurgeForSize
    BY <1>0, <2>4 DEF PurgeForSize, PurgeFront, MuxInv, SaveTypeOK, MuxStates,
         Running, Purging, EndDataCapture, AfterPush
  <2>5. CASE PurgeForTime
    BY <1>0, <2>5 DEF PurgeForTime, PurgeFront, MuxInv, SaveTypeOK, MuxStates,
         Running, Purging, EndDataCapture, AfterPush
  <2>6. CASE PurgeToKeyframe
    BY <1>0, <2>6 DEF PurgeToKeyframe, PurgeFront, MuxInv, SaveTypeOK,
         MuxStates, Running, Purging, EndDataCapture, AfterPush
  <2>7. CASE Push
    BY <1>0, <2>7 DEF Push, MuxInv, SaveTypeOK, MuxStates, Running, Purging,
         EndDataCapture, AfterPush
  <2>8. CASE Join
    BY <1>0, <2>8 DEF Join, MuxInv, SaveTypeOK, MuxStates, Running, Purging,
         EndDataCapture, AfterPush
  <2>9. CASE Save
    BY <1>0, <2>9 DEF Save, MuxInv, SaveTypeOK, MuxStates, Running, Purging,
         EndDataCapture, AfterPush
  <2> QED BY <1>3, <2>1, <2>2, <2>3, <2>4, <2>5, <2>6, <2>7, <2>8, <2>9 DEF DataNext
<1>4. CASE MuxNext
  <2>1. CASE MuxOpen
    BY <1>0, <2>1 DEF MuxOpen, MuxInv, SaveTypeOK, MuxStates, Running,
         Purging, EndDataCapture, AfterPush
  <2>2. CASE MuxWrite
    BY <1>0, <2>2 DEF MuxWrite, MuxInv, SaveTypeOK, MuxStates, Running,
         Purging, EndDataCapture, AfterPush
  <2>3. CASE MuxFail
    BY <1>0, <2>3 DEF MuxFail, MuxInv, SaveTypeOK, MuxStates, Running,
         Purging, EndDataCapture, AfterPush
  <2>4. CASE MuxFailEnd
    BY <1>0, <2>4 DEF MuxFailEnd, EndDataCapture, MuxInv, SaveTypeOK,
         MuxStates, Running, Purging, AfterPush
  <2>5. CASE MuxFailStopping
    BY <1>0, <2>5 DEF MuxFailStopping, MuxInv, SaveTypeOK, MuxStates, Running,
         Purging, EndDataCapture, AfterPush
  <2>6. CASE MuxFailSignal
    BY <1>0, <2>6 DEF MuxFailSignal, EndDataCapture, MuxInv, SaveTypeOK,
         MuxStates, Running, Purging, AfterPush
  <2>7. CASE MuxFailCapturing
    BY <1>0, <2>7 DEF MuxFailCapturing, MuxInv, SaveTypeOK, MuxStates,
         Running, Purging, EndDataCapture, AfterPush
  <2>8. CASE MuxFree
    BY <1>0, <2>8 DEF MuxFree, ForgetClip, MuxInv, SaveTypeOK, MuxStates,
         Running, Purging, EndDataCapture, AfterPush
  <2>9. CASE MuxSignalSaved
    BY <1>0, <2>9 DEF MuxSignalSaved, ForgetClip, MuxInv, SaveTypeOK,
         MuxStates, Running, Purging, EndDataCapture, AfterPush
  <2> QED BY <1>4, <2>1, <2>2, <2>3, <2>4, <2>5, <2>6, <2>7, <2>8, <2>9 DEF MuxNext
<1>5. CASE EndThread
  BY <1>0, <1>5 DEF EndThread, MuxInv, SaveTypeOK, MuxStates, Running,
       Purging, EndDataCapture, AfterPush
<1>6. CASE UNCHANGED vars
  BY <1>0, <1>6 DEF vars, MuxInv, SaveTypeOK, MuxStates, Running, Purging,
       EndDataCapture, AfterPush
<1> QED BY <1>1, <1>2, <1>3, <1>4, <1>5, <1>6 DEF Next

(* Every step keeps the ring and its counters. *)
LEMMA RingStep == Inv /\ [Next]_vars => RingTypeOK' /\ RingCounters'
<1> SUFFICES ASSUME Inv, [Next]_vars PROVE RingTypeOK' /\ RingCounters'
  OBVIOUS
<1> USE DEF RingTypeOK, RingCounters, ring, limits, flags, save, dataThread,
            muxThread, output, encoders, frontend
<1>0. RingTypeOK /\ RingCounters /\ pkt \in Packet
  BY DEF Inv, TypeOK, DataTypeOK
<1>1. CASE UiNext
  <2>1. CASE StartReplayBuffer
    BY <1>0, <2>1, BoundsAssumption DEF StartReplayBuffer
  <2>2. CASE StopReplayBuffer
    BY <1>0, <2>2 DEF StopReplayBuffer, MuxStop
  <2>3. CASE SaveReplay
    BY <1>0, <2>3 DEF SaveReplay, RequestSave
  <2>4. CASE SaveHotkey
    BY <1>0, <2>4 DEF SaveHotkey, RequestSave
  <2>5. CASE Shutdown
    BY <1>0, <2>5 DEF Shutdown, MuxStop
  <2>6. CASE Destroy
    BY <2>6, ClearRingRing DEF Destroy
  <2>7. CASE DestroyJoin
    BY <1>0, <2>7 DEF DestroyJoin
  <2> QED BY <1>1, <2>1, <2>2, <2>3, <2>4, <2>5, <2>6, <2>7 DEF UiNext
<1>2. CASE EncoderNext
  <2>1. CASE DeliverPacket
    BY <1>0, <2>1, DeliverLeaves
  <2>2. CASE EncoderFails
    BY <1>0, <2>2 DEF EncoderFails, MuxStop
  <2>3. CASE DeliverError
    BY <1>0, <2>3 DEF DeliverError
  <2> QED BY <1>2, <2>1, <2>2, <2>3 DEF EncoderNext
<1>3. CASE DataNext
  <2>1. CASE EndCapture
    BY <1>0, <2>1 DEF EndCapture, EndDataCapture
  <2>2. CASE Deactivate
    BY <2>2, ClearRingRing DEF Deactivate
  <2>3. CASE Purge
    BY <1>0, <2>3 DEF Purge
  <2>4. CASE PurgeForSize
    <3>1. (PurgeFront \/ UNCHANGED ring) /\ UNCHANGED limits
      BY <2>4 DEF PurgeForSize
    <3>2. CASE PurgeFront
      BY <1>0, <3>1, <3>2, PurgeFrontRing
    <3>3. CASE UNCHANGED ring
      BY <1>0, <3>1, <3>3
    <3> QED BY <3>1, <3>2, <3>3
  <2>5. CASE PurgeForTime
    <3>1. (PurgeFront \/ UNCHANGED ring) /\ UNCHANGED limits
      BY <2>5 DEF PurgeForTime
    <3>2. CASE PurgeFront
      BY <1>0, <3>1, <3>2, PurgeFrontRing
    <3>3. CASE UNCHANGED ring
      BY <1>0, <3>1, <3>3
    <3> QED BY <3>1, <3>2, <3>3
  <2>6. CASE PurgeToKeyframe
    <3>1. (PurgeFront \/ UNCHANGED ring) /\ UNCHANGED limits
      BY <2>6 DEF PurgeToKeyframe
    <3>2. CASE PurgeFront
      BY <1>0, <3>1, <3>2, PurgeFrontRing
    <3>3. CASE UNCHANGED ring
      BY <1>0, <3>1, <3>3
    <3> QED BY <3>1, <3>2, <3>3
  <2>7. CASE Push
    BY <1>0, <2>7, PushRing
  <2>8. CASE Join
    BY <1>0, <2>8 DEF Join
  <2>9. CASE Save
    BY <1>0, <2>9 DEF Save
  <2> QED BY <1>3, <2>1, <2>2, <2>3, <2>4, <2>5, <2>6, <2>7, <2>8, <2>9 DEF DataNext
<1>4. CASE MuxNext
  <2>1. CASE MuxOpen
    BY <1>0, <2>1 DEF MuxOpen
  <2>2. CASE MuxWrite
    BY <1>0, <2>2 DEF MuxWrite
  <2>3. CASE MuxFail
    BY <1>0, <2>3 DEF MuxFail
  <2>4. CASE MuxFailEnd
    BY <1>0, <2>4 DEF MuxFailEnd, EndDataCapture
  <2>5. CASE MuxFailStopping
    BY <1>0, <2>5 DEF MuxFailStopping
  <2>6. CASE MuxFailSignal
    BY <1>0, <2>6 DEF MuxFailSignal, EndDataCapture
  <2>7. CASE MuxFailCapturing
    BY <1>0, <2>7 DEF MuxFailCapturing
  <2>8. CASE MuxFree
    BY <1>0, <2>8 DEF MuxFree, ForgetClip
  <2>9. CASE MuxSignalSaved
    BY <1>0, <2>9 DEF MuxSignalSaved, ForgetClip
  <2> QED BY <1>4, <2>1, <2>2, <2>3, <2>4, <2>5, <2>6, <2>7, <2>8, <2>9 DEF MuxNext
<1>5. CASE EndThread
  BY <1>0, <1>5 DEF EndThread
<1>6. CASE UNCHANGED vars
  BY <1>0, <1>6 DEF vars
<1> QED BY <1>1, <1>2, <1>3, <1>4, <1>5, <1>6 DEF Next

(* Every step keeps the types of the save in progress. *)
LEMMA SaveTypeStep == Inv /\ [Next]_vars => SaveTypeOK'
<1> SUFFICES ASSUME Inv, [Next]_vars PROVE SaveTypeOK'
  OBVIOUS
<1> USE DEF SaveTypeOK, MuxStates, ring, limits, flags, save, dataThread,
            muxThread, output, encoders, frontend
<1>0. /\ SaveTypeOK /\ RingTypeOK /\ pkt \in Packet /\ base \in Nat /\ Now \subseteq Nat
      /\ << >> \in Seq(Packet) /\ << >> \in Seq(ClipPacket)
  BY NowType, EmptySeq DEF Inv, TypeOK, DataTypeOK
<1>1. CASE UiNext
  <2>1. CASE StartReplayBuffer
    BY <1>0, <2>1 DEF StartReplayBuffer
  <2>2. CASE StopReplayBuffer
    BY <1>0, <2>2 DEF StopReplayBuffer, MuxStop
  <2>3. CASE SaveReplay
    BY <1>0, <2>3 DEF SaveReplay, RequestSave
  <2>4. CASE SaveHotkey
    BY <1>0, <2>4 DEF SaveHotkey, RequestSave
  <2>5. CASE Shutdown
    BY <1>0, <2>5 DEF Shutdown, MuxStop
  <2>6. CASE Destroy
    BY <1>0, <2>6 DEF Destroy, ClearRing
  <2>7. CASE DestroyJoin
    BY <1>0, <2>7 DEF DestroyJoin
  <2> QED BY <1>1, <2>1, <2>2, <2>3, <2>4, <2>5, <2>6, <2>7 DEF UiNext
<1>2. CASE EncoderNext
  <2>1. CASE DeliverPacket
    <3>1. UNCHANGED <<save, muxThread, frontend>>
      BY <2>1, DeliverEffect DEF Inv
    <3> QED BY <1>0, <3>1
  <2>2. CASE EncoderFails
    BY <1>0, <2>2 DEF EncoderFails, MuxStop
  <2>3. CASE DeliverError
    BY <1>0, <2>3 DEF DeliverError
  <2> QED BY <1>2, <2>1, <2>2, <2>3 DEF EncoderNext
<1>3. CASE DataNext
  <2>1. CASE EndCapture
    BY <1>0, <2>1 DEF EndCapture, EndDataCapture
  <2>2. CASE Deactivate
    BY <1>0, <2>2 DEF Deactivate, ClearRing
  <2>3. CASE Purge
    BY <1>0, <2>3 DEF Purge
  <2>4. CASE PurgeForSize
    BY <1>0, <2>4 DEF PurgeForSize, PurgeFront
  <2>5. CASE PurgeForTime
    BY <1>0, <2>5 DEF PurgeForTime, PurgeFront
  <2>6. CASE PurgeToKeyframe
    BY <1>0, <2>6 DEF PurgeToKeyframe, PurgeFront
  <2>7. CASE Push
    BY <1>0, <2>7 DEF Push
  <2>8. CASE Join
    BY <1>0, <2>8 DEF Join
  <2>9. CASE Save
    <3>1. Clip(mux_packets, packets) \in Seq(ClipPacket)
      BY <1>0, ClipSortsRing DEF RingTypeOK
    <3>2. SysDts(pkt) \in Nat
      <4>1. pkt.dts \in Nat /\ base \in Nat
        BY <1>0 DEF Packet
      <4> QED BY <4>1 DEF SysDts
    <3> QED BY <1>0, <2>9, <3>1, <3>2 DEF Save, RingTypeOK
  <2> QED BY <1>3, <2>1, <2>2, <2>3, <2>4, <2>5, <2>6, <2>7, <2>8, <2>9 DEF DataNext
<1>4. CASE MuxNext
  <2>1. CASE MuxOpen
    BY <1>0, <2>1 DEF MuxOpen
  <2>2. CASE MuxWrite
    <3>1. Len(mux_packets) \in Nat
      BY <1>0, LenProperties
    <3>2. written' \in Nat
      BY <2>2, <3>1 DEF MuxWrite
    <3> QED BY <1>0, <2>2, <3>2 DEF MuxWrite
  <2>3. CASE MuxFail
    BY <1>0, <2>3 DEF MuxFail
  <2>4. CASE MuxFailEnd
    BY <1>0, <2>4 DEF MuxFailEnd, EndDataCapture
  <2>5. CASE MuxFailStopping
    BY <1>0, <2>5 DEF MuxFailStopping
  <2>6. CASE MuxFailSignal
    BY <1>0, <2>6 DEF MuxFailSignal, EndDataCapture
  <2>7. CASE MuxFailCapturing
    BY <1>0, <2>7 DEF MuxFailCapturing
  <2>8. CASE MuxFree
    <3>1. /\ mux' \in MuxStates /\ mux_packets' = << >> /\ muxing' = FALSE
          /\ UNCHANGED <<save_ts, mux_joinable, asked_ts>>
      BY <2>8 DEF MuxFree
    <3>2. \/ UNCHANGED <<written, clip_source, clip_end>>
          \/ written' = 0 /\ clip_source' = << >> /\ clip_end' = 0
      BY <2>8 DEF MuxFree, ForgetClip
    <3>3. CASE UNCHANGED <<written, clip_source, clip_end>>
      BY <1>0, <3>1, <3>3
    <3>4. CASE written' = 0 /\ clip_source' = << >> /\ clip_end' = 0
      BY <1>0, <3>1, <3>4
    <3> QED BY <3>2, <3>3, <3>4
  <2>9. CASE MuxSignalSaved
    BY <1>0, <2>9 DEF MuxSignalSaved, ForgetClip
  <2> QED BY <1>4, <2>1, <2>2, <2>3, <2>4, <2>5, <2>6, <2>7, <2>8, <2>9 DEF MuxNext
<1>5. CASE EndThread
  BY <1>0, <1>5 DEF EndThread
<1>6. CASE UNCHANGED vars
  BY <1>0, <1>6 DEF vars
<1> QED BY <1>1, <1>2, <1>3, <1>4, <1>5, <1>6 DEF Next

(* Every step keeps the types of the data thread and the encoders. *)
LEMMA DataTypeStep == Inv /\ [Next]_vars => DataTypeOK'
<1> SUFFICES ASSUME Inv, [Next]_vars PROVE DataTypeOK'
  OBVIOUS
<1> USE DEF DataTypeOK, DataStates, ring, limits, flags, save, dataThread,
            muxThread, output, encoders, frontend
<1>0. DataTypeOK /\ LastSys \in Nat
  BY LastSysType DEF Inv, TypeOK
<1>1. CASE UiNext
  <2>1. CASE StartReplayBuffer
    BY <1>0, <2>1 DEF StartReplayBuffer, AfterPush
  <2>2. CASE StopReplayBuffer
    BY <1>0, <2>2 DEF StopReplayBuffer, MuxStop, AfterPush
  <2>3. CASE SaveReplay
    BY <1>0, <2>3 DEF SaveReplay, RequestSave, AfterPush
  <2>4. CASE SaveHotkey
    BY <1>0, <2>4 DEF SaveHotkey, RequestSave, AfterPush
  <2>5. CASE Shutdown
    BY <1>0, <2>5 DEF Shutdown, MuxStop, AfterPush
  <2>6. CASE Destroy
    BY <1>0, <2>6 DEF Destroy, ClearRing, AfterPush
  <2>7. CASE DestroyJoin
    BY <1>0, <2>7 DEF DestroyJoin, AfterPush
  <2> QED BY <1>1, <2>1, <2>2, <2>3, <2>4, <2>5, <2>6, <2>7 DEF UiNext
<1>2. CASE EncoderNext
  <2>1. CASE DeliverPacket
    <3>1. /\ data' \in DataStates /\ failing' = failing /\ pkt' \in Packet
          /\ UNCHANGED <<base, enc_error>>
      BY <2>1, DeliverEffect DEF Inv
    <3>2. /\ \E s \in Streams : next' = [next EXCEPT ![s] = @ + 1]
          /\ gop' = gop \/ gop' = 1 \/ gop' = gop + 1
      <4> PICK s \in Streams, key \in BOOLEAN, size \in KeySizes \cup DeltaSizes \cup AudioSizes :
            Deliver(s, key, size)
        BY <2>1 DEF DeliverPacket
      <4> QED BY DEF Deliver
    <3>3. next \in [Streams -> Nat] /\ gop \in Nat
      BY <1>0
    <3>4. next' \in [Streams -> Nat] /\ gop' \in Nat
      BY <3>2, <3>3
    <3> QED BY <1>0, <3>1, <3>4
  <2>2. CASE EncoderFails
    BY <1>0, <2>2 DEF EncoderFails, MuxStop, AfterPush
  <2>3. CASE DeliverError
    BY <1>0, <2>3 DEF DeliverError, AfterPush
  <2> QED BY <1>2, <2>1, <2>2, <2>3 DEF EncoderNext
<1>3. CASE DataNext
  <2>1. CASE EndCapture
    BY <1>0, <2>1 DEF EndCapture, EndDataCapture, AfterPush
  <2>2. CASE Deactivate
    BY <1>0, <2>2 DEF Deactivate, ClearRing, AfterPush
  <2>3. CASE Purge
    BY <1>0, <2>3 DEF Purge, AfterPush
  <2>4. CASE PurgeForSize
    BY <1>0, <2>4 DEF PurgeForSize, PurgeFront, AfterPush
  <2>5. CASE PurgeForTime
    BY <1>0, <2>5 DEF PurgeForTime, PurgeFront, AfterPush
  <2>6. CASE PurgeToKeyframe
    BY <1>0, <2>6 DEF PurgeToKeyframe, PurgeFront, AfterPush
  <2>7. CASE Push
    BY <1>0, <2>7 DEF Push, AfterPush
  <2>8. CASE Join
    BY <1>0, <2>8 DEF Join, AfterPush
  <2>9. CASE Save
    BY <1>0, <2>9 DEF Save, AfterPush
  <2> QED BY <1>3, <2>1, <2>2, <2>3, <2>4, <2>5, <2>6, <2>7, <2>8, <2>9 DEF DataNext
<1>4. CASE MuxNext
  <2>1. CASE MuxOpen
    BY <1>0, <2>1 DEF MuxOpen, AfterPush
  <2>2. CASE MuxWrite
    BY <1>0, <2>2 DEF MuxWrite, AfterPush
  <2>3. CASE MuxFail
    BY <1>0, <2>3 DEF MuxFail, AfterPush
  <2>4. CASE MuxFailEnd
    BY <1>0, <2>4 DEF MuxFailEnd, EndDataCapture, AfterPush
  <2>5. CASE MuxFailStopping
    BY <1>0, <2>5 DEF MuxFailStopping, AfterPush
  <2>6. CASE MuxFailSignal
    BY <1>0, <2>6 DEF MuxFailSignal, EndDataCapture, AfterPush
  <2>7. CASE MuxFailCapturing
    BY <1>0, <2>7 DEF MuxFailCapturing, AfterPush
  <2>8. CASE MuxFree
    BY <1>0, <2>8 DEF MuxFree, ForgetClip, AfterPush
  <2>9. CASE MuxSignalSaved
    BY <1>0, <2>9 DEF MuxSignalSaved, ForgetClip, AfterPush
  <2> QED BY <1>4, <2>1, <2>2, <2>3, <2>4, <2>5, <2>6, <2>7, <2>8, <2>9 DEF MuxNext
<1>5. CASE EndThread
  BY <1>0, <1>5 DEF EndThread, AfterPush
<1>6. CASE UNCHANGED vars
  BY <1>0, <1>6 DEF vars, AfterPush
<1> QED BY <1>1, <1>2, <1>3, <1>4, <1>5, <1>6 DEF Next

(* Every step keeps the streams in step. *)
LEMMA LockstepStep == Inv /\ [Next]_vars => Lockstep'
<1> SUFFICES ASSUME Inv, [Next]_vars PROVE Lockstep'
  OBVIOUS
<1> USE DEF Lockstep, ring, limits, flags, save, dataThread, muxThread,
            output, encoders, frontend
<1>0. Lockstep /\ DataTypeOK /\ LastSys \in Nat /\ Video \in Streams
  BY LastSysType DEF Inv, TypeOK, Streams
<1>1. CASE UiNext
  <2>1. CASE StartReplayBuffer
    BY <1>0, <2>1 DEF StartReplayBuffer
  <2>2. CASE StopReplayBuffer
    BY <1>0, <2>2 DEF StopReplayBuffer, MuxStop
  <2>3. CASE SaveReplay
    BY <1>0, <2>3 DEF SaveReplay, RequestSave
  <2>4. CASE SaveHotkey
    BY <1>0, <2>4 DEF SaveHotkey, RequestSave
  <2>5. CASE Shutdown
    BY <1>0, <2>5 DEF Shutdown, MuxStop
  <2>6. CASE Destroy
    BY <1>0, <2>6 DEF Destroy, ClearRing
  <2>7. CASE DestroyJoin
    BY <1>0, <2>7 DEF DestroyJoin
  <2> QED BY <1>1, <2>1, <2>2, <2>3, <2>4, <2>5, <2>6, <2>7 DEF UiNext
<1>2. CASE EncoderNext
  <2>1. CASE DeliverPacket
    <3> PICK s \in Streams, key \in BOOLEAN, size \in KeySizes \cup DeltaSizes \cup AudioSizes :
          Deliver(s, key, size)
      BY <2>1 DEF DeliverPacket
    <3> PICK t \in Streams : /\ base <= next[t]
                             /\ \A r \in Streams : next[r] = next[t] \/ next[r] = next[t] + 1
      BY <1>0
    <3>1. /\ \A r \in Streams : next[s] <= next[r]
          /\ next' = [next EXCEPT ![s] = @ + 1] /\ base' = base
      BY DEF Deliver
    <3>2. next \in [Streams -> Nat] /\ base \in Nat
      BY <1>0 DEF DataTypeOK
    <3>3. next[s] = next[t]
      BY <3>1, <3>2
    <3>4. \A r \in Streams : next'[r] = next[t] \/ next'[r] = next[t] + 1
      BY <3>1, <3>2, <3>3
    <3>5. CASE \E r \in Streams : next'[r] = next[t]
      BY <3>1, <3>2, <3>4, <3>5
    <3>6. CASE ~ \E r \in Streams : next'[r] = next[t]
      BY <3>1, <3>2, <3>4, <3>6
    <3> QED BY <3>5, <3>6
  <2>2. CASE EncoderFails
    BY <1>0, <2>2 DEF EncoderFails, MuxStop
  <2>3. CASE DeliverError
    BY <1>0, <2>3 DEF DeliverError
  <2> QED BY <1>2, <2>1, <2>2, <2>3 DEF EncoderNext
<1>3. CASE DataNext
  <2>1. CASE EndCapture
    BY <1>0, <2>1 DEF EndCapture, EndDataCapture
  <2>2. CASE Deactivate
    BY <1>0, <2>2 DEF Deactivate, ClearRing
  <2>3. CASE Purge
    BY <1>0, <2>3 DEF Purge
  <2>4. CASE PurgeForSize
    BY <1>0, <2>4 DEF PurgeForSize, PurgeFront
  <2>5. CASE PurgeForTime
    BY <1>0, <2>5 DEF PurgeForTime, PurgeFront
  <2>6. CASE PurgeToKeyframe
    BY <1>0, <2>6 DEF PurgeToKeyframe, PurgeFront
  <2>7. CASE Push
    BY <1>0, <2>7 DEF Push
  <2>8. CASE Join
    BY <1>0, <2>8 DEF Join
  <2>9. CASE Save
    BY <1>0, <2>9 DEF Save
  <2> QED BY <1>3, <2>1, <2>2, <2>3, <2>4, <2>5, <2>6, <2>7, <2>8, <2>9 DEF DataNext
<1>4. CASE MuxNext
  <2>1. CASE MuxOpen
    BY <1>0, <2>1 DEF MuxOpen
  <2>2. CASE MuxWrite
    BY <1>0, <2>2 DEF MuxWrite
  <2>3. CASE MuxFail
    BY <1>0, <2>3 DEF MuxFail
  <2>4. CASE MuxFailEnd
    BY <1>0, <2>4 DEF MuxFailEnd, EndDataCapture
  <2>5. CASE MuxFailStopping
    BY <1>0, <2>5 DEF MuxFailStopping
  <2>6. CASE MuxFailSignal
    BY <1>0, <2>6 DEF MuxFailSignal, EndDataCapture
  <2>7. CASE MuxFailCapturing
    BY <1>0, <2>7 DEF MuxFailCapturing
  <2>8. CASE MuxFree
    BY <1>0, <2>8 DEF MuxFree, ForgetClip
  <2>9. CASE MuxSignalSaved
    BY <1>0, <2>9 DEF MuxSignalSaved, ForgetClip
  <2> QED BY <1>4, <2>1, <2>2, <2>3, <2>4, <2>5, <2>6, <2>7, <2>8, <2>9 DEF MuxNext
<1>5. CASE EndThread
  BY <1>0, <1>5 DEF EndThread
<1>6. CASE UNCHANGED vars
  BY <1>0, <1>6 DEF vars
<1> QED BY <1>1, <1>2, <1>3, <1>4, <1>5, <1>6 DEF Next

(* Every step that takes or drops a reference says who holds it now. *)
LEMMA PacketRefsStep == Inv /\ [Next]_vars => PacketRefs'
<1> SUFFICES ASSUME Inv, [Next]_vars PROVE PacketRefs'
  OBVIOUS
<1> USE DEF Purging, ring, limits, flags, save, dataThread, muxThread, output,
            encoders, frontend
<1>0. /\ PacketRefs /\ MuxInv /\ DataInv /\ Inv
      /\ Len(packets) \in Nat /\ Len(mux_packets) \in Nat /\ written \in Nat /\ refs \in Int
      /\ mux_packets = << >> => Len(mux_packets) = 0
      /\ InHand \in Int /\ InClip \in Int
  BY Lengths, HeldTypes DEF Inv
<1>1. CASE UiNext
  <2>1. CASE StartReplayBuffer
    BY <1>0, <2>1 DEF StartReplayBuffer, PacketRefs, InHand, InClip
  <2>2. CASE StopReplayBuffer
    BY <1>0, <2>2 DEF StopReplayBuffer, MuxStop, PacketRefs, InHand, InClip
  <2>3. CASE SaveReplay
    BY <1>0, <2>3 DEF SaveReplay, RequestSave, PacketRefs, InHand, InClip
  <2>4. CASE SaveHotkey
    BY <1>0, <2>4 DEF SaveHotkey, RequestSave, PacketRefs, InHand, InClip
  <2>5. CASE Shutdown
    BY <1>0, <2>5 DEF Shutdown, MuxStop, PacketRefs, InHand, InClip
  <2>6. CASE Destroy
    <3>1. packets' = << >> /\ Len(packets') = 0 /\ refs' = refs - Len(packets)
      BY <2>6, EmptySeq DEF ClearRing, Destroy
    <3>2. InHand' = InHand /\ InClip' = InClip
      BY <2>6 DEF Destroy, InHand, InClip
    <3> QED BY <1>0, <3>1, <3>2 DEF PacketRefs
  <2>7. CASE DestroyJoin
    <3>1. mux_packets # << >> => written = 0
      BY <1>0, <2>7 DEF DestroyJoin, MuxInv
    <3>2. refs' = refs - Len(mux_packets) /\ packets' = packets
      BY <2>7 DEF DestroyJoin
    <3>3. InHand' = InHand /\ InClip' = 0
      BY <2>7 DEF DestroyJoin, InHand, InClip
    <3>4. InClip = Len(mux_packets)
      BY <1>0, <3>1 DEF InClip
    <3> QED BY <1>0, <3>2, <3>3, <3>4 DEF PacketRefs
  <2> QED BY <1>1, <2>1, <2>2, <2>3, <2>4, <2>5, <2>6, <2>7 DEF UiNext
<1>2. CASE EncoderNext
  <2>1. CASE DeliverPacket
    <3>1. data = "idle" /\ UNCHANGED <<packets, mux_packets, written>>
      BY <2>1, DeliverEffect DEF Inv
    <3>2. \/ data' \in {"idle", "end capture"} /\ refs' = refs
          \/ data' = "purge" /\ refs' = refs + 1
      BY <2>1, DeliverEffect DEF Inv
    <3>3. InHand = 0 /\ InClip' = InClip
      BY <3>1 DEF InHand, InClip
    <3>4. /\ data' \in {"idle", "end capture"} => InHand' = 0
          /\ data' = "purge" => InHand' = 1
      BY DEF InHand
    <3>5. \/ InHand' = 0 /\ refs' = refs
          \/ InHand' = 1 /\ refs' = refs + 1
      BY <3>2, <3>4
    <3>6. packets' = packets
      BY <3>1
    <3> QED BY <1>0, <3>3, <3>5, <3>6 DEF PacketRefs
  <2>2. CASE EncoderFails
    BY <1>0, <2>2 DEF EncoderFails, MuxStop, PacketRefs, InHand, InClip
  <2>3. CASE DeliverError
    BY <1>0, <2>3 DEF DeliverError, PacketRefs, InHand, InClip
  <2> QED BY <1>2, <2>1, <2>2, <2>3 DEF EncoderNext
<1>3. CASE DataNext
  <2>1. CASE EndCapture
    BY <1>0, <2>1 DEF EndCapture, EndDataCapture, PacketRefs, InHand, InClip
  <2>2. CASE Deactivate
    <3>1. packets' = << >> /\ Len(packets') = 0 /\ refs' = refs - Len(packets)
      BY <2>2, EmptySeq DEF ClearRing, Deactivate
    <3>2. InHand' = InHand /\ InClip' = InClip
      BY <2>2 DEF Deactivate, InHand, InClip
    <3> QED BY <1>0, <3>1, <3>2 DEF PacketRefs
  <2>3. CASE Purge
    BY <1>0, <2>3 DEF Purge, PacketRefs, InHand, InClip
  <2>4. CASE PurgeForSize
    <3>1. /\ PurgeFront \/ UNCHANGED <<ring, refs>>
          /\ InHand = 1 /\ InHand' = 1 /\ InClip' = InClip
      BY <2>4 DEF PurgeForSize, InHand, InClip
    <3>2. Len(packets') \in Nat /\ refs' \in Int /\ refs' - Len(packets') = refs - Len(packets)
      BY <1>0, <3>1, PurgeFrontRefs
    <3> QED BY <1>0, <3>1, <3>2 DEF PacketRefs
  <2>5. CASE PurgeForTime
    <3>1. /\ PurgeFront \/ UNCHANGED <<ring, refs>>
          /\ InHand = 1 /\ InHand' = 1 /\ InClip' = InClip
      BY <2>5 DEF PurgeForTime, InHand, InClip
    <3>2. Len(packets') \in Nat /\ refs' \in Int /\ refs' - Len(packets') = refs - Len(packets)
      BY <1>0, <3>1, PurgeFrontRefs
    <3> QED BY <1>0, <3>1, <3>2 DEF PacketRefs
  <2>6. CASE PurgeToKeyframe
    <3>1. /\ PurgeFront \/ UNCHANGED <<ring, refs>>
          /\ InHand = 1 /\ InHand' = 1 /\ InClip' = InClip
      BY <2>6 DEF PurgeToKeyframe, InHand, InClip
    <3>2. Len(packets') \in Nat /\ refs' \in Int /\ refs' - Len(packets') = refs - Len(packets)
      BY <1>0, <3>1, PurgeFrontRefs
    <3> QED BY <1>0, <3>1, <3>2 DEF PacketRefs
  <2>7. CASE Push
    <3>1. Len(packets') = Len(packets) + 1
      BY <2>7, AppendProperties DEF Push, Inv, TypeOK, RingTypeOK, DataTypeOK
    <3>2. InHand = 1 /\ InHand' = 0 /\ InClip' = InClip /\ refs' = refs
      BY <2>7 DEF Push, AfterPush, InHand, InClip
    <3> QED BY <1>0, <3>1, <3>2 DEF PacketRefs
  <2>8. CASE Join
    BY <1>0, <2>8 DEF Join, PacketRefs, InHand, InClip
  <2>9. CASE Save
    <3>1. /\ data = "save" /\ data' = "idle" /\ packets' = packets
          /\ refs' = refs + Len(packets) /\ written' = 0
      BY <2>9 DEF Save
    <3>2. written = 0
      BY <1>0, <3>1 DEF DataInv, MuxInv
    <3>3. mux_packets' \in Seq(ClipPacket) /\ Len(mux_packets') = Len(mux_packets) + Len(packets)
      BY <2>9, ClipSortsRing DEF Save, Inv, TypeOK, RingTypeOK, SaveTypeOK
    <3>4. mux_packets' = << >> => Len(mux_packets') = 0
      BY EmptySeq
    <3>5. InHand = 0 /\ InHand' = 0 /\ InClip = Len(mux_packets) /\ InClip' = Len(mux_packets')
      BY <1>0, <3>1, <3>2, <3>3, <3>4 DEF InHand, InClip
    <3> QED BY <1>0, <3>1, <3>3, <3>5 DEF PacketRefs
  <2> QED BY <1>3, <2>1, <2>2, <2>3, <2>4, <2>5, <2>6, <2>7, <2>8, <2>9 DEF DataNext
<1>4. CASE MuxNext
  <2>1. CASE MuxOpen
    BY <1>0, <2>1 DEF MuxOpen, PacketRefs, InHand, InClip
  <2>2. CASE MuxWrite
    <3>1. written = 0
      BY <1>0, <2>2 DEF MuxWrite, MuxInv
    <3>2. refs' = refs - written' /\ UNCHANGED <<packets, mux_packets, data>>
      BY <2>2 DEF MuxWrite
    <3>3. written' \in 0 .. Len(mux_packets)
      <4>1. written' \in IF MuxMayFail THEN 0 .. Len(mux_packets) ELSE {Len(mux_packets)}
        BY <2>2 DEF MuxWrite
      <4> QED BY <1>0, <4>1, SwitchesAssumption
    <3>4. InHand' = InHand
      BY <3>2 DEF InHand
    <3>5. InClip = Len(mux_packets) /\ InClip' = Len(mux_packets) - written'
      BY <1>0, <3>1, <3>2, <3>3 DEF InClip
    <3> QED BY <1>0, <3>2, <3>3, <3>4, <3>5 DEF PacketRefs
  <2>3. CASE MuxFail
    BY <1>0, <2>3 DEF MuxFail, PacketRefs, InHand, InClip
  <2>4. CASE MuxFailEnd
    BY <1>0, <2>4 DEF MuxFailEnd, EndDataCapture, PacketRefs, InHand, InClip
  <2>5. CASE MuxFailStopping
    BY <1>0, <2>5 DEF MuxFailStopping, PacketRefs, InHand, InClip
  <2>6. CASE MuxFailSignal
    BY <1>0, <2>6 DEF MuxFailSignal, EndDataCapture, PacketRefs, InHand,
         InClip
  <2>7. CASE MuxFailCapturing
    BY <1>0, <2>7 DEF MuxFailCapturing, PacketRefs, InHand, InClip
  <2>8. CASE MuxFree
    <3>1. mux_packets = << >> => written = 0
      <4>1. written <= Len(mux_packets)
        BY <1>0, <2>8 DEF MuxFree, MuxInv, Running
      <4> QED BY <1>0, <4>1
    <3>2. mux_packets' = << >> /\ packets' = packets /\ data' = data
      BY <2>8 DEF MuxFree
    <3>3. refs' = refs - (Len(mux_packets) - written)
      BY <2>8 DEF MuxFree, Unwritten
    <3>4. InHand' = InHand /\ InClip' = 0
      BY <3>2 DEF InHand, InClip
    <3>5. InClip = Len(mux_packets) - written
      BY <1>0, <3>1 DEF InClip
    <3> QED BY <1>0, <3>2, <3>3, <3>4, <3>5 DEF PacketRefs
  <2>9. CASE MuxSignalSaved
    <3>1. mux_packets = << >> /\ UNCHANGED <<packets, mux_packets, data, refs>>
      BY <1>0, <2>9 DEF MuxSignalSaved, MuxInv
    <3>2. InHand' = InHand /\ InClip' = InClip
      BY <3>1 DEF InHand, InClip
    <3> QED BY <1>0, <3>1, <3>2 DEF PacketRefs
  <2> QED BY <1>4, <2>1, <2>2, <2>3, <2>4, <2>5, <2>6, <2>7, <2>8, <2>9 DEF MuxNext
<1>5. CASE EndThread
  BY <1>0, <1>5 DEF EndThread, PacketRefs, InHand, InClip
<1>6. CASE UNCHANGED vars
  BY <1>0, <1>6 DEF vars, PacketRefs, InHand, InClip
<1> QED BY <1>1, <1>2, <1>3, <1>4, <1>5, <1>6 DEF Next

-----------------------------------------------------------------------------
(* Every step keeps the inductive invariant. *)
LEMMA NextInv == Inv /\ [Next]_vars => Inv'
<1> SUFFICES ASSUME Inv, [Next]_vars PROVE Inv'
  OBVIOUS
<1>1. RingTypeOK' /\ FlagsTypeOK' /\ SaveTypeOK' /\ DataTypeOK' /\ FrontendTypeOK'
  BY RingStep, FlagsTypeStep, SaveTypeStep, DataTypeStep, FrontendTypeStep
<1>2. Lockstep' /\ MuxInv' /\ DataInv' /\ RingCounters' /\ PacketRefs'
  BY LockstepStep, MuxInvStep, DataInvStep, RingStep, PacketRefsStep
<1>3. refs' \in Int
  <2>1. Len(packets') \in Nat /\ Len(mux_packets') \in Nat /\ written' \in Nat
    BY <1>1, LenProperties DEF RingTypeOK, SaveTypeOK
  <2>2. InHand' \in Int
    BY DEF InHand
  <2>3. InClip' \in Int
    BY <2>1 DEF InClip
  <2> QED BY <1>2, <2>1, <2>2, <2>3 DEF PacketRefs
<1> QED BY <1>1, <1>2, <1>3 DEF Inv, TypeOK

LEMMA AlwaysInv == Spec => []Inv
<1>1. Init => Inv
  BY InitInv
<1>2. Inv /\ [Next]_vars => Inv'
  BY NextInv
<1> QED BY <1>1, <1>2, PTL DEF Spec

(* replay_buffer_data() and its callers leave every field of its type, in   *)
(* particular no counter of the ring ever turns negative.                   *)
THEOREM TypeCorrect == Spec => []TypeOK
<1>1. Inv => TypeOK
  BY DEF Inv
<1> QED BY <1>1, AlwaysInv, PTL

(* However push, purge and clear are interleaved with the other threads,    *)
(* keyframes and cur_time say what the ring holds.                          *)
THEOREM CountersCorrect == Spec => []RingCounters
<1>1. Inv => RingCounters
  BY DEF Inv
<1> QED BY <1>1, AlwaysInv, PTL

(* replay_buffer_save(), purge_front() and the mux thread neither leak a    *)
(* packet nor release one twice, also when a thread cannot be started, the  *)
(* helper process fails or the output is destroyed.                         *)
THEOREM RefsCorrect == Spec => []PacketRefs
<1>1. Inv => PacketRefs
  BY DEF Inv
<1> QED BY <1>1, AlwaysInv, PTL

(* replay_buffer_data() starts a save only when the mux thread of the last  *)
(* one is gone.                                                             *)
THEOREM SavesExclude == Spec => []SaveExclusive
<1>1. Inv => SaveExclusive
  BY DEF Inv, SaveExclusive, MuxInv, DataInv, Running
<1> QED BY <1>1, AlwaysInv, PTL

-----------------------------------------------------------------------------
(* The ring is only changed by a push, by taking its front off and by       *)
(* clearing it.                                                             *)
LEMMA RingMoves ==
  ASSUME [Next]_vars
  PROVE  UNCHANGED ring \/ Push \/ PurgeFront \/ ClearRing
<1> USE DEF ring, limits, flags, save, dataThread, muxThread, output, encoders, frontend
<1>1. CASE UiNext
  BY <1>1 DEF UiNext, StartReplayBuffer, StopReplayBuffer, SaveReplay, SaveHotkey, Shutdown,
              Destroy, DestroyJoin
<1>2. CASE EncoderNext
  <2>1. CASE DeliverPacket
    BY <2>1, DeliverLeaves
  <2>2. CASE EncoderFails \/ DeliverError
    BY <2>2 DEF EncoderFails, DeliverError
  <2> QED BY <1>2, <2>1, <2>2 DEF EncoderNext
<1>3. CASE DataNext
  BY <1>3 DEF DataNext, EndCapture, Deactivate, Purge, PurgeForSize, PurgeForTime,
              PurgeToKeyframe, Join, Save
<1>4. CASE MuxNext
  BY <1>4 DEF MuxNext, MuxOpen, MuxWrite, MuxFail, MuxFailEnd, MuxFailStopping, MuxFailSignal,
              MuxFailCapturing, MuxFree, MuxSignalSaved
<1>5. CASE EndThread
  BY <1>5 DEF EndThread
<1>6. CASE UNCHANGED vars
  BY <1>6 DEF vars
<1> QED BY <1>1, <1>2, <1>3, <1>4, <1>5, <1>6 DEF Next

-----------------------------------------------------------------------------
(* SizeSum is a sum, *)
LEMMA SizesSum ==
  ASSUME NEW s \in Seq(Packet)
  PROVE  /\ SizeSum(s) = Sum([i \in 1 .. Len(s) |-> s[i].size], Len(s))
         /\ \A i \in 1 .. Len(s) : s[i].size \in Nat
         /\ Len(s) \in Nat /\ SizeSum(s) \in Nat
<1> DEFINE c == [i \in 1 .. Len(s) |-> s[i].size]
           G(g) == g = [i \in 0 .. Len(s) |-> IF i = 0 THEN 0 ELSE g[i - 1] + s[i].size]
<1>1. Len(s) \in Nat /\ \A i \in 1 .. Len(s) : s[i].size \in Nat
  <2>1. \A i \in 1 .. Len(s) : s[i] \in Packet
    BY ElementOfSeq
  <2> QED BY <2>1, LenProperties DEF Packet
<1>2. \A g : G(g) <=> IsSums(g, c, Len(s))
  <2> TAKE g
  <2>1. \A i \in 0 .. Len(s) : i = 0 \/ i \in 1 .. Len(s)
    BY <1>1
  <2>2. [i \in 0 .. Len(s) |-> IF i = 0 THEN 0 ELSE g[i - 1] + s[i].size]
          = [i \in 0 .. Len(s) |-> IF i = 0 THEN 0 ELSE g[i - 1] + c[i]]
    BY <2>1
  <2> HIDE DEF c
  <2> QED BY <2>2 DEF IsSums
<1>3. PICK h : IsSums(h, c, Len(s))
  BY <1>1, SumsExist
<1>4. PICK g : G(g) /\ SizeSum(s) = g[Len(s)]
  <2>1. G(h)
    BY <1>2, <1>3
  <2> QED BY <2>1 DEF SizeSum
<1> HIDE DEF c, G
<1>5. IsSums(g, c, Len(s))
  BY <1>2, <1>4
<1>6. SizeSum(s) = Sum(c, Len(s))
  BY <1>1, <1>4, <1>5, SumUnique
<1>7. Sum(c, Len(s)) \in Nat
  <2>1. \A i \in 1 .. Len(s) : c[i] \in Nat
    BY <1>1 DEF c
  <2>2. \A k \in 0 .. Len(s) : Sum(c, k) \in Nat
    BY <1>1, <2>1, SumType
  <2> QED BY <1>1, <2>2
<1> QED BY <1>1, <1>6, <1>7 DEF c

(* to which a push adds *)
LEMMA SizesAppend ==
  ASSUME NEW s \in Seq(Packet), NEW p \in Packet
  PROVE  SizeSum(Append(s, p)) = SizeSum(s) + p.size
<1> DEFINE a == Append(s, p)
           c == [i \in 1 .. Len(s) |-> s[i].size]
           d == [i \in 1 .. Len(a) |-> a[i].size]
<1>1. /\ a \in Seq(Packet) /\ Len(a) = Len(s) + 1 /\ Len(s) \in Nat
      /\ a[Len(a)] = p /\ \A i \in 1 .. Len(s) : a[i] = s[i]
  BY AppendProperties
<1>2. \A i \in 1 .. Len(s) : d[i] = c[i]
  BY <1>1
<1>3. d[Len(a)] = p.size
  BY <1>1
<1>4. SizeSum(s) = Sum(c, Len(s)) /\ SizeSum(a) = Sum(d, Len(a))
  BY <1>1, SizesSum
<1> HIDE DEF c, d, a
<1>5. Sum(d, Len(a)) = Sum(d, Len(a) - 1) + d[Len(a)]
  BY <1>1, SumStep
<1>6. Sum(d, Len(s)) = Sum(c, Len(s))
  BY <1>1, <1>2, SumEqual
<1> QED BY <1>1, <1>3, <1>4, <1>5, <1>6 DEF a

(* and from which the front is taken. *)
LEMMA SizesTail ==
  ASSUME NEW s \in Seq(Packet), s # << >>
  PROVE  SizeSum(s) = Head(s).size + SizeSum(Tail(s))
<1> DEFINE t == Tail(s)
           c == [i \in 1 .. Len(s) |-> s[i].size]
           d == [i \in 1 .. Len(t) |-> t[i].size]
<1>1. /\ t \in Seq(Packet) /\ Len(t) = Len(s) - 1 /\ Len(s) \in Nat \ {0}
      /\ s[1] = Head(s) /\ \A i \in 1 .. Len(s) - 1 : t[i] = s[i + 1]
  BY HeadTailProperties, EmptySeq, LenProperties
<1>2. \A i \in 1 .. Len(s) - 1 : d[i] = c[i + 1]
  BY <1>1
<1>3. c[1] = Head(s).size
  BY <1>1
<1>4. /\ SizeSum(s) = Sum(c, Len(s)) /\ SizeSum(t) = Sum(d, Len(t))
      /\ \A i \in 1 .. Len(s) : c[i] \in Nat
  BY <1>1, SizesSum
<1> HIDE DEF c, d, t
<1>5. Sum(c, Len(s)) = c[1] + Sum(d, Len(s) - 1)
  <2>1. Len(s) \in Nat /\ Len(s) > 0
    BY <1>1
  <2> QED BY <2>1, <1>2, <1>4, SumShift
<1> QED BY <1>1, <1>3, <1>4, <1>5 DEF t

LEMMA SizesEmpty == SizeSum(<< >>) = 0
<1>1. << >> \in Seq(Packet) /\ Len(<< >>) = 0
  BY EmptySeq
<1> QED BY <1>1, SizesSum, SumZero

LEMMA SizeStep == Inv /\ SizeCounter /\ [Next]_vars => SizeCounter'
<1> SUFFICES ASSUME Inv, SizeCounter, [Next]_vars PROVE cur_size' = SizeSum(packets')
  BY DEF SizeCounter
<1>0. packets \in Seq(Packet) /\ pkt \in Packet /\ cur_size = SizeSum(packets)
  BY DEF Inv, TypeOK, RingTypeOK, DataTypeOK, SizeCounter
<1>1. CASE UNCHANGED ring
  BY <1>0, <1>1 DEF ring
<1>2. CASE Push
  BY <1>0, <1>2, SizesAppend DEF Push
<1>3. CASE PurgeFront
  <2>1. CASE packets = << >>
    BY <1>0, <1>3, <2>1 DEF PurgeFront, ring
  <2>2. CASE packets # << >> /\ Len(packets) = 1
    <3>1. packets' = Tail(packets) /\ cur_size' = 0
      BY <1>3, <2>2 DEF PurgeFront
    <3>2. Tail(packets) \in Seq(Packet) /\ Len(Tail(packets)) = 0
      BY <1>0, <2>2, HeadTailProperties
    <3>3. Tail(packets) = << >>
      BY <3>2, EmptySeq
    <3> QED BY <3>1, <3>3, SizesEmpty
  <2>3. CASE packets # << >> /\ Len(packets) # 1
    <3>1. packets' = Tail(packets) /\ cur_size' = cur_size - Head(packets).size
      BY <1>3, <2>3 DEF PurgeFront, Freed
    <3>2. SizeSum(packets) = Head(packets).size + SizeSum(Tail(packets))
      BY <1>0, <2>3, SizesTail
    <3>3. Head(packets).size \in Nat /\ SizeSum(Tail(packets)) \in Nat
      <4>1. Head(packets) \in Packet /\ Tail(packets) \in Seq(Packet)
        BY <1>0, <2>3
      <4> QED BY <4>1, SizesSum DEF Packet
    <3> QED BY <1>0, <3>1, <3>2, <3>3
  <2> QED BY <2>1, <2>2, <2>3
<1>4. CASE ClearRing
  BY <1>4, SizesEmpty DEF ClearRing
<1> QED BY <1>1, <1>2, <1>3, <1>4, RingMoves

(* cur_size, which the cap of the memory is compared with, is the sum of    *)
(* the packets in the ring, through every push, purge and clear.            *)
THEOREM SizeCorrect == Spec => []SizeCounter
<1>1. Init => SizeCounter
  BY SizesEmpty DEF Init, SizeCounter
<1>2. Inv /\ SizeCounter /\ [Next]_vars => SizeCounter'
  BY SizeStep
<1> QED BY <1>1, <1>2, AlwaysInv, PTL DEF Spec

-----------------------------------------------------------------------------
(* What is left of the threads and of the lists once the output is gone.    *)
QuietInv ==
  /\ ~EncoderMayFail => enc_error = "none" /\ ~failing
  /\ capture = "idle" /\ ~failing => data = "idle"
  /\ ui \in {"joining", "destroyed"} => packets = << >>
  /\ ui = "destroyed" => mux = "none" /\ mux_packets = << >>

LEMMA QuietStep == Inv /\ QuietInv /\ [Next]_vars => QuietInv'
<1> SUFFICES ASSUME Inv, QuietInv, [Next]_vars PROVE QuietInv'
  OBVIOUS
<1> USE DEF ring, limits, flags, save, dataThread, muxThread, output, encoders, frontend
<1>0. QuietInv /\ MuxInv /\ DataInv /\ (data \in DataStates) /\ (mux \in MuxStates)
      /\ (ui \in {"running", "releasing", "joining", "destroyed"})
  BY DEF Inv, TypeOK, DataTypeOK, SaveTypeOK, FrontendTypeOK
<1>1. CASE UiNext
  <2>1. CASE StartReplayBuffer
    BY <1>0, <2>1 DEF StartReplayBuffer, QuietInv, MuxInv, DataInv,
         Purging
  <2>2. CASE StopReplayBuffer
    BY <1>0, <2>2 DEF StopReplayBuffer, MuxStop, QuietInv, MuxInv,
         DataInv, Purging
  <2>3. CASE SaveReplay
    BY <1>0, <2>3 DEF SaveReplay, MaySave, RequestSave, QuietInv,
         MuxInv, DataInv, Purging
  <2>4. CASE SaveHotkey
    BY <1>0, <2>4 DEF SaveHotkey, RequestSave, QuietInv, MuxInv,
         DataInv, Purging
  <2>5. CASE Shutdown
    BY <1>0, <2>5 DEF Shutdown, MuxStop, QuietInv, MuxInv, DataInv,
         Purging
  <2>6. CASE Destroy
    BY <1>0, <2>6 DEF Destroy, ClearRing, QuietInv, MuxInv, DataInv,
         Purging
  <2>7. CASE DestroyJoin
    BY <1>0, <2>7 DEF DestroyJoin, QuietInv, MuxInv, DataInv, Purging
  <2> QED BY <1>1, <2>1, <2>2, <2>3, <2>4, <2>5, <2>6, <2>7 DEF UiNext
<1>2. CASE EncoderNext
  <2>1. CASE DeliverPacket
    <3>1. /\ capture # "idle" /\ failing' = failing
          /\ UNCHANGED <<packets, mux, mux_packets, capture, enc_error, ui>>
      BY <1>0, <2>1, DeliverEffect DEF Inv
    <3> QED BY <1>0, <3>1 DEF QuietInv, DataInv
  <2>2. CASE EncoderFails
    BY <1>0, <2>2 DEF EncoderFails, MuxStop, QuietInv, MuxInv, DataInv,
         Purging
  <2>3. CASE DeliverError
    BY <1>0, <2>3 DEF DeliverError, QuietInv, MuxInv, DataInv, Purging
  <2> QED BY <1>2, <2>1, <2>2, <2>3 DEF EncoderNext
<1>3. CASE DataNext
  <2>1. CASE EndCapture
    BY <1>0, <2>1 DEF EndCapture, EndDataCapture, QuietInv, MuxInv,
         DataInv, Purging
  <2>2. CASE Deactivate
    BY <1>0, <2>2 DEF Deactivate, ClearRing, QuietInv, MuxInv, DataInv,
         Purging
  <2>3. CASE Purge
    BY <1>0, <2>3 DEF Purge, QuietInv, MuxInv, DataInv, Purging
  <2>4. CASE PurgeForSize
    <3>1. data = "size" /\ UNCHANGED <<mux_packets, failing, mux, enc_error, ui, capture>>
      BY <2>4 DEF PurgeForSize
    <3> QED BY <1>0, <3>1 DEF QuietInv, DataInv
  <2>5. CASE PurgeForTime
    <3>1. data = "time" /\ UNCHANGED <<mux_packets, failing, mux, enc_error, ui, capture>>
      BY <2>5 DEF PurgeForTime
    <3> QED BY <1>0, <3>1 DEF QuietInv, DataInv
  <2>6. CASE PurgeToKeyframe
    <3>1. data \in {"size to keyframe", "time to keyframe"}
          /\ UNCHANGED <<mux_packets, failing, mux, enc_error, ui, capture>>
      BY <2>6 DEF PurgeToKeyframe
    <3> QED BY <1>0, <3>1 DEF QuietInv, DataInv
  <2>7. CASE Push
    BY <1>0, <2>7 DEF Push, QuietInv, DataInv, AfterPush
  <2>8. CASE Join
    BY <1>0, <2>8 DEF Join, QuietInv, MuxInv, DataInv, Purging
  <2>9. CASE Save
    BY <1>0, <2>9 DEF Save, QuietInv, MuxInv, DataInv, Purging
  <2> QED BY <1>3, <2>1, <2>2, <2>3, <2>4, <2>5, <2>6, <2>7, <2>8, <2>9 DEF DataNext
<1>4. CASE MuxNext
  <2>1. CASE MuxOpen
    BY <1>0, <2>1 DEF MuxOpen, QuietInv, MuxInv, DataInv, Purging
  <2>2. CASE MuxWrite
    BY <1>0, <2>2 DEF MuxWrite, QuietInv, MuxInv, DataInv, Purging
  <2>3. CASE MuxFail
    BY <1>0, <2>3 DEF MuxFail, QuietInv, MuxInv, DataInv, Purging
  <2>4. CASE MuxFailEnd
    BY <1>0, <2>4 DEF MuxFailEnd, EndDataCapture, QuietInv, MuxInv,
         DataInv, Purging
  <2>5. CASE MuxFailStopping
    BY <1>0, <2>5 DEF MuxFailStopping, QuietInv, MuxInv, DataInv,
         Purging
  <2>6. CASE MuxFailSignal
    BY <1>0, <2>6 DEF MuxFailSignal, EndDataCapture, QuietInv, MuxInv,
         DataInv, Purging
  <2>7. CASE MuxFailCapturing
    BY <1>0, <2>7 DEF MuxFailCapturing, QuietInv, MuxInv, DataInv,
         Purging
  <2>8. CASE MuxFree
    BY <1>0, <2>8 DEF MuxFree, ForgetClip, QuietInv, MuxInv, DataInv,
         Purging
  <2>9. CASE MuxSignalSaved
    BY <1>0, <2>9 DEF MuxSignalSaved, ForgetClip, QuietInv, MuxInv,
         DataInv, Purging
  <2> QED BY <1>4, <2>1, <2>2, <2>3, <2>4, <2>5, <2>6, <2>7, <2>8, <2>9 DEF MuxNext
<1>5. CASE EndThread
  BY <1>0, <1>5 DEF EndThread, QuietInv, MuxInv, DataInv, Purging
<1>6. CASE UNCHANGED vars
  BY <1>0, <1>6 DEF vars, QuietInv, MuxInv, DataInv, Purging
<1> QED BY <1>1, <1>2, <1>3, <1>4, <1>5, <1>6 DEF Next

(* replay_buffer_destroy() leaves no thread behind and no packet, unless an *)
(* encoder failed: full_stop() calls back without the mutex that            *)
(* obs_encoder_stop() takes, and may still be inside.                       *)
THEOREM DestroyCorrect ==
  ASSUME EncoderMayFail = FALSE
  PROVE  Spec => []DestroyedQuiet
<1>1. Init => QuietInv
  BY DEF Init, QuietInv
<1>2. Inv /\ QuietInv /\ [Next]_vars => QuietInv'
  BY QuietStep
<1>3. ASSUME Inv, QuietInv, ui = "destroyed" PROVE data = "idle" /\ mux = "none" /\ refs = 0
  <2>1. data = "idle" /\ mux = "none" /\ packets = << >> /\ mux_packets = << >>
    BY <1>3 DEF QuietInv, Inv, DataInv
  <2>2. Len(packets) = 0
    BY <2>1, EmptySeq
  <2> QED BY <1>3, <2>1, <2>2 DEF Inv, PacketRefs, InHand, InClip, Purging
<1>4. Inv /\ QuietInv => DestroyedQuiet
  BY <1>3 DEF DestroyedQuiet
<1> QED BY <1>1, <1>2, <1>4, AlwaysInv, PTL DEF Spec

(* A request of the button, which is dead until "saved" comes, is the last  *)
(* one until it is served, and the clip that serves it is complete.         *)
SaveInv ==
  /\ save_ts # 0 => save_ts = asked_ts /\ (replaySaving \/ ui # "running")
  /\ data \in {"join", "save"} => save_ts # 0 /\ SysDts(pkt) >= save_ts
  /\ mux \in Running \cup {"signal"} =>
       save_ts = 0 /\ clip_end >= asked_ts /\ (replaySaving \/ ui # "running")
  /\ muxing => Len(mux_packets) = Len(clip_source)
  /\ mux = "free" => written = Len(mux_packets)
  /\ mux = "signal" => written = Len(clip_source)

LEMMA SaveStep ==
  ASSUME GuardedSaves = TRUE, ThreadMayFail = FALSE, Inv, SaveInv, [Next]_vars
  PROVE  SaveInv'
<1> USE DEF ring, limits, flags, save, dataThread, muxThread, output, encoders, frontend
<1>0. /\ SaveInv /\ MuxInv /\ DataInv /\ data \in DataStates /\ mux \in MuxStates
      /\ written \in Nat /\ Len(mux_packets) \in Nat /\ GuardedSaves = TRUE
      /\ save_ts \in Nat /\ asked_ts \in Nat /\ clip_end \in Nat
  BY Lengths DEF Inv, TypeOK, DataTypeOK, SaveTypeOK
<1>1. CASE UiNext
  <2>1. CASE StartReplayBuffer
    BY <1>0, <2>1 DEF StartReplayBuffer, SaveInv, MuxInv, DataInv,
         Running, SysDts, Purging
  <2>2. CASE StopReplayBuffer
    BY <1>0, <2>2 DEF StopReplayBuffer, MuxStop, SaveInv, MuxInv,
         DataInv, Running, SysDts, Purging
  <2>3. CASE SaveReplay
    BY <1>0, <2>3 DEF SaveReplay, MaySave, RequestSave, SaveInv, MuxInv,
         DataInv, Running, SysDts, Purging
  <2>4. CASE SaveHotkey
    BY <1>0, <2>4 DEF SaveHotkey, RequestSave, SaveInv, MuxInv, DataInv,
         Running, SysDts, Purging
  <2>5. CASE Shutdown
    BY <1>0, <2>5 DEF Shutdown, MuxStop, SaveInv, MuxInv, DataInv,
         Running, SysDts, Purging
  <2>6. CASE Destroy
    BY <1>0, <2>6 DEF Destroy, ClearRing, SaveInv, MuxInv, DataInv,
         Running, SysDts, Purging
  <2>7. CASE DestroyJoin
    BY <1>0, <2>7 DEF DestroyJoin, SaveInv, MuxInv, DataInv, Running,
         SysDts, Purging
  <2> QED BY <1>1, <2>1, <2>2, <2>3, <2>4, <2>5, <2>6, <2>7 DEF UiNext
<1>2. CASE EncoderNext
  <2>1. CASE DeliverPacket
    <3>1. /\ data' \notin {"join", "save"}
          /\ UNCHANGED <<save_ts, asked_ts, replaySaving, ui, mux, muxing, mux_packets,
                         written, clip_end, clip_source>>
      BY <1>0, <2>1, DeliverEffect DEF Inv
    <3> QED BY <1>0, <3>1 DEF SaveInv
  <2>2. CASE EncoderFails
    BY <1>0, <2>2 DEF EncoderFails, MuxStop, SaveInv, MuxInv, DataInv,
         Running, SysDts, Purging
  <2>3. CASE DeliverError
    BY <1>0, <2>3 DEF DeliverError, SaveInv, MuxInv, DataInv, Running,
         SysDts, Purging
  <2> QED BY <1>2, <2>1, <2>2, <2>3 DEF EncoderNext
<1>3. CASE DataNext
  <2>1. CASE EndCapture
    BY <1>0, <2>1 DEF EndCapture, EndDataCapture, SaveInv, MuxInv,
         DataInv, Running, SysDts, Purging
  <2>2. CASE Deactivate
    BY <1>0, <2>2 DEF Deactivate, ClearRing, SaveInv, MuxInv, DataInv,
         Running, SysDts, Purging
  <2>3. CASE Purge
    BY <1>0, <2>3 DEF Purge, SaveInv, MuxInv, DataInv, Running, SysDts,
         Purging
  <2>4. CASE PurgeForSize
    BY <1>0, <2>4 DEF PurgeForSize, SaveInv, MuxInv, DataInv, Running,
         SysDts, Purging
  <2>5. CASE PurgeForTime
    BY <1>0, <2>5 DEF PurgeForTime, SaveInv, MuxInv, DataInv, Running,
         SysDts, Purging
  <2>6. CASE PurgeToKeyframe
    BY <1>0, <2>6 DEF PurgeToKeyframe, SaveInv, MuxInv, DataInv,
         Running, SysDts, Purging
  <2>7. CASE Push
    <3>1. /\ data' \in {"join", "save"} => save_ts # 0 /\ pkt.dts + base >= save_ts
          /\ UNCHANGED <<save_ts, asked_ts, replaySaving, ui, mux, muxing, mux_packets,
                         written, clip_end, clip_source, pkt, base>>
      BY <2>7 DEF Push, AfterPush, SaveDue, SysDts
    <3> QED BY <1>0, <3>1 DEF SaveInv, SysDts
  <2>8. CASE Join
    BY <1>0, <2>8 DEF Join, SaveInv, MuxInv, DataInv, Running, SysDts,
         Purging
  <2>9. CASE Save
    <3>1. /\ mux = "none" /\ data' = "idle" /\ save_ts' = 0 /\ clip_end' = pkt.dts + base
          /\ clip_source' = packets /\ mux' = "open"
          /\ UNCHANGED <<asked_ts, replaySaving, ui>>
      BY <1>0, <2>9 DEF Save, SysDts, DataInv
    <3>2. save_ts # 0 /\ pkt.dts + base >= save_ts /\ save_ts = asked_ts
          /\ (replaySaving \/ ui # "running")
      BY <1>0, <2>9 DEF Save, SaveInv, SysDts
    <3>3. mux_packets = << >>
      BY <1>0, <3>1 DEF MuxInv
    <3>4. Len(mux_packets') = Len(packets)
      <4>1. Len(mux_packets') = Len(mux_packets) + Len(packets)
        BY <2>9, ClipSortsRing DEF Save, Inv, TypeOK, RingTypeOK, SaveTypeOK
      <4> QED BY <3>3, <4>1, Lengths
    <3> QED BY <3>1, <3>2, <3>4 DEF SaveInv
  <2> QED BY <1>3, <2>1, <2>2, <2>3, <2>4, <2>5, <2>6, <2>7, <2>8, <2>9 DEF DataNext
<1>4. CASE MuxNext
  <2>1. CASE MuxOpen
    BY <1>0, <2>1 DEF MuxOpen, SaveInv, MuxInv, DataInv, Running,
         SysDts, Purging
  <2>2. CASE MuxWrite
    BY <1>0, <2>2 DEF MuxWrite, SaveInv, MuxInv, DataInv, Running,
         SysDts, Purging
  <2>3. CASE MuxFail
    BY <1>0, <2>3 DEF MuxFail, SaveInv, MuxInv, DataInv, Running,
         SysDts, Purging
  <2>4. CASE MuxFailEnd
    BY <1>0, <2>4 DEF MuxFailEnd, EndDataCapture, SaveInv, MuxInv,
         DataInv, Running, SysDts, Purging
  <2>5. CASE MuxFailStopping
    BY <1>0, <2>5 DEF MuxFailStopping, SaveInv, MuxInv, DataInv,
         Running, SysDts, Purging
  <2>6. CASE MuxFailSignal
    BY <1>0, <2>6 DEF MuxFailSignal, EndDataCapture, SaveInv, MuxInv,
         DataInv, Running, SysDts, Purging
  <2>7. CASE MuxFailCapturing
    BY <1>0, <2>7 DEF MuxFailCapturing, SaveInv, MuxInv, DataInv,
         Running, SysDts, Purging
  <2>8. CASE MuxFree
    BY <1>0, <2>8 DEF MuxFree, ForgetClip, SaveInv, MuxInv, DataInv,
         Running, SysDts, Purging
  <2>9. CASE MuxSignalSaved
    BY <1>0, <2>9 DEF MuxSignalSaved, ForgetClip, SaveInv, MuxInv,
         DataInv, Running, SysDts, Purging
  <2> QED BY <1>4, <2>1, <2>2, <2>3, <2>4, <2>5, <2>6, <2>7, <2>8, <2>9 DEF MuxNext
<1>5. CASE EndThread
  BY <1>0, <1>5 DEF EndThread, SaveInv, MuxInv, DataInv, Running, SysDts,
       Purging
<1>6. CASE UNCHANGED vars
  BY <1>0, <1>6 DEF vars, SaveInv, MuxInv, DataInv, Running, SysDts,
       Purging
<1> QED BY <1>1, <1>2, <1>3, <1>4, <1>5, <1>6 DEF Next

(* When OnReplaySaved() re-arms the button, the file holds the whole ring   *)
(* of that moment and reaches the moment of the click, if only the button   *)
(* asks and every mux thread could be created.                              *)
THEOREM SavedCorrect ==
  ASSUME GuardedSaves = TRUE, ThreadMayFail = FALSE
  PROVE  Spec => SavedMeansSaved
<1>1. Init => SaveInv
  BY DEF Init, SaveInv, Running
<1>2. Inv /\ SaveInv /\ [Next]_vars => SaveInv'
  BY SaveStep
<1>3. Inv /\ SaveInv /\ [Next]_vars
        => [mux = "signal" /\ mux' = "exited"
              => written = Len(clip_source) /\ clip_end >= asked_ts]_vars
  BY DEF SaveInv
<1> QED BY <1>1, <1>2, <1>3, AlwaysInv, PTL DEF Spec, SavedMeansSaved

-----------------------------------------------------------------------------
(* The list of a save is sorted, so the loop that adds to it sorts. *)

LEMMA ListMoves ==
  ASSUME [Next]_vars
  PROVE  UNCHANGED mux_packets \/ mux_packets' = << >> \/ Save
<1> USE DEF ring, limits, flags, save, dataThread, muxThread, output, encoders, frontend
<1>1. CASE UiNext
  BY <1>1 DEF UiNext, StartReplayBuffer, StopReplayBuffer, SaveReplay, SaveHotkey, RequestSave,
              Shutdown, Destroy, DestroyJoin
<1>2. CASE EncoderNext
  <2>1. CASE DeliverPacket
    BY <2>1, DeliverLeaves
  <2>2. CASE EncoderFails \/ DeliverError
    BY <2>2 DEF EncoderFails, DeliverError
  <2> QED BY <1>2, <2>1, <2>2 DEF EncoderNext
<1>3. CASE DataNext
  BY <1>3 DEF DataNext, EndCapture, Deactivate, Purge, PurgeForSize, PurgeForTime,
              PurgeToKeyframe, Push, Join
<1>4. CASE MuxNext
  BY <1>4 DEF MuxNext, MuxOpen, MuxWrite, MuxFail, MuxFailEnd, MuxFailStopping, MuxFailSignal,
              MuxFailCapturing, MuxFree, MuxSignalSaved
<1>5. CASE EndThread
  BY <1>5 DEF EndThread
<1>6. CASE UNCHANGED vars
  BY <1>6 DEF vars
<1> QED BY <1>1, <1>2, <1>3, <1>4, <1>5, <1>6 DEF Next

ListInv == InOrder(mux_packets)

LEMMA ListStep ==
  ASSUME Inv, ListInv, [Next]_vars
  PROVE  ListInv'
<1>1. CASE UNCHANGED mux_packets
  BY <1>1 DEF ListInv
<1>2. CASE mux_packets' = << >>
  <2>1. InOrder(<< >>)
    BY EmptySeq DEF InOrder
  <2> QED BY <1>2, <2>1 DEF ListInv
<1>3. CASE Save
  <2>1. mux_packets' = Clip(mux_packets, packets)
    BY <1>3 DEF Save
  <2>2. mux_packets \in Seq(ClipPacket) /\ packets \in Seq(Packet)
    BY DEF Inv, TypeOK, RingTypeOK, SaveTypeOK
  <2>3. InOrder(Clip(mux_packets, packets))
    BY <2>2, ClipSortsRing DEF InOrder
  <2> QED BY <2>1, <2>3 DEF ListInv
<1> QED BY <1>1, <1>2, <1>3, ListMoves

(* Whenever replay_buffer_save() runs, its loop over insert_packet() leaves *)
(* in mux_packets the list that Clip describes, also when a save whose      *)
(* thread could not be created had left packets there.                      *)
THEOREM InsertionCorrect == Spec => []ClipIsInsertion
<1>1. Init => ListInv
  <2>1. Init => mux_packets = << >>
    BY DEF Init
  <2> QED BY <2>1, EmptySeq DEF ListInv, InOrder
<1>2. Inv /\ ListInv /\ [Next]_vars => ListInv'
  BY ListStep
<1>3. Inv /\ ListInv => ClipIsInsertion
  <2> SUFFICES ASSUME Inv, ListInv
               PROVE  Clip(mux_packets, packets) = ClipByInsertion(mux_packets, packets)
    BY DEF ClipIsInsertion
  <2>1. mux_packets \in Seq(ClipPacket) /\ packets \in Seq(Packet)
    BY DEF Inv, TypeOK, RingTypeOK, SaveTypeOK
  <2> QED BY <2>1, InsertionSorts DEF ListInv
<1> QED BY <1>1, <1>2, <1>3, AlwaysInv, PTL DEF Spec

-----------------------------------------------------------------------------
(* The interleaver's order *)
Sorted(s) ==
  /\ \A i, j \in DOMAIN s : i < j => s[i].dts <= s[j].dts
  /\ \A i, j \in DOMAIN s : i < j /\ s[i].stream = s[j].stream => s[i].dts < s[j].dts

(* The keyframe k follows the keyframe i soon enough. *)
Follows(s, i, k) == s[i].dts < s[k].dts /\ s[k].dts <= s[i].dts + MaxGop

Grouped(s) ==
  \A i \in KeyPositions(s), j \in DOMAIN s :
    s[j].dts > s[i].dts + MaxGop => \E k \in KeyPositions(s) : Follows(s, i, k)

(* No packet is older than the first keyframe. *)
Anchored(s) == \E k \in KeyPositions(s) : \A i \in DOMAIN s : s[k].dts <= s[i].dts

Unbegun(s) == \A i \in DOMAIN s : s[i].stream # Video /\ s[i].dts = 0

(* The encoders, with the next timestamps nxt and the last keyframe n       *)
(* frames ago, go on where the packets end.                                 *)
Continued(s, nxt, start, n) ==
  /\ \A i \in DOMAIN s : /\ s[i].dts + start < nxt[s[i].stream]
                         /\ \A t \in Streams : s[i].dts + start <= nxt[t]
  /\ \A i \in KeyPositions(s) :
       \/ \E k \in KeyPositions(s) : Follows(s, i, k)
       \/ n > 0 /\ nxt[Video] = start + s[i].dts + n

(* The packet the encoders deliver next *)
Delivers(p, nxt, start, n) ==
  /\ p \in Packet
  /\ p.dts + start = nxt[p.stream]
  /\ \A t \in Streams : nxt[p.stream] <= nxt[t]
  /\ p.key => p.stream = Video
  /\ p.stream = Video /\ n \in {0, MaxGop} => p.key

Since(p, n) == IF p.stream # Video THEN n ELSE IF p.key THEN 1 ELSE n + 1

LEMMA PacketsOf ==
  ASSUME NEW s \in Seq(Packet)
  PROVE  /\ DOMAIN s = 1 .. Len(s) /\ Len(s) \in Nat
         /\ \A i \in DOMAIN s : /\ s[i] \in Packet /\ s[i].dts \in Nat /\ s[i].size \in Nat
                                /\ s[i].stream \in Streams /\ i \in Nat
<1>1. DOMAIN s = 1 .. Len(s) /\ Len(s) \in Nat
  BY LenProperties
<1>2. \A i \in 1 .. Len(s) : s[i] \in Packet
  BY ElementOfSeq
<1> QED BY <1>1, <1>2 DEF Packet

(* What is appended comes last. *)
LEMMA AppendedTo ==
  ASSUME NEW s \in Seq(Packet), NEW p \in Packet
  PROVE  LET a == Append(s, p) IN
         /\ a \in Seq(Packet) /\ Len(a) = Len(s) + 1 /\ DOMAIN a = 1 .. Len(s) + 1
         /\ a[Len(s) + 1] = p /\ \A i \in DOMAIN s : a[i] = s[i]
         /\ \A i \in DOMAIN a : i \in DOMAIN s \/ i = Len(s) + 1
         /\ \A i \in DOMAIN s : i \in DOMAIN a /\ i < Len(s) + 1
         /\ KeyPositions(a) = KeyPositions(s) \cup (IF IsKeyframe(p) THEN {Len(s) + 1} ELSE {})
<1> DEFINE a == Append(s, p)
<1>1. /\ a \in Seq(Packet) /\ Len(a) = Len(s) + 1 /\ Len(s) \in Nat
      /\ DOMAIN s = 1 .. Len(s) /\ DOMAIN a = 1 .. Len(s) + 1
      /\ a[Len(s) + 1] = p /\ \A i \in 1 .. Len(s) : a[i] = s[i]
  BY AppendProperties, LenProperties
<1> HIDE DEF a
<1>2. KeyPositions(a) = KeyPositions(s) \cup (IF IsKeyframe(p) THEN {Len(s) + 1} ELSE {})
  BY <1>1 DEF KeyPositions
<1> QED BY <1>1, <1>2 DEF a

(* A delivered packet continues the ring. *)
LEMMA AppendSorted ==
  ASSUME NEW s \in Seq(Packet), NEW p, NEW nxt \in [Streams -> Nat], NEW start \in Nat, NEW n \in Nat,
         Sorted(s), Continued(s, nxt, start, n), Delivers(p, nxt, start, n)
  PROVE  Sorted(Append(s, p)) /\ \A i \in DOMAIN s : s[i].dts <= p.dts
<1> DEFINE a == Append(s, p)
<1>1. p \in Packet /\ p.dts \in Nat /\ p.stream \in Streams
  BY DEF Delivers, Packet
<1>2. \A i \in DOMAIN s : s[i].dts <= p.dts /\ (s[i].stream = p.stream => s[i].dts < p.dts)
  BY <1>1, PacketsOf DEF Continued, Delivers
<1>3. /\ a[Len(s) + 1] = p /\ \A i \in DOMAIN s : a[i] = s[i]
      /\ \A i \in DOMAIN a : i \in DOMAIN s \/ i = Len(s) + 1
      /\ \A i \in DOMAIN s : i < Len(s) + 1 /\ i \in Nat
      /\ Len(s) \in Nat
  BY <1>1, AppendedTo, PacketsOf
<1> HIDE DEF a
<1>4. Sorted(a)
  BY <1>2, <1>3 DEF Sorted
<1> QED BY <1>2, <1>4 DEF a

LEMMA AppendGrouped ==
  ASSUME NEW s \in Seq(Packet), NEW p, NEW nxt \in [Streams -> Nat], NEW start \in Nat, NEW n \in Nat,
         n <= MaxGop, Sorted(s), Grouped(s), Continued(s, nxt, start, n), Delivers(p, nxt, start, n)
  PROVE  Grouped(Append(s, p))
<1> DEFINE a == Append(s, p)
           l == Len(s) + 1
<1>1. p \in Packet /\ p.dts \in Nat /\ p.stream \in Streams
  BY DEF Delivers, Packet
<1>2. \A i \in DOMAIN s : s[i].dts <= p.dts /\ s[i].dts \in Nat
  BY AppendSorted, PacketsOf
<1>3. /\ a[l] = p /\ \A i \in DOMAIN s : a[i] = s[i]
      /\ \A i \in DOMAIN a : i \in DOMAIN s \/ i = l
      /\ KeyPositions(a) = KeyPositions(s) \cup (IF IsKeyframe(p) THEN {l} ELSE {})
      /\ \A i \in KeyPositions(s) : i \in DOMAIN s
  BY <1>1, AppendedTo, PacketsOf DEF KeyPositions
<1> HIDE DEF a, l
<1>4. MaxGop \in Nat
  BY BoundsAssumption
<1>5. ASSUME NEW i \in KeyPositions(s), NEW k \in KeyPositions(s), Follows(s, i, k)
      PROVE  Follows(a, i, k) /\ k \in KeyPositions(a)
  BY <1>3, <1>5 DEF Follows
<1>6. ASSUME NEW i \in KeyPositions(a), NEW j \in DOMAIN a, a[j].dts > a[i].dts + MaxGop
      PROVE  \E k \in KeyPositions(a) : Follows(a, i, k)
  <2>1. i # l
    <3>1. a[j].dts <= p.dts
      BY <1>1, <1>2, <1>3
    <3>2. a[j].dts \in Nat
      BY <1>1, <1>2, <1>3
    <3> QED BY <1>1, <1>3, <1>4, <1>6, <3>1, <3>2
  <2>2. i \in KeyPositions(s) /\ i \in DOMAIN s /\ a[i] = s[i]
    BY <1>3, <2>1
  <2>3. CASE j # l
    <3>1. j \in DOMAIN s /\ a[j] = s[j]
      BY <1>3, <2>3
    <3> QED BY <1>5, <1>6, <2>2, <3>1 DEF Grouped
  <2>4. CASE j = l
    <3>1. ~ (n > 0 /\ nxt[Video] = start + s[i].dts + n)
      <4>1. p.dts > s[i].dts + MaxGop
        BY <1>3, <1>6, <2>2, <2>4
      <4>2. p.dts + start <= nxt[Video] /\ Video \in Streams
        BY DEF Delivers, Streams
      <4> QED BY <1>1, <1>2, <1>4, <2>2, <4>1, <4>2
    <3> QED BY <1>5, <2>2, <3>1 DEF Continued
  <2> QED BY <2>3, <2>4
<1> QED BY <1>6 DEF Grouped, a

LEMMA AppendContinued ==
  ASSUME NEW s \in Seq(Packet), NEW p, NEW nxt \in [Streams -> Nat], NEW start \in Nat, NEW n \in Nat,
         n <= MaxGop, Sorted(s), Continued(s, nxt, start, n), Delivers(p, nxt, start, n)
  PROVE  /\ Continued(Append(s, p), [nxt EXCEPT ![p.stream] = @ + 1], start, Since(p, n))
         /\ Since(p, n) <= MaxGop
<1> DEFINE a == Append(s, p)
           l == Len(s) + 1
           then == [nxt EXCEPT ![p.stream] = @ + 1]
           m == Since(p, n)
<1>1. p \in Packet /\ p.dts \in Nat /\ p.stream \in Streams /\ p.key \in BOOLEAN
  BY DEF Delivers, Packet
<1>2. \A i \in DOMAIN s : s[i].dts <= p.dts /\ s[i].dts \in Nat /\ s[i].stream \in Streams
  BY AppendSorted, PacketsOf
<1>3. /\ a[l] = p /\ \A i \in DOMAIN s : a[i] = s[i]
      /\ \A i \in DOMAIN a : i \in DOMAIN s \/ i = l
      /\ KeyPositions(a) = KeyPositions(s) \cup (IF IsKeyframe(p) THEN {l} ELSE {})
      /\ \A i \in KeyPositions(s) : i \in DOMAIN s
  BY <1>1, AppendedTo, PacketsOf DEF KeyPositions
<1>4. MaxGop \in Nat \ {0}
  BY BoundsAssumption
<1>5. /\ \A t \in Streams : then[t] \in Nat /\ nxt[t] \in Nat
      /\ \A t \in Streams : then[t] = IF t = p.stream THEN nxt[t] + 1 ELSE nxt[t]
  BY <1>1
<1>6. /\ p.dts + start = nxt[p.stream] /\ \A t \in Streams : nxt[p.stream] <= nxt[t]
      /\ p.key => p.stream = Video
      /\ p.stream = Video /\ n \in {0, MaxGop} => p.key
      /\ Video \in Streams
  BY DEF Delivers, Streams
<1>7. m = (IF p.stream # Video THEN n ELSE IF p.key THEN 1 ELSE n + 1) /\ m \in Nat
  BY DEF Since
<1> HIDE DEF a, l, then, m
<1>8. m <= MaxGop
  BY <1>1, <1>4, <1>6, <1>7
<1>9. ASSUME NEW i \in DOMAIN a
      PROVE  a[i].dts + start < then[a[i].stream] /\ \A t \in Streams : a[i].dts + start <= then[t]
  <2>1. CASE i \in DOMAIN s
    <3>1. a[i] = s[i] /\ s[i].dts + start < nxt[s[i].stream]
          /\ \A t \in Streams : s[i].dts + start <= nxt[t]
      BY <1>3, <2>1 DEF Continued
    <3>2. \A t \in Streams : nxt[t] <= then[t] /\ nxt[t] \in Nat /\ then[t] \in Nat
      BY <1>5
    <3>3. s[i].dts + start \in Nat /\ s[i].stream \in Streams
      BY <1>2, <2>1
    <3>4. \A x, y, z \in Nat : (x < y /\ y <= z => x < z) /\ (x <= y /\ y <= z => x <= z)
      OBVIOUS
    <3> QED BY <3>1, <3>2, <3>3, <3>4
  <2>2. CASE i = l
    BY <1>1, <1>3, <1>5, <1>6, <2>2, SMTT(60)
  <2> QED BY <1>3, <2>1, <2>2
<1>10. ASSUME NEW i \in KeyPositions(a)
       PROVE  \/ \E k \in KeyPositions(a) : Follows(a, i, k)
              \/ m > 0 /\ then[Video] = start + a[i].dts + m
  <2>1. CASE i = l
    <3>1. a[i] = p /\ p.key /\ p.stream = Video
      BY <1>3, <2>1, <1>10 DEF KeyPositions, IsKeyframe
    <3> QED BY <1>1, <1>5, <1>6, <1>7, <3>1
  <2>2. CASE i # l
    <3>1. i \in KeyPositions(s) /\ i \in DOMAIN s /\ a[i] = s[i]
      BY <1>3, <2>2
    <3>2. CASE \E k \in KeyPositions(s) : Follows(s, i, k)
      BY <1>3, <3>1, <3>2 DEF Follows
    <3>3. CASE n > 0 /\ nxt[Video] = start + s[i].dts + n
      <4>1. CASE p.stream # Video
        BY <1>5, <1>6, <1>7, <3>1, <3>3, <4>1
      <4>2. CASE p.stream = Video /\ ~p.key
        <5>1. m = n + 1 /\ then[Video] = nxt[Video] + 1 /\ nxt[Video] = start + s[i].dts + n
          BY <1>5, <1>6, <1>7, <3>3, <4>2
        <5>2. a[i].dts = s[i].dts /\ s[i].dts \in Nat
          BY <1>2, <3>1
        <5>3. then[Video] = start + a[i].dts + m /\ m > 0
          <6> DEFINE d == s[i].dts
          <6> HIDE DEF d
          <6>1. /\ start \in Nat /\ n \in Nat /\ d \in Nat /\ a[i].dts = d
                /\ m = n + 1 /\ then[Video] = (start + d + n) + 1
            BY <5>1, <5>2 DEF d
          <6>2. (start + d + n) + 1 = start + d + (n + 1) /\ n + 1 > 0
            BY <6>1
          <6> QED BY <6>1, <6>2
        <5> QED BY <5>3
      <4>3. CASE p.stream = Video /\ p.key
        <5>1. l \in KeyPositions(a)
          BY <1>3, <4>3 DEF IsKeyframe
        <5>2. Follows(a, i, l)
          <6>1. p.dts = s[i].dts + n
            <7>1. p.dts + start = start + s[i].dts + n
              BY <1>6, <3>3, <4>3
            <7>2. s[i].dts \in Nat /\ p.dts \in Nat
              BY <1>1, <1>2, <3>1
            <7>3. start \in Nat /\ n \in Nat
              OBVIOUS
            <7> DEFINE d == s[i].dts
                       e == p.dts
            <7> HIDE DEF d, e
            <7>4. e + start = start + d + n /\ d \in Nat /\ e \in Nat
              BY <7>1, <7>2 DEF d, e
            <7>5. e = d + n
              BY <7>3, <7>4
            <7> QED BY <7>5 DEF d, e
          <6> QED BY <1>1, <1>2, <1>3, <1>4, <3>1, <3>3, <6>1 DEF Follows
        <5> QED BY <5>1, <5>2
      <4> QED BY <1>1, <4>1, <4>2, <4>3
    <3> QED BY <3>1, <3>2, <3>3 DEF Continued
  <2> QED BY <2>1, <2>2
<1>11. Continued(a, then, start, m)
  BY <1>9, <1>10 DEF Continued
<1> QED BY <1>8, <1>11 DEF a, then, m

LEMMA AppendAnchored ==
  ASSUME NEW s \in Seq(Packet), NEW p, NEW nxt \in [Streams -> Nat], NEW start \in Nat, NEW n \in Nat,
         Sorted(s), Continued(s, nxt, start, n), Delivers(p, nxt, start, n),
         Anchored(s) \/ (Unbegun(s) /\ nxt[Video] = start /\ n = 0)
  PROVE  \/ Anchored(Append(s, p))
         \/ /\ Unbegun(Append(s, p))
            /\ [nxt EXCEPT ![p.stream] = @ + 1][Video] = start /\ Since(p, n) = 0
<1> DEFINE a == Append(s, p)
           l == Len(s) + 1
<1>1. p \in Packet /\ p.dts \in Nat /\ p.stream \in Streams /\ p.key \in BOOLEAN
  BY DEF Delivers, Packet
<1>2. \A i \in DOMAIN s : s[i].dts <= p.dts /\ s[i].dts \in Nat /\ s[i].stream \in Streams
  BY AppendSorted, PacketsOf
<1>3. /\ a[l] = p /\ \A i \in DOMAIN s : a[i] = s[i]
      /\ \A i \in DOMAIN a : i \in DOMAIN s \/ i = l
      /\ KeyPositions(a) = KeyPositions(s) \cup (IF IsKeyframe(p) THEN {l} ELSE {})
      /\ \A i \in KeyPositions(s) : i \in DOMAIN s
  BY <1>1, AppendedTo, PacketsOf DEF KeyPositions
<1>4. /\ p.dts + start = nxt[p.stream] /\ \A t \in Streams : nxt[p.stream] <= nxt[t]
      /\ p.stream = Video /\ n = 0 => p.key
      /\ Video \in Streams
  BY DEF Delivers, Streams
<1> HIDE DEF a, l
<1>5. CASE Anchored(s)
  <2>1. PICK k \in KeyPositions(s) : \A i \in DOMAIN s : s[k].dts <= s[i].dts
    BY <1>5 DEF Anchored
  <2>2. k \in KeyPositions(a) /\ \A i \in DOMAIN a : a[k].dts <= a[i].dts
    BY <1>2, <1>3, <2>1
  <2> QED BY <2>2 DEF Anchored, a
<1>6. CASE Unbegun(s) /\ nxt[Video] = start /\ n = 0
  <2>1. p.dts = 0
    <3>1. nxt[p.stream] \in Nat /\ nxt[p.stream] <= start
      BY <1>1, <1>4, <1>6
    <3> QED BY <1>1, <1>4, <3>1
  <2>2. CASE p.stream # Video
    <3>1. Unbegun(a)
      BY <1>3, <1>6, <2>1, <2>2 DEF Unbegun
    <3>2. [nxt EXCEPT ![p.stream] = @ + 1][Video] = start /\ Since(p, n) = 0
      BY <1>4, <1>6, <2>2 DEF Since
    <3> QED BY <3>1, <3>2 DEF a
  <2>3. CASE p.stream = Video
    <3>1. l \in KeyPositions(a) /\ a[l].dts = 0
      BY <1>3, <1>4, <1>6, <2>1, <2>3 DEF IsKeyframe
    <3>2. \A i \in DOMAIN a : a[l].dts <= a[i].dts
      BY <1>2, <1>3, <2>1, <3>1
    <3> QED BY <3>1, <3>2 DEF Anchored, a
  <2> QED BY <2>2, <2>3
<1> QED BY <1>5, <1>6

-----------------------------------------------------------------------------
(* What is left when the front is taken off *)
LEMMA TailOf ==
  ASSUME NEW s \in Seq(Packet), s # << >>
  PROVE  LET t == Tail(s) IN
         /\ t \in Seq(Packet) /\ Len(t) = Len(s) - 1
         /\ 1 \in DOMAIN s /\ Head(s) = s[1] /\ Len(s) \in DOMAIN s
         /\ \A i \in DOMAIN t : i + 1 \in DOMAIN s /\ t[i] = s[i + 1] /\ i \in Nat
         /\ \A i \in DOMAIN s : i # 1 => i - 1 \in DOMAIN t /\ t[i - 1] = s[i]
         /\ \A i \in KeyPositions(t) : i + 1 \in KeyPositions(s)
         /\ \A i \in KeyPositions(s) : i # 1 => i - 1 \in KeyPositions(t)
<1> DEFINE t == Tail(s)
<1>1. /\ t \in Seq(Packet) /\ Len(t) = Len(s) - 1 /\ Len(s) \in Nat \ {0}
      /\ Head(s) = s[1] /\ \A i \in 1 .. Len(s) - 1 : t[i] = s[i + 1]
  BY HeadTailProperties, EmptySeq, LenProperties
<1>2. DOMAIN s = 1 .. Len(s) /\ DOMAIN t = 1 .. Len(s) - 1
  BY <1>1, LenProperties
<1> HIDE DEF t
<1>3. 1 \in DOMAIN s /\ Len(s) \in DOMAIN s
  BY <1>1, <1>2
<1>4. \A i \in DOMAIN t : i + 1 \in DOMAIN s /\ t[i] = s[i + 1] /\ i \in Nat
  BY <1>1, <1>2
<1>5. \A i \in DOMAIN s : i # 1 => i - 1 \in DOMAIN t /\ t[i - 1] = s[i]
  BY <1>1, <1>2
<1>6. \A i \in KeyPositions(t) : i + 1 \in KeyPositions(s)
  BY <1>4 DEF KeyPositions
<1>7. \A i \in KeyPositions(s) : i # 1 => i - 1 \in KeyPositions(t)
  BY <1>5 DEF KeyPositions
<1> QED BY <1>1, <1>3, <1>4, <1>5, <1>6, <1>7 DEF t

LEMMA TailSorted ==
  ASSUME NEW s \in Seq(Packet), s # << >>, Sorted(s)
  PROVE  Sorted(Tail(s))
<1> DEFINE t == Tail(s)
<1>1. \A i \in DOMAIN t : i + 1 \in DOMAIN s /\ t[i] = s[i + 1] /\ i \in Nat
  BY TailOf
<1> HIDE DEF t
<1>2. ASSUME NEW i \in DOMAIN t, NEW j \in DOMAIN t, i < j
      PROVE  t[i].dts <= t[j].dts /\ (t[i].stream = t[j].stream => t[i].dts < t[j].dts)
  <2>1. i + 1 < j + 1 /\ i + 1 \in DOMAIN s /\ j + 1 \in DOMAIN s
    BY <1>1, <1>2
  <2> QED BY <1>1, <2>1 DEF Sorted
<1> QED BY <1>2 DEF Sorted, t

(* The next keyframe is behind. *)
LEMMA FollowerBehind ==
  ASSUME NEW s \in Seq(Packet), Sorted(s), NEW i \in DOMAIN s, NEW k \in KeyPositions(s),
         s[i].dts < s[k].dts
  PROVE  i < k
<1>1. k \in DOMAIN s /\ i \in Nat /\ k \in Nat /\ s[i].dts \in Nat /\ s[k].dts \in Nat
  BY PacketsOf DEF KeyPositions
<1>2. CASE i = k
  BY <1>1, <1>2
<1>3. CASE k < i
  <2>1. s[k].dts <= s[i].dts
    BY <1>1, <1>3 DEF Sorted
  <2> QED BY <1>1, <2>1
<1> QED BY <1>1, <1>2, <1>3

LEMMA TailFollows ==
  ASSUME NEW s \in Seq(Packet), s # << >>, Sorted(s), NEW i \in DOMAIN Tail(s),
         \E k \in KeyPositions(s) : Follows(s, i + 1, k)
  PROVE  \E k \in KeyPositions(Tail(s)) : Follows(Tail(s), i, k)
<1>1. PICK k \in KeyPositions(s) : Follows(s, i + 1, k)
  OBVIOUS
<1>2. i + 1 \in DOMAIN s /\ Tail(s)[i] = s[i + 1] /\ i \in Nat
  BY TailOf
<1>3. i + 1 < k /\ k \in DOMAIN s /\ k \in Nat
  BY <1>1, <1>2, FollowerBehind, PacketsOf DEF Follows, KeyPositions
<1>4. k - 1 \in KeyPositions(Tail(s)) /\ Tail(s)[k - 1] = s[k]
  BY <1>2, <1>3, TailOf
<1> QED BY <1>1, <1>2, <1>4 DEF Follows

LEMMA TailGrouped ==
  ASSUME NEW s \in Seq(Packet), s # << >>, Sorted(s), Grouped(s)
  PROVE  Grouped(Tail(s))
<1> SUFFICES ASSUME NEW i \in KeyPositions(Tail(s)), NEW j \in DOMAIN Tail(s),
                    Tail(s)[j].dts > Tail(s)[i].dts + MaxGop
             PROVE  \E k \in KeyPositions(Tail(s)) : Follows(Tail(s), i, k)
  BY DEF Grouped
<1>1. /\ i + 1 \in KeyPositions(s) /\ Tail(s)[i] = s[i + 1] /\ i \in DOMAIN Tail(s)
      /\ j + 1 \in DOMAIN s /\ Tail(s)[j] = s[j + 1]
  BY TailOf DEF KeyPositions
<1>2. \E k \in KeyPositions(s) : Follows(s, i + 1, k)
  BY <1>1 DEF Grouped
<1> QED BY <1>1, <1>2, TailFollows

LEMMA TailContinued ==
  ASSUME NEW s \in Seq(Packet), s # << >>, Sorted(s), NEW nxt, NEW start, NEW n,
         Continued(s, nxt, start, n)
  PROVE  Continued(Tail(s), nxt, start, n)
<1>1. \A i \in DOMAIN Tail(s) : i + 1 \in DOMAIN s /\ Tail(s)[i] = s[i + 1]
  BY TailOf
<1>2. ASSUME NEW i \in KeyPositions(Tail(s))
      PROVE  \/ \E k \in KeyPositions(Tail(s)) : Follows(Tail(s), i, k)
             \/ n > 0 /\ nxt[Video] = start + Tail(s)[i].dts + n
  <2>1. i + 1 \in KeyPositions(s) /\ i \in DOMAIN Tail(s)
    BY TailOf DEF KeyPositions
  <2> QED BY <1>1, <2>1, TailFollows DEF Continued
<1> QED BY <1>1, <1>2 DEF Continued

(* The first keyframe stays unless it is the front. *)
LEMMA TailAnchored ==
  ASSUME NEW s \in Seq(Packet), s # << >>, Anchored(s), ~IsKeyframe(Head(s))
  PROVE  Anchored(Tail(s))
<1>1. PICK k \in KeyPositions(s) : \A i \in DOMAIN s : s[k].dts <= s[i].dts
  BY DEF Anchored
<1>2. k # 1 /\ k \in DOMAIN s
  BY TailOf DEF KeyPositions
<1>3. k - 1 \in KeyPositions(Tail(s)) /\ Tail(s)[k - 1] = s[k]
  BY <1>2, TailOf
<1>4. \A i \in DOMAIN Tail(s) : Tail(s)[k - 1].dts <= Tail(s)[i].dts
  BY <1>1, <1>3, TailOf
<1> QED BY <1>3, <1>4 DEF Anchored

LEMMA FrontAnchors ==
  ASSUME NEW s \in Seq(Packet), s # << >>, Sorted(s), IsKeyframe(Head(s))
  PROVE  Anchored(s)
<1>1. 1 \in KeyPositions(s) /\ 1 \in DOMAIN s
  BY TailOf DEF KeyPositions
<1>2. ASSUME NEW i \in DOMAIN s PROVE s[1].dts <= s[i].dts
  <2>1. i \in Nat /\ 1 <= i /\ s[1].dts \in Nat
    BY <1>1, PacketsOf
  <2>2. CASE i = 1
    BY <2>1, <2>2
  <2>3. CASE 1 < i
    BY <1>1, <2>3 DEF Sorted
  <2> QED BY <2>1, <2>2, <2>3
<1> QED BY <1>1, <1>2 DEF Anchored

(* A group of pictures is behind its keyframe: when the last packet is      *)
(* farther away than a group lasts, another keyframe is in between.         *)
LEMMA NextKeyframe ==
  ASSUME NEW s \in Seq(Packet), s # << >>, Sorted(s), Grouped(s), IsKeyframe(Head(s)),
         s[Len(s)].dts > Head(s).dts + MaxGop
  PROVE  \E k \in KeyPositions(s) : k # 1 /\ k # Len(s) /\ s[k].dts <= Head(s).dts + MaxGop
<1>1. 1 \in KeyPositions(s) /\ 1 \in DOMAIN s /\ Len(s) \in DOMAIN s /\ Head(s) = s[1]
  BY TailOf DEF KeyPositions
<1>2. PICK k \in KeyPositions(s) : Follows(s, 1, k)
  BY <1>1 DEF Grouped
<1>3. s[1].dts \in Nat /\ s[k].dts \in Nat /\ s[Len(s)].dts \in Nat /\ MaxGop \in Nat
  BY <1>1, PacketsOf, BoundsAssumption DEF KeyPositions
<1>4. k # 1 /\ k # Len(s)
  BY <1>1, <1>2, <1>3 DEF Follows
<1> QED BY <1>1, <1>2, <1>4 DEF Follows
-----------------------------------------------------------------------------
Sizes == KeySizes \cup DeltaSizes \cup AudioSizes

(* The cap holds a group of pictures and the packet behind it, at n bytes a *)
(* packet.                                                                  *)
CapHoldsGroup ==
  \E n \in Nat : /\ \A size \in Sizes : size <= n
                 /\ n * (Cardinality(Streams) * (MaxGop + 1)) <= MaxSize

(* Packets of no more than n bytes *)
LEMMA SizesBound ==
  ASSUME NEW s \in Seq(Packet), NEW n \in Nat, \A i \in DOMAIN s : s[i].size <= n
  PROVE  SizeSum(s) <= n * Len(s)
<1> DEFINE c == [i \in 1 .. Len(s) |-> s[i].size]
           T == {k \in 0 .. Len(s) : Sum(c, k) <= n * k}
<1>1. /\ SizeSum(s) = Sum(c, Len(s)) /\ Len(s) \in Nat
      /\ \A i \in 1 .. Len(s) : c[i] \in Nat /\ c[i] <= n
  BY SizesSum, PacketsOf
<1> HIDE DEF c
<1>2. 0 \in T
  BY <1>1, SumZero
<1>3. ASSUME NEW k \in 1 .. Len(s), k - 1 \in T
      PROVE  k \in T
  <2>1. Sum(c, k) = Sum(c, k - 1) + c[k]
    BY <1>1, SumStep
  <2>2. \A j \in 0 .. Len(s) : Sum(c, j) \in Nat
    BY <1>1, SumType
  <2>3. k \in 0 .. Len(s) /\ k - 1 \in 0 .. Len(s) /\ k \in Nat
    BY <1>1
  <2>4. Sum(c, k - 1) \in Nat /\ c[k] \in Nat /\ c[k] <= n /\ Sum(c, k - 1) <= n * (k - 1)
    BY <1>1, <1>3, <2>2, <2>3
  <2>5. n * (k - 1) + n = n * k
    BY <2>3
  <2>6. n * (k - 1) \in Int /\ n * k \in Int
    BY <2>3
  <2> DEFINE x == n * (k - 1)
             y == n * k
  <2> HIDE DEF x, y
  <2>7. Sum(c, k) <= y
    <3>1. x + n = y /\ Sum(c, k - 1) <= x /\ x \in Int /\ y \in Int
      BY <2>4, <2>5, <2>6 DEF x, y
    <3> QED BY <2>1, <2>4, <3>1
  <2> QED BY <2>3, <2>7 DEF y
<1> HIDE DEF T
<1>4. \A k \in 0 .. Len(s) : k \in T
  BY <1>1, <1>2, <1>3, IntervalInduction
<1>5. Len(s) \in T
  BY <1>1, <1>4
<1> QED BY <1>1, <1>5 DEF T

(* A stream has one packet at a time, so a time span holds so many packets. *)
LEMMA PacketsInSpan ==
  ASSUME NEW s \in Seq(Packet), s # << >>, Sorted(s), IsFiniteSet(Streams), NEW span \in Nat,
         s[Len(s)].dts <= Head(s).dts + span
  PROVE  /\ Len(s) <= Cardinality(Streams) * (span + 1)
         /\ Cardinality(Streams) * (span + 1) \in Nat
<1> DEFINE h == Head(s).dts
           I == h .. h + span
           D == 1 .. Len(s)
           f == [i \in D |-> <<s[i].stream, s[i].dts>>]
<1>1. /\ D = DOMAIN s /\ Len(s) \in Nat /\ Head(s) = s[1] /\ 1 \in D /\ Len(s) \in D
      /\ \A i \in D : s[i].stream \in Streams /\ s[i].dts \in Nat /\ i \in Nat
  BY TailOf, PacketsOf
<1>2. h \in Nat
  BY <1>1
<1>3. ASSUME NEW i \in D PROVE s[i].dts \in I
  <2>1. s[1].dts <= s[i].dts
    <3>1. CASE i = 1
      BY <1>1, <3>1
    <3>2. CASE i # 1
      BY <1>1, <3>2 DEF Sorted
    <3> QED BY <3>1, <3>2
  <2>2. s[i].dts <= s[Len(s)].dts
    <3>1. CASE i = Len(s)
      BY <1>1, <3>1
    <3>2. CASE i # Len(s)
      BY <1>1, <3>2 DEF Sorted
    <3> QED BY <3>1, <3>2
  <2> QED BY <1>1, <1>2, <2>1, <2>2
<1>4. IsFiniteSet(I) /\ Cardinality(I) = span + 1
  <2> HIDE DEF h
  <2>1. h \in Int /\ h + span \in Int /\ ~ (h > h + span) /\ (h + span) - h + 1 = span + 1
    BY <1>2
  <2> QED BY <2>1, FS_Interval
<1>5. IsFiniteSet(Streams \X I) /\ Cardinality(Streams \X I) = Cardinality(Streams) * (span + 1)
  <2> HIDE DEF I
  <2> QED BY <1>4, FS_Product
<1> HIDE DEF I, h
<1>6. f \in Injection(D, Streams \X I)
  <2>1. f \in [D -> Streams \X I]
    BY <1>1, <1>3
  <2>2. ASSUME NEW i \in D, NEW j \in D, f[i] = f[j] PROVE i = j
    <3>1. s[i].stream = s[j].stream /\ s[i].dts = s[j].dts
      BY <2>2
    <3>2. ~ (i < j) /\ ~ (j < i)
      BY <1>1, <3>1 DEF Sorted
    <3> QED BY <1>1, <3>2
  <2> HIDE DEF f, D
  <2> QED BY <2>1, <2>2 DEF Injection, IsInjective
<1>7. Cardinality(D) <= Cardinality(Streams \X I)
  <2> HIDE DEF f, D
  <2> QED BY <1>5, <1>6, FS_Injection
<1>8. Cardinality(D) = Len(s)
  <2>1. /\ IsFiniteSet(1 .. Len(s))
        /\ Cardinality(1 .. Len(s)) = IF 1 > Len(s) THEN 0 ELSE Len(s) - 1 + 1
    BY <1>1, FS_Interval
  <2> QED BY <1>1, <2>1
<1>9. Cardinality(Streams \X I) \in Nat
  BY <1>5, FS_CardinalityType
<1> QED BY <1>5, <1>7, <1>8, <1>9

(* More than the cap is more than a group. *)
LEMMA OverCap ==
  ASSUME CapHoldsGroup, IsFiniteSet(Streams), NEW s \in Seq(Packet), s # << >>, Sorted(s),
         \A i \in DOMAIN s : s[i].size \in Sizes, SizeSum(s) > MaxSize
  PROVE  s[Len(s)].dts > Head(s).dts + MaxGop
<1>1. PICK n \in Nat : /\ \A size \in Sizes : size <= n
                       /\ n * (Cardinality(Streams) * (MaxGop + 1)) <= MaxSize
  BY DEF CapHoldsGroup
<1>2. s[Len(s)].dts \in Nat /\ Head(s).dts \in Nat /\ Len(s) \in Nat /\ MaxGop \in Nat /\ MaxSize \in Nat
  BY TailOf, PacketsOf, BoundsAssumption
<1>3. SizeSum(s) <= n * Len(s) /\ SizeSum(s) \in Nat
  BY <1>1, SizesBound, SizesSum
<1> SUFFICES ASSUME s[Len(s)].dts <= Head(s).dts + MaxGop PROVE FALSE
  BY <1>2
<1> DEFINE all == Cardinality(Streams) * (MaxGop + 1)
<1>4. Len(s) <= all /\ all \in Nat
  BY <1>2, PacketsInSpan
<1>5. n * all <= MaxSize
  BY <1>1
<1> HIDE DEF all
<1>6. n * Len(s) <= n * all
  <2>1. \A x, y, z \in Nat : x <= y => z * x <= z * y
    OBVIOUS
  <2> QED BY <1>2, <1>4, <2>1
<1>7. n * Len(s) \in Nat /\ n * all \in Nat
  BY <1>2, <1>4
<1> QED BY <1>2, <1>3, <1>5, <1>6, <1>7

-----------------------------------------------------------------------------
(* What of the session is in memory: the ring and, behind it, the packet    *)
(* the data thread holds                                                    *)
InMemory == IF Purging \/ data = "push" THEN Append(packets, pkt) ELSE packets

Live == active /\ data \notin {"end capture", "deactivate"}

ToKeyframe == data \in {"size to keyframe", "time to keyframe"}

(* An output is started once, as by the frontend, and is not live any more  *)
(* when anything has ended it.                                              *)
SessionInv ==
  /\ starts <= 1
  /\ starts = 0 => /\ capture = "idle" /\ ~active /\ mux = "none" /\ data = "idle"
                   /\ packets = << >>
  /\ capture # "active" => ~active \/ data = "deactivate"
  /\ mux \in {"fail: end", "fail: stopping", "fail: signal"} => ~active
  /\ Purging => active
  /\ Live => max_time = MaxTime /\ max_size = MaxSize
  /\ data \in {"size", "size to keyframe"} => MaxSize # 0
  /\ gop <= MaxGop

(* What the encoders deliver continues what they delivered before; the data *)
(* thread takes it, ends the capture with it, or never sees it.             *)
LEMMA DeliverTakes ==
  ASSUME DeliverPacket, TypeOK, Lockstep
  PROVE  /\ data = "idle" /\ capture # "idle" /\ base' = base
         /\ UNCHANGED <<ring, limits, flags, save, muxThread, output, frontend>>
         /\ \E p : /\ Delivers(p, next, base, gop) /\ p.size \in Sizes
                   /\ next' = [next EXCEPT ![p.stream] = @ + 1] /\ gop' = Since(p, gop)
                   /\ \/ ~active /\ data' = "idle"
                      \/ active /\ data' = "end capture"
                      \/ active /\ data' = "purge" /\ pkt' = p
<1> PICK s \in Streams, key \in BOOLEAN, size \in KeySizes \cup DeltaSizes \cup AudioSizes :
      Deliver(s, key, size)
  BY DEF DeliverPacket
<1> DEFINE p == [stream |-> s, key |-> key, dts |-> next[s] - base, size |-> size]
<1>1. p.stream = s /\ p.key = key /\ p.dts = next[s] - base /\ p.size = size
  OBVIOUS
<1>2. p \in Packet /\ p.dts + base = next[s]
  <2>1. next[s] \in Nat /\ base \in Nat /\ base <= next[s]
    BY DEF Lockstep, TypeOK, DataTypeOK
  <2>2. size \in Nat
    BY SizesAssumption
  <2> QED BY <2>1, <2>2 DEF Packet
<1>3. \/ ~active /\ UNCHANGED dataThread
      \/ active /\ data' = "end capture"
      \/ active /\ data' = "purge" /\ pkt' = p
  BY DEF Deliver
<1> HIDE DEF p
<1>4. /\ data = "idle" /\ capture # "idle" /\ base' = base
      /\ UNCHANGED <<ring, limits, flags, save, muxThread, output, frontend>>
  BY DEF Deliver
<1>5. Delivers(p, next, base, gop)
  BY <1>1, <1>2 DEF Deliver, Delivers
<1>6. next' = [next EXCEPT ![p.stream] = @ + 1] /\ gop' = Since(p, gop)
  BY <1>1 DEF Deliver, Since
<1>7. data' = data => data' = "idle"
  BY <1>4
<1> QED BY <1>1, <1>3, <1>4, <1>5, <1>6, <1>7 DEF Sizes, dataThread

LEMMA SessionStep ==
  ASSUME MaxStarts <= 1, Inv, SessionInv, [Next]_vars
  PROVE  SessionInv'
<1> USE DEF ring, limits, flags, save, dataThread, muxThread, output, encoders, frontend
<1>0. /\ SessionInv /\ MuxInv /\ DataInv /\ data \in DataStates /\ mux \in MuxStates
      /\ gop \in Nat /\ starts \in Nat /\ active \in BOOLEAN
      /\ capture \in {"idle", "active", "ending"}
      /\ MaxGop \in Nat \ {0} /\ MaxStarts \in Nat /\ MaxStarts <= 1
  BY BoundsAssumption DEF Inv, TypeOK, DataTypeOK, SaveTypeOK, FrontendTypeOK, FlagsTypeOK
<1>1. CASE UiNext
  <2>1. CASE StartReplayBuffer
    <3>1. starts = 0 /\ starts' = 1 /\ capture' = "active" /\ max_time' = MaxTime
          /\ max_size' = MaxSize /\ gop' = 0 /\ UNCHANGED <<mux, data>>
      BY <1>0, <2>1 DEF StartReplayBuffer
    <3>2. mux = "none" /\ data = "idle"
      BY <1>0, <3>1 DEF SessionInv
    <3> QED BY <1>0, <3>1, <3>2 DEF SessionInv, Live, Purging
  <2>2. CASE StopReplayBuffer
    BY <1>0, <2>2 DEF StopReplayBuffer, MuxStop, SessionInv, Live,
         Purging, MuxInv, DataInv
  <2>3. CASE SaveReplay
    BY <1>0, <2>3 DEF SaveReplay, MaySave, RequestSave, SessionInv,
         Live, Purging, MuxInv, DataInv
  <2>4. CASE SaveHotkey
    BY <1>0, <2>4 DEF SaveHotkey, RequestSave, SessionInv, Live,
         Purging, MuxInv, DataInv
  <2>5. CASE Shutdown
    BY <1>0, <2>5 DEF Shutdown, MuxStop, SessionInv, Live, Purging,
         MuxInv, DataInv
  <2>6. CASE Destroy
    BY <1>0, <2>6 DEF Destroy, ClearRing, SessionInv, Live, Purging,
         MuxInv, DataInv
  <2>7. CASE DestroyJoin
    BY <1>0, <2>7 DEF DestroyJoin, SessionInv, Live, Purging, MuxInv,
         DataInv
  <2> QED BY <1>1, <2>1, <2>2, <2>3, <2>4, <2>5, <2>6, <2>7 DEF UiNext
<1>2. CASE EncoderNext
  <2>1. CASE DeliverPacket
    <3>1. PICK p : /\ Delivers(p, next, base, gop) /\ gop' = Since(p, gop)
                   /\ \/ ~active /\ data' = "idle"
                      \/ active /\ data' = "end capture"
                      \/ active /\ data' = "purge"
      BY <2>1, DeliverTakes DEF Inv
    <3>2. /\ data = "idle" /\ capture # "idle"
          /\ UNCHANGED <<starts, capture, active, mux, packets, max_time, max_size>>
      BY <2>1, DeliverTakes DEF Inv
    <3>3. gop' <= MaxGop
      <4>1. p.key \in BOOLEAN
        BY <3>1 DEF Delivers, Packet
      <4>2. gop <= MaxGop /\ (p.stream = Video /\ ~p.key => gop # MaxGop)
        BY <1>0, <3>1, <4>1 DEF SessionInv, Delivers
      <4>3. gop' = IF p.stream # Video THEN gop ELSE IF p.key THEN 1 ELSE gop + 1
        BY <3>1 DEF Since
      <4> HIDE DEF Delivers
      <4> QED BY <1>0, <4>1, <4>2, <4>3
    <3> QED BY <1>0, <3>1, <3>2, <3>3 DEF SessionInv, Live, Purging
  <2>2. CASE EncoderFails
    BY <1>0, <2>2 DEF EncoderFails, MuxStop, SessionInv, Live, Purging,
         MuxInv, DataInv
  <2>3. CASE DeliverError
    BY <1>0, <2>3 DEF DeliverError, SessionInv, Live, Purging, MuxInv,
         DataInv
  <2> QED BY <1>2, <2>1, <2>2, <2>3 DEF EncoderNext
<1>3. CASE DataNext
  <2>1. CASE EndCapture
    BY <1>0, <2>1 DEF EndCapture, EndDataCapture, SessionInv, Live,
         Purging, MuxInv, DataInv
  <2>2. CASE Deactivate
    BY <1>0, <2>2 DEF Deactivate, ClearRing, SessionInv, Live, Purging,
         MuxInv, DataInv
  <2>3. CASE Purge
    BY <1>0, <2>3 DEF Purge, SessionInv, Live, Purging, MuxInv, DataInv
  <2>4. CASE PurgeForSize
    BY <1>0, <2>4 DEF PurgeForSize, SessionInv, Live, Purging, MuxInv,
         DataInv
  <2>5. CASE PurgeForTime
    BY <1>0, <2>5 DEF PurgeForTime, SessionInv, Live, Purging, MuxInv,
         DataInv
  <2>6. CASE PurgeToKeyframe
    BY <1>0, <2>6 DEF PurgeToKeyframe, SessionInv, Live, Purging,
         MuxInv, DataInv
  <2>7. CASE Push
    <3>1. /\ data = "push" /\ data' \in {"idle", "join", "save"}
          /\ UNCHANGED <<starts, capture, active, mux, max_time, max_size, gop>>
      BY <2>7 DEF Push, AfterPush
    <3> QED BY <1>0, <3>1 DEF SessionInv, Live, Purging
  <2>8. CASE Join
    BY <1>0, <2>8 DEF Join, SessionInv, Live, Purging, MuxInv, DataInv
  <2>9. CASE Save
    BY <1>0, <2>9 DEF Save, SessionInv, Live, Purging, MuxInv, DataInv
  <2> QED BY <1>3, <2>1, <2>2, <2>3, <2>4, <2>5, <2>6, <2>7, <2>8, <2>9 DEF DataNext
<1>4. CASE MuxNext
  <2>1. CASE MuxOpen
    BY <1>0, <2>1 DEF MuxOpen, SessionInv, Live, Purging, MuxInv,
         DataInv
  <2>2. CASE MuxWrite
    BY <1>0, <2>2 DEF MuxWrite, SessionInv, Live, Purging, MuxInv,
         DataInv
  <2>3. CASE MuxFail
    BY <1>0, <2>3 DEF MuxFail, SessionInv, Live, Purging, MuxInv,
         DataInv
  <2>4. CASE MuxFailEnd
    BY <1>0, <2>4 DEF MuxFailEnd, EndDataCapture, SessionInv, Live,
         Purging, MuxInv, DataInv
  <2>5. CASE MuxFailStopping
    BY <1>0, <2>5 DEF MuxFailStopping, SessionInv, Live, Purging,
         MuxInv, DataInv
  <2>6. CASE MuxFailSignal
    BY <1>0, <2>6 DEF MuxFailSignal, EndDataCapture, SessionInv, Live,
         Purging, MuxInv, DataInv
  <2>7. CASE MuxFailCapturing
    BY <1>0, <2>7 DEF MuxFailCapturing, SessionInv, Live, Purging,
         MuxInv, DataInv
  <2>8. CASE MuxFree
    BY <1>0, <2>8 DEF MuxFree, ForgetClip, SessionInv, Live, Purging,
         MuxInv, DataInv
  <2>9. CASE MuxSignalSaved
    BY <1>0, <2>9 DEF MuxSignalSaved, ForgetClip, SessionInv, Live,
         Purging, MuxInv, DataInv
  <2> QED BY <1>4, <2>1, <2>2, <2>3, <2>4, <2>5, <2>6, <2>7, <2>8, <2>9 DEF MuxNext
<1>5. CASE EndThread
  BY <1>0, <1>5 DEF EndThread, SessionInv, Live, Purging, MuxInv, DataInv
<1>6. CASE UNCHANGED vars
  BY <1>0, <1>6 DEF vars, SessionInv, Live, Purging, MuxInv, DataInv
<1> QED BY <1>1, <1>2, <1>3, <1>4, <1>5, <1>6 DEF Next

-----------------------------------------------------------------------------
(* What a step does to the packets in memory: it leaves them alone, *)
Stays ==
  /\ UNCHANGED <<InMemory, next, base, gop>>
  /\ Live' => Live
  /\ ToKeyframe' => ToKeyframe /\ UNCHANGED <<packets, pkt, data>>
  /\ ToKeyframe /\ ~ToKeyframe' => packets = << >> \/ FrontIsKeyframe
  /\ Purging' => Purging
  /\ Purging /\ ~Purging' => ~ToKeyframe /\ (TooFewToPurge \/ (data = "time" /\ ~TooOld))

(* takes the packet that the encoders deliver, *)
Takes ==
  /\ ~ToKeyframe /\ ~ToKeyframe' /\ Live /\ ~Purging /\ Purging'
  /\ Delivers(pkt', next, base, gop) /\ pkt'.size \in Sizes
  /\ InMemory' = Append(InMemory, pkt') /\ base' = base
  /\ next' = [next EXCEPT ![pkt'.stream] = @ + 1] /\ gop' = Since(pkt', gop)

(* does not take it because the capture ends, *)
Misses ==
  /\ UNCHANGED InMemory /\ ~ToKeyframe /\ ~ToKeyframe' /\ ~Live' /\ ~Purging /\ ~Purging'

(* drops the front to make room for it, as it takes too much or lasts too   *)
(* long with the front, or to find the next keyframe,                       *)
Drops ==
  /\ packets # << >> /\ packets' = Tail(packets) /\ UNCHANGED <<pkt, next, base, gop>>
  /\ Purging /\ Purging' /\ Live /\ Live'
  /\ \/ ToKeyframe /\ data' = data /\ ~FrontIsKeyframe
     \/ data = "size" /\ TooBig /\ data' = IF FrontIsKeyframe THEN "size to keyframe" ELSE "size"
     \/ data = "time" /\ TooOld /\ data' = IF FrontIsKeyframe THEN "time to keyframe" ELSE "time"

(* clears all of them, *)
Clears == InMemory' = << >> /\ ~ToKeyframe' /\ ~Live' /\ ~Purging'

(* or begins the session. *)
Begins ==
  /\ InMemory' = << >> /\ gop' = 0 /\ next'[Video] = base' /\ ~ToKeyframe' /\ ~Purging'

LEMMA DeliverMoves ==
  ASSUME Inv, DeliverPacket
  PROVE  Takes \/ Misses
<1>1. TypeOK /\ Lockstep
  BY DEF Inv
<1>2. PICK p : /\ Delivers(p, next, base, gop) /\ p.size \in Sizes
               /\ next' = [next EXCEPT ![p.stream] = @ + 1] /\ gop' = Since(p, gop)
               /\ \/ ~active /\ data' = "idle"
                  \/ active /\ data' = "end capture"
                  \/ active /\ data' = "purge" /\ pkt' = p
  BY <1>1, DeliverTakes
<1>3. data = "idle" /\ base' = base /\ UNCHANGED <<ring, flags>>
  BY <1>1, DeliverTakes
<1>4. UNCHANGED <<packets, active>>
  BY <1>3 DEF ring, flags
<1>5. CASE data' \in {"idle", "end capture"} /\ ~Live'
  BY <1>3, <1>4, <1>5 DEF Misses, InMemory, ToKeyframe, Purging
<1>6. CASE active /\ data' = "purge" /\ pkt' = p
  <2>1. InMemory' = Append(InMemory, pkt') /\ ~ToKeyframe /\ ~ToKeyframe' /\ Live
        /\ ~Purging /\ Purging'
    BY <1>3, <1>4, <1>6 DEF InMemory, ToKeyframe, Purging, Live
  <2>2. /\ Delivers(pkt', next, base, gop) /\ pkt'.size \in Sizes /\ base' = base
        /\ next' = [next EXCEPT ![pkt'.stream] = @ + 1] /\ gop' = Since(pkt', gop)
    BY <1>2, <1>3, <1>6
  <2> QED BY <2>1, <2>2 DEF Takes
<1> QED BY <1>2, <1>3, <1>4, <1>5, <1>6 DEF Live

LEMMA MemoryMoves ==
  ASSUME MaxStarts <= 1, Inv, SessionInv, [Next]_vars
  PROVE  Stays \/ Takes \/ Misses \/ Drops \/ Clears \/ Begins
<1> USE DEF ring, limits, flags, save, dataThread, muxThread, output, encoders, frontend
<1>0. /\ SessionInv /\ DataInv /\ data \in DataStates /\ active \in BOOLEAN
      /\ starts \in Nat /\ MaxStarts \in Nat /\ MaxStarts <= 1
  BY BoundsAssumption DEF Inv, TypeOK, DataTypeOK, FlagsTypeOK, FrontendTypeOK
<1>1. ASSUME UNCHANGED <<packets, pkt, data, next, base, gop>>, ~Purging, active' => active
      PROVE  Stays
  BY <1>1 DEF Stays, InMemory, ToKeyframe, Live, Purging
<1>2. ASSUME UNCHANGED <<packets, pkt, next, base, gop, active>>, data \notin {"purge", "size",
               "size to keyframe", "time", "time to keyframe", "push"},
             data' \notin {"purge", "size", "size to keyframe", "time", "time to keyframe", "push"},
             Live' => Live
      PROVE  Stays
  BY <1>2 DEF Stays, InMemory, ToKeyframe, Purging
<1>3. CASE UiNext
  <2>1. CASE StartReplayBuffer
    <3>1. starts = 0 /\ gop' = 0 /\ base' = LastSys /\ next' = [s \in Streams |-> LastSys]
          /\ UNCHANGED <<data, packets>>
      BY <1>0, <2>1 DEF StartReplayBuffer
    <3>2. data = "idle" /\ packets = << >>
      BY <1>0, <3>1 DEF SessionInv
    <3>3. next'[Video] = base'
      BY <3>1 DEF Streams
    <3> QED BY <3>1, <3>2, <3>3 DEF Begins, InMemory, ToKeyframe, Purging
  <2>2. CASE StopReplayBuffer
    <3>1. UNCHANGED <<packets, pkt, data, active, next, base, gop>> /\ ~Purging
      BY <2>2 DEF StopReplayBuffer, MuxStop
    <3> QED BY <1>1, <3>1
  <2>3. CASE SaveReplay
    <3>1. UNCHANGED <<packets, pkt, data, active, next, base, gop>> /\ ~Purging
      BY <2>3 DEF SaveReplay, MaySave, RequestSave
    <3> QED BY <1>1, <3>1
  <2>4. CASE SaveHotkey
    <3>1. UNCHANGED <<packets, pkt, data, active, next, base, gop>> /\ ~Purging
      BY <2>4 DEF SaveHotkey, RequestSave
    <3> QED BY <1>1, <3>1
  <2>5. CASE Shutdown
    <3>1. UNCHANGED <<packets, pkt, data, active, next, base, gop>> /\ ~Purging
      BY <2>5 DEF Shutdown, MuxStop
    <3> QED BY <1>1, <3>1
  <2>6. CASE Destroy
    <3>1. packets' = << >> /\ UNCHANGED <<data, active>> /\ capture = "idle" /\ ~Purging
      BY <2>6 DEF Destroy, ClearRing
    <3>2. data \in {"idle", "end capture", "deactivate"} /\ (~active \/ data = "deactivate")
      BY <1>0, <3>1 DEF DataInv, SessionInv
    <3> QED BY <3>1, <3>2 DEF Clears, InMemory, ToKeyframe, Purging, Live
  <2>7. CASE DestroyJoin
    <3>1. UNCHANGED <<packets, pkt, data, active, next, base, gop>> /\ ~Purging
      BY <2>7 DEF DestroyJoin
    <3> QED BY <1>1, <3>1
  <2> QED BY <1>3, <2>1, <2>2, <2>3, <2>4, <2>5, <2>6, <2>7 DEF UiNext
<1>4. CASE EncoderNext
  <2>1. CASE DeliverPacket
    BY <2>1, DeliverMoves
  <2>2. CASE EncoderFails
    <3>1. UNCHANGED <<packets, pkt, data, active, next, base, gop>> /\ ~Purging
      BY <2>2 DEF EncoderFails, MuxStop
    <3> QED BY <1>1, <3>1
  <2>3. CASE DeliverError
    <3>1. UNCHANGED <<packets, pkt, next, base, gop, active>> /\ data = "idle"
          /\ data' \in {"idle", "end capture"}
      BY <2>3 DEF DeliverError
    <3> QED BY <1>2, <3>1 DEF Live
  <2> QED BY <1>4, <2>1, <2>2, <2>3 DEF EncoderNext
<1>5. CASE DataNext
  <2>1. CASE EndCapture
    <3>1. UNCHANGED <<packets, pkt, next, base, gop, active>> /\ data = "end capture"
          /\ data' = "deactivate"
      BY <2>1 DEF EndCapture
    <3> QED BY <1>2, <3>1 DEF Live
  <2>2. CASE Deactivate
    <3>1. packets' = << >> /\ data' = "idle" /\ active' = FALSE
      BY <2>2 DEF Deactivate, ClearRing
    <3> QED BY <3>1 DEF Clears, InMemory, ToKeyframe, Purging, Live
  <2>3. CASE Purge
    <3>1. UNCHANGED <<packets, pkt, next, base, gop, active>> /\ data = "purge"
          /\ \/ data' \in {"size", "time"}
             \/ data' = "push" /\ TooFewToPurge
      BY <2>3 DEF Purge
    <3> QED BY <3>1 DEF Stays, InMemory, ToKeyframe, Purging, Live
  <2>4. CASE PurgeForSize
    <3>1. /\ UNCHANGED <<pkt, next, base, gop, active>> /\ data = "size"
          /\ IF TooBig THEN PurgeFront /\ data' = IF FrontIsKeyframe THEN "size to keyframe" ELSE "size"
             ELSE /\ UNCHANGED packets
                  /\ (data' = "push" /\ TooFewToPurge) \/ data' = "time"
      BY <2>4 DEF PurgeForSize
    <3>2. Purging /\ active /\ ~ToKeyframe
      BY <1>0, <3>1 DEF SessionInv, Purging, ToKeyframe
    <3>3. CASE TooBig /\ packets # << >>
      <4>1. packets' = Tail(packets)
        BY <3>1, <3>3 DEF PurgeFront
      <4>2. Purging' /\ Live /\ Live'
        BY <3>1, <3>2, <3>3 DEF Purging, Live
      <4> QED BY <3>1, <3>2, <3>3, <4>1, <4>2 DEF Drops
    <3>4. CASE TooBig /\ packets = << >>
      <4>1. packets' = packets /\ data' = "size"
        BY <3>1, <3>4 DEF PurgeFront, FrontIsKeyframe
      <4> QED BY <3>1, <3>2, <4>1 DEF Stays, InMemory, Purging, ToKeyframe, Live
    <3>5. CASE ~TooBig
      BY <3>1, <3>2, <3>5 DEF Stays, InMemory, Purging, ToKeyframe, Live
    <3> QED BY <3>3, <3>4, <3>5
  <2>5. CASE PurgeForTime
    <3>1. /\ UNCHANGED <<pkt, next, base, gop, active>> /\ data = "time"
          /\ IF TooOld THEN PurgeFront /\ data' = IF FrontIsKeyframe THEN "time to keyframe" ELSE "time"
             ELSE /\ UNCHANGED packets
                  /\ data' = "push"
      BY <2>5 DEF PurgeForTime
    <3>2. Purging /\ active /\ ~ToKeyframe
      BY <1>0, <3>1 DEF SessionInv, Purging, ToKeyframe
    <3>3. CASE TooOld /\ packets # << >>
      <4>1. packets' = Tail(packets)
        BY <3>1, <3>3 DEF PurgeFront
      <4>2. Purging' /\ Live /\ Live'
        BY <3>1, <3>2, <3>3 DEF Purging, Live
      <4> QED BY <3>1, <3>2, <3>3, <4>1, <4>2 DEF Drops
    <3>4. CASE TooOld /\ packets = << >>
      <4>1. packets' = packets /\ data' = "time"
        BY <3>1, <3>4 DEF PurgeFront, FrontIsKeyframe
      <4> QED BY <3>1, <3>2, <4>1 DEF Stays, InMemory, Purging, ToKeyframe, Live
    <3>5. CASE ~TooOld
      BY <3>1, <3>2, <3>5 DEF Stays, InMemory, Purging, ToKeyframe, Live
    <3> QED BY <3>3, <3>4, <3>5
  <2>6. CASE PurgeToKeyframe
    <3>1. /\ UNCHANGED <<pkt, next, base, gop, active>> /\ ToKeyframe
          /\ IF packets = << >> \/ FrontIsKeyframe
             THEN data' \in {"size", "time"} /\ UNCHANGED packets
             ELSE PurgeFront /\ UNCHANGED data
      BY <2>6 DEF PurgeToKeyframe, ToKeyframe
    <3>2. Purging /\ active
      BY <1>0, <3>1 DEF SessionInv, Purging, ToKeyframe
    <3>3. CASE packets = << >> \/ FrontIsKeyframe
      BY <3>1, <3>2, <3>3 DEF Stays, InMemory, Purging, ToKeyframe, Live
    <3>4. CASE ~(packets = << >> \/ FrontIsKeyframe)
      <4>1. packets' = Tail(packets)
        BY <3>1, <3>4 DEF PurgeFront
      <4>2. Purging' /\ Live /\ Live'
        BY <3>1, <3>2, <3>4 DEF Purging, Live
      <4> QED BY <3>1, <3>2, <3>4, <4>1, <4>2 DEF Drops
    <3> QED BY <3>3, <3>4
  <2>7. CASE Push
    <3>1. UNCHANGED <<pkt, next, base, gop, active>> /\ data = "push" /\ data' \in {"idle", "join", "save"}
          /\ packets' = Append(packets, pkt)
      BY <2>7 DEF Push, AfterPush
    <3> QED BY <3>1 DEF Stays, InMemory, ToKeyframe, Purging, Live
  <2>8. CASE Join
    <3>1. UNCHANGED <<packets, pkt, next, base, gop, active>> /\ data = "join" /\ data' = "save"
      BY <2>8 DEF Join
    <3> QED BY <1>2, <3>1 DEF Live
  <2>9. CASE Save
    <3>1. UNCHANGED <<packets, pkt, next, base, gop, active>> /\ data = "save" /\ data' = "idle"
      BY <2>9 DEF Save
    <3> QED BY <1>2, <3>1 DEF Live
  <2> QED BY <1>5, <2>1, <2>2, <2>3, <2>4, <2>5, <2>6, <2>7, <2>8, <2>9 DEF DataNext
<1>6. CASE MuxNext
  <2>1. CASE MuxOpen
    <3>1. UNCHANGED <<packets, pkt, data, active, next, base, gop>> /\ ~Purging
      BY <2>1 DEF MuxOpen
    <3> QED BY <1>1, <3>1
  <2>2. CASE MuxWrite
    <3>1. UNCHANGED <<packets, pkt, data, active, next, base, gop>> /\ ~Purging
      BY <2>2 DEF MuxWrite
    <3> QED BY <1>1, <3>1
  <2>3. CASE MuxFail
    <3>1. UNCHANGED <<packets, pkt, data, next, base, gop>> /\ ~Purging /\ ~active'
      BY <2>3 DEF MuxFail
    <3> QED BY <1>1, <3>1
  <2>4. CASE MuxFailEnd
    <3>1. UNCHANGED <<packets, pkt, data, active, next, base, gop>> /\ ~Purging
      BY <2>4 DEF MuxFailEnd, EndDataCapture
    <3> QED BY <1>1, <3>1
  <2>5. CASE MuxFailStopping
    <3>1. UNCHANGED <<packets, pkt, data, active, next, base, gop>> /\ ~Purging
      BY <2>5 DEF MuxFailStopping
    <3> QED BY <1>1, <3>1
  <2>6. CASE MuxFailSignal
    <3>1. UNCHANGED <<packets, pkt, data, active, next, base, gop>> /\ ~Purging
      BY <2>6 DEF MuxFailSignal, EndDataCapture
    <3> QED BY <1>1, <3>1
  <2>7. CASE MuxFailCapturing
    <3>1. UNCHANGED <<packets, pkt, data, active, next, base, gop>> /\ ~Purging
      BY <2>7 DEF MuxFailCapturing
    <3> QED BY <1>1, <3>1
  <2>8. CASE MuxFree
    <3>1. UNCHANGED <<packets, pkt, data, active, next, base, gop>> /\ ~Purging
      BY <2>8 DEF MuxFree, ForgetClip
    <3> QED BY <1>1, <3>1
  <2>9. CASE MuxSignalSaved
    <3>1. UNCHANGED <<packets, pkt, data, active, next, base, gop>> /\ ~Purging
      BY <2>9 DEF MuxSignalSaved, ForgetClip
    <3> QED BY <1>1, <3>1
  <2> QED BY <1>6, <2>1, <2>2, <2>3, <2>4, <2>5, <2>6, <2>7, <2>8, <2>9 DEF MuxNext
<1>7. CASE EndThread
  <2>1. UNCHANGED <<packets, pkt, data, active, next, base, gop>>
    BY <1>7 DEF EndThread
  <2>2. ~Purging
    BY <1>0, <1>7 DEF EndThread, DataInv, SessionInv, Purging
  <2> QED BY <1>1, <2>1, <2>2
<1>8. CASE UNCHANGED vars
  <2>1. UNCHANGED <<packets, pkt, data, active, next, base, gop>>
    BY <1>8 DEF vars
  <2>2. InMemory' = InMemory /\ (Live' <=> Live) /\ (ToKeyframe' <=> ToKeyframe) /\ (Purging' <=> Purging)
    BY <2>1 DEF InMemory, ToKeyframe, Purging, Live
  <2> QED BY <2>1, <2>2 DEF Stays
<1> QED BY <1>3, <1>4, <1>5, <1>6, <1>7, <1>8 DEF Next

-----------------------------------------------------------------------------
(* Groups of pictures and the packet behind fit into the limits. *)
GroupsKept == MaxGop <= MaxTime /\ (MaxSize = 0 \/ (IsFiniteSet(Tracks) /\ CapHoldsGroup))

(* The packets in memory are in order and in groups, and begin, up to the   *)
(* sound before it, with a keyframe, also while the purge looks for it.     *)
RingInv ==
  /\ Sorted(InMemory) /\ Grouped(InMemory)
  /\ \A i \in DOMAIN InMemory : InMemory[i].size \in Sizes
  /\ ~ToKeyframe => Anchored(InMemory) \/ Unbegun(InMemory)
  /\ ToKeyframe => KeyPositions(packets) # {}
  /\ Live => Continued(InMemory, next, base, gop)
  /\ Live /\ ~ToKeyframe =>
       Anchored(InMemory) \/ (Unbegun(InMemory) /\ next[Video] = base /\ gop = 0)

LEMMA InMemoryType ==
  ASSUME Inv
  PROVE  /\ InMemory \in Seq(Packet) /\ pkt \in Packet /\ packets \in Seq(Packet)
         /\ next \in [Streams -> Nat] /\ base \in Nat /\ gop \in Nat
<1>1. packets \in Seq(Packet) /\ pkt \in Packet
  BY DEF Inv, TypeOK, RingTypeOK, DataTypeOK
<1>2. InMemory \in Seq(Packet)
  BY <1>1, AppendedTo DEF InMemory
<1> QED BY <1>1, <1>2 DEF Inv, TypeOK, DataTypeOK

(* During the purge, memory is the ring and one packet more. *)
LEMMA PurgeMemory ==
  ASSUME Inv, Purging, packets # << >>
  PROVE  /\ InMemory = Append(packets, pkt) /\ InMemory # << >>
         /\ Head(InMemory) = Head(packets) /\ InMemory[Len(InMemory)] = pkt
         /\ Len(InMemory) = Len(packets) + 1 /\ Len(packets) \in Nat
         /\ Tail(InMemory) = Append(Tail(packets), pkt)
         /\ KeyPositions(InMemory) \subseteq KeyPositions(packets) \cup {Len(InMemory)}
         /\ KeyPositions(packets) \subseteq KeyPositions(InMemory)
         /\ \A k \in KeyPositions(packets) : packets[k] = InMemory[k]
<1> DEFINE m == Append(packets, pkt)
<1>1. packets \in Seq(Packet) /\ pkt \in Packet
  BY InMemoryType
<1>2. InMemory = m
  BY DEF InMemory
<1>3. /\ m \in Seq(Packet) /\ Len(m) = Len(packets) + 1 /\ m[Len(packets) + 1] = pkt
      /\ \A i \in DOMAIN packets : m[i] = packets[i]
      /\ KeyPositions(m) = KeyPositions(packets) \cup (IF IsKeyframe(pkt) THEN {Len(packets) + 1} ELSE {})
  BY <1>1, AppendedTo
<1>4. Len(packets) \in Nat /\ 1 \in DOMAIN packets /\ Head(packets) = packets[1]
  BY <1>1, TailOf, PacketsOf
<1>5. m # << >> /\ Head(m) = Head(packets)
  BY <1>1, <1>3, <1>4, EmptySeq
<1>6. Tail(m) = Append(Tail(packets), pkt)
  BY <1>1
<1> HIDE DEF m
<1>7. \A k \in KeyPositions(packets) : packets[k] = m[k]
  BY <1>3 DEF KeyPositions
<1> QED BY <1>2, <1>3, <1>4, <1>5, <1>6, <1>7

(* The purge drops a packet only when a group of pictures lies behind it. *)
LEMMA DropsFar ==
  ASSUME GroupsKept, Inv, SizeCounter, SessionInv, RingInv, Drops, ~ToKeyframe
  PROVE  InMemory[Len(InMemory)].dts > Head(InMemory).dts + MaxGop
<1>1. /\ packets # << >> /\ Purging /\ Live
      /\ (data = "size" /\ TooBig) \/ (data = "time" /\ TooOld)
  BY DEF Drops
<1>2. /\ InMemory = Append(packets, pkt) /\ InMemory # << >>
      /\ Head(InMemory) = Head(packets) /\ InMemory[Len(InMemory)] = pkt
  BY <1>1, PurgeMemory
<1>3. packets \in Seq(Packet) /\ pkt \in Packet /\ InMemory \in Seq(Packet)
  BY InMemoryType
<1>4. CASE data = "size" /\ TooBig
  <2>1. MaxSize # 0 /\ max_size = MaxSize
    BY <1>1, <1>4 DEF SessionInv
  <2>2. SizeSum(InMemory) > MaxSize
    BY <1>2, <1>3, <1>4, <2>1, SizesAppend DEF SizeCounter, TooBig
  <2>3. IsFiniteSet(Streams) /\ CapHoldsGroup
    <3>1. IsFiniteSet(Tracks) /\ CapHoldsGroup
      BY <2>1 DEF GroupsKept
    <3> QED BY <3>1, FS_Singleton, FS_Union DEF Streams
  <2> QED BY <1>2, <1>3, <2>2, <2>3, OverCap DEF RingInv
<1>5. CASE data = "time" /\ TooOld
  <2>1. max_time = MaxTime /\ cur_time = Head(packets).dts
    BY <1>1 DEF SessionInv, Inv, RingCounters
  <2>2. Head(packets) \in Packet
    BY <1>1, <1>3
  <2>3. Head(packets).dts \in Nat /\ pkt.dts \in Nat /\ MaxTime \in Nat /\ MaxGop \in Nat
        /\ MaxGop <= MaxTime
    BY <1>3, <2>2, BoundsAssumption DEF Packet, GroupsKept
  <2>4. pkt.dts - Head(packets).dts > MaxTime
    BY <1>5, <2>1 DEF TooOld
  <2>5. pkt.dts > Head(packets).dts + MaxGop
    BY <2>3, <2>4
  <2> QED BY <1>2, <2>5
<1> QED BY <1>1, <1>4, <1>5

(* What has no packet in it satisfies all of it. *)
LEMMA EmptyMemory ==
  /\ Sorted(<< >>) /\ Grouped(<< >>) /\ Unbegun(<< >>)
  /\ \A i \in DOMAIN << >> : FALSE
  /\ \A nxt, start, n : Continued(<< >>, nxt, start, n)
<1>1. DOMAIN << >> = {}
  OBVIOUS
<1>2. KeyPositions(<< >>) = {}
  BY <1>1 DEF KeyPositions
<1> QED BY <1>1, <1>2 DEF Sorted, Grouped, Unbegun, Continued

LEMMA TakesRing ==
  ASSUME Inv, SessionInv, RingInv, Takes
  PROVE  RingInv'
<1> DEFINE m == InMemory
           p == pkt'
<1>1. m \in Seq(Packet) /\ next \in [Streams -> Nat] /\ base \in Nat /\ gop \in Nat /\ gop <= MaxGop
  BY InMemoryType DEF SessionInv
<1>2. /\ Sorted(m) /\ Grouped(m) /\ Continued(m, next, base, gop) /\ Delivers(p, next, base, gop)
      /\ Anchored(m) \/ (Unbegun(m) /\ next[Video] = base /\ gop = 0)
      /\ \A i \in DOMAIN m : m[i].size \in Sizes
  BY DEF RingInv, Takes
<1>3. /\ InMemory' = Append(m, p) /\ base' = base /\ ~ToKeyframe' /\ p.size \in Sizes
      /\ next' = [next EXCEPT ![p.stream] = @ + 1] /\ gop' = Since(p, gop)
  BY DEF Takes
<1>4. p \in Packet
  BY <1>2 DEF Delivers
<1> HIDE DEF m, p
<1>5. Sorted(Append(m, p))
  BY <1>1, <1>2, AppendSorted
<1>6. Grouped(Append(m, p))
  BY <1>1, <1>2, AppendGrouped
<1>7. Continued(Append(m, p), next', base, gop')
  BY <1>1, <1>2, <1>3, AppendContinued
<1>8. Anchored(Append(m, p)) \/ (Unbegun(Append(m, p)) /\ next'[Video] = base /\ gop' = 0)
  BY <1>1, <1>2, <1>3, AppendAnchored
<1>9. \A i \in DOMAIN Append(m, p) : Append(m, p)[i].size \in Sizes
  BY <1>1, <1>2, <1>3, <1>4, AppendedTo
<1> QED BY <1>3, <1>5, <1>6, <1>7, <1>8, <1>9 DEF RingInv

LEMMA DropsRing ==
  ASSUME GroupsKept, Inv, SizeCounter, SessionInv, RingInv, Drops
  PROVE  RingInv'
<1> DEFINE m == InMemory
<1>1. /\ packets # << >> /\ packets' = Tail(packets) /\ UNCHANGED <<pkt, next, base, gop>>
      /\ Purging /\ Purging' /\ Live
  BY DEF Drops
<1>2. /\ InMemory' = Tail(m) /\ m # << >> /\ m \in Seq(Packet) /\ Head(m) = Head(packets)
      /\ Len(m) = Len(packets) + 1 /\ Len(packets) \in Nat
      /\ KeyPositions(m) \subseteq KeyPositions(packets) \cup {Len(m)}
  BY <1>1, PurgeMemory, InMemoryType DEF InMemory
<1>3. /\ Sorted(m) /\ Grouped(m) /\ Continued(m, next, base, gop)
      /\ \A i \in DOMAIN m : m[i].size \in Sizes
  BY <1>1 DEF RingInv
<1>4. packets \in Seq(Packet)
  BY InMemoryType
<1> HIDE DEF m
<1>5. Sorted(Tail(m)) /\ Grouped(Tail(m)) /\ Continued(Tail(m), next, base, gop)
  BY <1>2, <1>3, TailSorted, TailGrouped, TailContinued
<1>6. \A i \in DOMAIN Tail(m) : Tail(m)[i].size \in Sizes
  BY <1>2, <1>3, TailOf
<1>7. ToKeyframe' => KeyPositions(packets') # {}
  <2> SUFFICES ASSUME ToKeyframe' PROVE KeyPositions(Tail(packets)) # {}
    BY <1>1
  <2>1. \A k \in KeyPositions(packets) : k # 1 => k - 1 \in KeyPositions(Tail(packets))
    BY <1>1, <1>4, TailOf
  <2>2. 1 \in KeyPositions(packets) => IsKeyframe(Head(packets))
    BY <1>1, <1>4, TailOf DEF KeyPositions
  <2>3. CASE ToKeyframe
    <3>1. ~IsKeyframe(Head(packets)) /\ KeyPositions(packets) # {}
      BY <1>1, <2>3 DEF Drops, FrontIsKeyframe, RingInv, ToKeyframe
    <3> QED BY <2>1, <2>2, <3>1
  <2>4. CASE ~ToKeyframe
    <3>1. IsKeyframe(Head(m))
      BY <1>1, <1>2, <2>4 DEF Drops, FrontIsKeyframe, ToKeyframe
    <3>2. m[Len(m)].dts > Head(m).dts + MaxGop
      BY <2>4, DropsFar DEF m
    <3>3. PICK k \in KeyPositions(m) : k # 1 /\ k # Len(m)
      BY <1>2, <1>3, <3>1, <3>2, NextKeyframe
    <3> QED BY <1>2, <2>1, <3>3
  <2> QED BY <2>3, <2>4
<1>8. ~ToKeyframe' => Anchored(Tail(m))
  <2> SUFFICES ASSUME ~ToKeyframe' PROVE Anchored(Tail(m))
    OBVIOUS
  <2>1. ~ToKeyframe /\ ~IsKeyframe(Head(m))
    BY <1>1, <1>2 DEF Drops, FrontIsKeyframe, ToKeyframe
  <2>2. m[Len(m)].dts > Head(m).dts + MaxGop
    BY <2>1, DropsFar DEF m
  <2>3. ~Unbegun(m)
    <3>1. Len(m) \in DOMAIN m /\ 1 \in DOMAIN m /\ Head(m) = m[1]
      BY <1>2, TailOf
    <3>2. m[Len(m)].dts \in Nat /\ m[1].dts \in Nat /\ MaxGop \in Nat
      BY <1>2, <3>1, PacketsOf, BoundsAssumption
    <3> QED BY <2>2, <3>1, <3>2 DEF Unbegun
  <2>4. Anchored(m)
    BY <2>1, <2>3 DEF RingInv, m
  <2> QED BY <1>2, <2>1, <2>4, TailAnchored
<1> QED BY <1>1, <1>2, <1>5, <1>6, <1>7, <1>8 DEF RingInv

LEMMA RingInvStep ==
  ASSUME MaxStarts <= 1, GroupsKept, Inv, SizeCounter, SessionInv, RingInv, [Next]_vars
  PROVE  RingInv'
<1>1. CASE Stays
  <2>1. /\ InMemory' = InMemory /\ next' = next /\ base' = base /\ gop' = gop /\ (Live' => Live)
        /\ ToKeyframe' => ToKeyframe /\ packets' = packets
        /\ ToKeyframe /\ ~ToKeyframe' => packets = << >> \/ FrontIsKeyframe
    BY <1>1 DEF Stays
  <2>2. ASSUME ToKeyframe, ~ToKeyframe' PROVE Anchored(InMemory)
    <3>1. packets # << >>
      BY <2>2, EmptyMemory DEF RingInv, KeyPositions
    <3>2. Purging /\ IsKeyframe(Head(packets))
      BY <2>1, <2>2, <3>1 DEF FrontIsKeyframe, ToKeyframe, Purging
    <3>3. InMemory # << >> /\ IsKeyframe(Head(InMemory))
      BY <3>1, <3>2, PurgeMemory
    <3> QED BY <3>3, FrontAnchors, InMemoryType DEF RingInv
  <2> QED BY <2>1, <2>2 DEF RingInv
<1>2. CASE Takes
  BY <1>2, TakesRing
<1>3. CASE Misses
  BY <1>3 DEF Misses, RingInv
<1>4. CASE Drops
  BY <1>4, DropsRing
<1>5. CASE Clears
  BY <1>5, EmptyMemory DEF Clears, RingInv
<1>6. CASE Begins
  BY <1>6, EmptyMemory DEF Begins, RingInv
<1> QED BY <1>1, <1>2, <1>3, <1>4, <1>5, <1>6, MemoryMoves

-----------------------------------------------------------------------------
(* The clip of a save is the ring of that moment. *)
LEMMA ClipMoves ==
  ASSUME [Next]_vars
  PROVE  \/ clip_source' \in {clip_source, << >>}
         \/ data = "save" /\ clip_source' = packets
<1> USE DEF ring, limits, flags, save, dataThread, muxThread, output, encoders, frontend
<1>1. CASE UiNext
  BY <1>1 DEF UiNext, StartReplayBuffer, StopReplayBuffer, SaveReplay, SaveHotkey, Shutdown,
              Destroy, DestroyJoin
<1>2. CASE EncoderNext
  <2>1. CASE DeliverPacket
    BY <2>1, DeliverLeaves
  <2>2. CASE EncoderFails \/ DeliverError
    BY <2>2 DEF EncoderFails, DeliverError
  <2> QED BY <1>2, <2>1, <2>2 DEF EncoderNext
<1>3. CASE DataNext
  BY <1>3 DEF DataNext, EndCapture, Deactivate, Purge, PurgeForSize, PurgeForTime,
              PurgeToKeyframe, Push, Join, Save
<1>4. CASE MuxNext
  BY <1>4 DEF MuxNext, MuxOpen, MuxWrite, MuxFail, MuxFailEnd, MuxFailStopping, MuxFailSignal,
              MuxFailCapturing, MuxFree, MuxSignalSaved, ForgetClip
<1>5. CASE EndThread
  BY <1>5 DEF EndThread
<1>6. CASE UNCHANGED vars
  BY <1>6 DEF vars
<1> QED BY <1>1, <1>2, <1>3, <1>4, <1>5, <1>6 DEF Next

ClipInv == Sorted(clip_source) /\ (Anchored(clip_source) \/ Unbegun(clip_source))

LEMMA ClipInvStep ==
  ASSUME RingInv, ClipInv, [Next]_vars
  PROVE  ClipInv'
<1>1. CASE data = "save" /\ clip_source' = packets
  <2>1. InMemory = packets /\ ~ToKeyframe
    BY <1>1 DEF InMemory, ToKeyframe, Purging
  <2> QED BY <1>1, <2>1 DEF RingInv, ClipInv
<1>2. CASE clip_source' \in {clip_source, << >>}
  BY <1>2, EmptyMemory DEF ClipInv
<1> QED BY <1>1, <1>2, ClipMoves

LEMMA AlwaysRing ==
  ASSUME MaxStarts <= 1, GroupsKept
  PROVE  Spec => [](Inv /\ SizeCounter /\ SessionInv /\ RingInv /\ ClipInv)
<1>1. Init => SizeCounter /\ SessionInv /\ RingInv /\ ClipInv
  <2> SUFFICES ASSUME Init PROVE SizeCounter /\ SessionInv /\ RingInv /\ ClipInv
    OBVIOUS
  <2>1. InMemory = << >> /\ ~ToKeyframe /\ ~Live /\ clip_source = << >>
    BY DEF Init, InMemory, ToKeyframe, Live, Purging
  <2>2. SizeCounter
    BY SizesEmpty DEF Init, SizeCounter
  <2>3. SessionInv
    BY BoundsAssumption DEF Init, SessionInv, Live, Purging
  <2> QED BY <2>1, <2>2, <2>3, EmptyMemory DEF RingInv, ClipInv
<1>2. SizeCounter /\ SessionInv /\ RingInv /\ ClipInv /\ Inv /\ [Next]_vars
        => (SizeCounter /\ SessionInv /\ RingInv /\ ClipInv)'
  BY SizeStep, SessionStep, RingInvStep, ClipInvStep
<1> QED BY <1>1, <1>2, AlwaysInv, PTL DEF Spec

(* A clip that replay_buffer_save() takes out of the ring begins, for the   *)
(* video, with a keyframe, whatever was purged: if an output is started     *)
(* once, keyframes are no farther apart than the window is long, and the    *)
(* cap on the size, if there is one, holds a group of pictures.             *)
THEOREM ClipsDecodable ==
  ASSUME MaxStarts <= 1, GroupsKept
  PROVE  Spec => []ClipDecodable
<1>1. ASSUME Inv, ClipInv PROVE ClipDecodable
  <2> SUFFICES ASSUME NEW i \in DOMAIN clip_source, clip_source[i].stream = Video,
                      \A j \in 1 .. i - 1 : clip_source[j].stream # Video
               PROVE  clip_source[i].key
    BY DEF ClipDecodable
  <2>1. clip_source \in Seq(Packet)
    BY <1>1 DEF Inv, TypeOK, SaveTypeOK
  <2>2. PICK k \in KeyPositions(clip_source) :
               \A j \in DOMAIN clip_source : clip_source[k].dts <= clip_source[j].dts
    BY <1>1 DEF ClipInv, Anchored, Unbegun
  <2>3. k \in DOMAIN clip_source /\ clip_source[k].stream = Video /\ clip_source[k].key
    BY <2>2 DEF KeyPositions, IsKeyframe
  <2>4. k \in Nat /\ i \in Nat /\ k > 0 /\ clip_source[k].dts \in Nat /\ clip_source[i].dts \in Nat
    BY <2>1, <2>3, PacketsOf
  <2>5. ~ (k < i)
    BY <2>3, <2>4
  <2>6. ~ (i < k)
    <3>1. i < k => clip_source[i].dts < clip_source[k].dts
      BY <1>1, <2>3 DEF ClipInv, Sorted
    <3> QED BY <2>2, <2>4, <3>1
  <2>7. i = k
    BY <2>4, <2>5, <2>6
  <2> QED BY <2>3, <2>7
<1>2. Inv /\ ClipInv => ClipDecodable
  BY <1>1
<1> QED BY <1>2, AlwaysRing, PTL

-----------------------------------------------------------------------------
SpanOf(s) == s[Len(s)].dts - Head(s).dts

(* Packets that reach back to the start of the session or far enough, and   *)
(* that last no longer than they may when nothing is purged.                *)
Reaches(s) == s # << >> => Head(s).dts = 0 \/ SpanOf(s) > MaxTime - MaxGop

Short(s) == s # << >> => SpanOf(s) <= MaxTime \/ SpanOf(s) <= 2 * MaxGop

WindowInv ==
  /\ ~ToKeyframe => Reaches(InMemory)
  /\ ~Purging => Short(InMemory)
  /\ ToKeyframe => \E k \in KeyPositions(packets) : pkt.dts - packets[k].dts > MaxTime - MaxGop
  /\ Reaches(clip_source)

(* The front of packets that begin with a group is as old as its keyframe.  *)
LEMMA AnchorInFront ==
  ASSUME NEW s \in Seq(Packet), s # << >>, Sorted(s), Anchored(s)
  PROVE  \E k \in KeyPositions(s) : s[k].dts = Head(s).dts
<1>1. PICK k \in KeyPositions(s) : \A i \in DOMAIN s : s[k].dts <= s[i].dts
  BY DEF Anchored
<1>2. k \in DOMAIN s /\ 1 \in DOMAIN s /\ Head(s) = s[1]
  BY TailOf DEF KeyPositions
<1>3. s[k].dts \in Nat /\ s[1].dts \in Nat /\ k \in Nat /\ k >= 1
  BY <1>2, PacketsOf
<1>4. s[1].dts <= s[k].dts
  <2>1. CASE k = 1
    BY <1>3, <2>1
  <2>2. CASE 1 < k
    BY <1>2, <2>2 DEF Sorted
  <2> QED BY <1>3, <2>1, <2>2
<1>5. s[k].dts <= s[1].dts
  BY <1>1, <1>2
<1> QED BY <1>2, <1>3, <1>4, <1>5

(* If they last longer than two groups, a third keyframe lies in between.   *)
LEMMA ThirdKeyframe ==
  ASSUME NEW s \in Seq(Packet), s # << >>, Sorted(s), Grouped(s), Anchored(s), SpanOf(s) > 2 * MaxGop
  PROVE  \E k1, k2, k3 \in KeyPositions(s) \ {Len(s)} : k1 # k2 /\ k1 # k3 /\ k2 # k3
<1> DEFINE l == s[Len(s)].dts
           h == Head(s).dts
           d(i) == s[i].dts
<1>1. Len(s) \in DOMAIN s /\ MaxGop \in Nat /\ l \in Nat /\ l > h + 2 * MaxGop /\ h \in Nat
  <2>1. Len(s) \in DOMAIN s /\ 1 \in DOMAIN s /\ Head(s) = s[1]
    BY TailOf
  <2>2. l \in Nat /\ h \in Nat /\ MaxGop \in Nat
    BY <2>1, PacketsOf, BoundsAssumption
  <2>3. l - h > 2 * MaxGop
    BY DEF SpanOf
  <2> HIDE DEF l, h
  <2> QED BY <2>1, <2>2, <2>3
<1>2. PICK k1 \in KeyPositions(s) : d(k1) = h
  BY AnchorInFront
<1> HIDE DEF h
<1>3. \A k \in KeyPositions(s) : k \in DOMAIN s /\ d(k) \in Nat
  BY PacketsOf DEF KeyPositions
<1>4. l = d(Len(s))
  OBVIOUS
<1>5. \A i \in KeyPositions(s) : l > d(i) + MaxGop =>
        \E k \in KeyPositions(s) : d(i) < d(k) /\ d(k) <= d(i) + MaxGop
  BY <1>1 DEF Grouped, Follows
<1> HIDE DEF l, d
<1>6. PICK k2 \in KeyPositions(s) : d(k1) < d(k2) /\ d(k2) <= d(k1) + MaxGop
  <2>1. l > d(k1) + MaxGop
    BY <1>1, <1>2
  <2> QED BY <1>5, <2>1
<1>7. PICK k3 \in KeyPositions(s) : d(k2) < d(k3) /\ d(k3) <= d(k2) + MaxGop
  <2>1. l > d(k2) + MaxGop
    BY <1>1, <1>2, <1>3, <1>6
  <2> QED BY <1>5, <2>1
<1>8. d(k1) < l /\ d(k2) < l /\ d(k3) < l /\ d(k1) < d(k3)
  BY <1>1, <1>2, <1>3, <1>6, <1>7
<1>9. d(k1) \in Nat /\ d(k2) \in Nat /\ d(k3) \in Nat
  BY <1>3
<1>10. k1 # k2 /\ k2 # k3 /\ k1 # k3
  BY <1>6, <1>7, <1>8, <1>9
<1>11. k1 # Len(s) /\ k2 # Len(s) /\ k3 # Len(s)
  BY <1>1, <1>4, <1>8, <1>9
<1> QED BY <1>10, <1>11

(* A ring of two keyframes or fewer is therefore short. *)
LEMMA FewKeyframesShort ==
  ASSUME Inv, RingInv, Purging, ~ToKeyframe, packets # << >>, keyframes <= 2
  PROVE  SpanOf(InMemory) <= 2 * MaxGop
<1> DEFINE m == InMemory
<1>1. /\ m \in Seq(Packet) /\ m # << >> /\ Len(m) = Len(packets) + 1 /\ packets \in Seq(Packet)
      /\ KeyPositions(m) \subseteq KeyPositions(packets) \cup {Len(m)}
  BY PurgeMemory, InMemoryType
<1>2. Sorted(m) /\ Grouped(m) /\ (Anchored(m) \/ Unbegun(m))
  BY DEF RingInv
<1>3. SpanOf(m) \in Int /\ MaxGop \in Nat /\ (Unbegun(m) => SpanOf(m) = 0)
  <2>1. Len(m) \in DOMAIN m /\ 1 \in DOMAIN m /\ Head(m) = m[1]
    BY <1>1, TailOf
  <2>2. m[Len(m)].dts \in Nat /\ m[1].dts \in Nat
    BY <1>1, <2>1, PacketsOf
  <2> QED BY <2>1, <2>2, BoundsAssumption DEF SpanOf, Unbegun
<1> HIDE DEF m
<1>4. CASE Anchored(m) /\ SpanOf(m) > 2 * MaxGop
  <2>1. PICK k1, k2, k3 \in KeyPositions(packets) : k1 # k2 /\ k1 # k3 /\ k2 # k3
    <3>1. \E k1, k2, k3 \in KeyPositions(m) \ {Len(m)} : k1 # k2 /\ k1 # k3 /\ k2 # k3
      BY <1>1, <1>2, <1>4, ThirdKeyframe
    <3> QED BY <1>1, <3>1
  <2>2. IsFiniteSet(KeyPositions(packets)) /\ Cardinality(KeyPositions(packets)) = keyframes
    <3>1. KeyPositions(packets) = {i \in DOMAIN packets : IsKeyframe(packets[i])}
      BY DEF KeyPositions
    <3>2. IsFiniteSet(DOMAIN packets)
      BY <1>1, PacketsOf, FS_Interval
    <3>3. IsFiniteSet(KeyPositions(packets))
      BY <3>1, <3>2, FS_Subset
    <3> QED BY <3>1, <3>3 DEF Inv, RingCounters
  <2>3. Cardinality({k1, k2, k3}) = 3
    <3> DEFINE one == {k1}
               two == one \cup {k2}
    <3>1. k2 \notin one /\ k3 \notin two /\ two \cup {k3} = {k1, k2, k3}
      BY <2>1
    <3>2. IsFiniteSet(one) /\ Cardinality(one) = 1
      BY FS_Singleton
    <3> HIDE DEF one
    <3>3. IsFiniteSet(two) /\ Cardinality(two) = 1 + 1
      BY <3>1, <3>2, FS_AddElement
    <3> HIDE DEF two
    <3>4. k3 \notin two /\ IsFiniteSet(two)
      BY <3>1, <3>3
    <3>5. Cardinality(two \cup {k3}) = Cardinality(two) + 1
      BY <3>4, FS_AddElement
    <3> QED BY <3>1, <3>3, <3>5
  <2>4. Cardinality({k1, k2, k3}) <= Cardinality(KeyPositions(packets))
    BY <2>2, FS_Subset
  <2>5. keyframes \in Nat
    BY DEF Inv, TypeOK, RingTypeOK
  <2> QED BY <2>2, <2>3, <2>4, <2>5
<1> QED BY <1>2, <1>3, <1>4 DEF m

(* A packet taken leaves the front where it was, and is the first of the    *)
(* session when memory was empty.                                           *)
LEMMA TakesReaches ==
  ASSUME Inv, SessionInv, RingInv, Reaches(InMemory), Takes
  PROVE  Reaches(InMemory')
<1> DEFINE m == InMemory
           p == pkt'
<1>1. m \in Seq(Packet) /\ next \in [Streams -> Nat] /\ base \in Nat /\ gop \in Nat
  BY InMemoryType
<1>2. /\ Sorted(m) /\ Continued(m, next, base, gop) /\ Delivers(p, next, base, gop)
      /\ Anchored(m) \/ (Unbegun(m) /\ next[Video] = base)
      /\ Reaches(m) /\ InMemory' = Append(m, p)
  BY DEF RingInv, Takes
<1> HIDE DEF m, p
<1>3. p \in Packet /\ p.dts \in Nat /\ p.stream \in Streams /\ Video \in Streams
      /\ p.dts + base = next[p.stream] /\ next[p.stream] <= next[Video]
  BY <1>2 DEF Delivers, Packet, Streams
<1> DEFINE a == Append(m, p)
<1>4. a \in Seq(Packet) /\ Len(a) = Len(m) + 1 /\ a[Len(m) + 1] = p /\ a # << >> /\ Head(a) = a[1]
      /\ \A i \in DOMAIN m : a[i] = m[i]
  <2>1. /\ a \in Seq(Packet) /\ Len(a) = Len(m) + 1 /\ a[Len(m) + 1] = p
        /\ \A i \in DOMAIN m : a[i] = m[i]
    BY <1>1, <1>3, AppendedTo
  <2>2. a # << >>
    BY <1>1, <1>3
  <2> HIDE DEF a
  <2> QED BY <2>1, <2>2, TailOf
<1>5. CASE m = << >>
  <2>1. next[Video] = base /\ Len(m) = 0
    BY <1>2, <1>5, EmptyMemory DEF Anchored, KeyPositions
  <2>2. p.dts = 0
    BY <1>1, <1>3, <2>1
  <2> QED BY <1>2, <1>4, <2>1, <2>2 DEF Reaches
<1>6. CASE m # << >>
  <2>1. 1 \in DOMAIN m /\ Head(m) = m[1] /\ Len(m) \in DOMAIN m
    BY <1>1, <1>6, TailOf
  <2>2. m[Len(m)].dts <= p.dts
    BY <1>1, <1>2, <2>1, AppendSorted
  <2>3. Head(a) = Head(m) /\ a[Len(a)] = p
    BY <1>4, <2>1
  <2>4. /\ m[Len(m)].dts \in Nat /\ Head(m).dts \in Nat /\ MaxTime \in Nat /\ MaxGop \in Nat
        /\ Head(m).dts = 0 \/ m[Len(m)].dts - Head(m).dts > MaxTime - MaxGop
    BY <1>1, <1>2, <1>6, <2>1, PacketsOf, BoundsAssumption DEF Reaches, SpanOf
  <2>5. Head(m).dts = 0 \/ p.dts - Head(m).dts > MaxTime - MaxGop
    BY <1>3, <2>2, <2>4
  <2> QED BY <1>2, <2>3, <2>5 DEF Reaches, SpanOf
<1> QED BY <1>5, <1>6

(* As only the duration makes the purge drop a packet, what lies behind the *)
(* dropped group, or behind a dropped packet of the same age, is enough.    *)
LEMMA DropsReaches ==
  ASSUME MaxSize = 0, MaxGop <= MaxTime, Inv, SizeCounter, SessionInv, RingInv, WindowInv, Drops
  PROVE  /\ ~ToKeyframe' => Reaches(InMemory')
         /\ ToKeyframe' => \E k \in KeyPositions(packets') : pkt'.dts - packets'[k].dts > MaxTime - MaxGop
<1> DEFINE m == InMemory
           far(d) == pkt.dts - d > MaxTime - MaxGop
<1>0. MaxTime \in Nat /\ MaxGop \in Nat
  BY BoundsAssumption
<1>1. /\ packets # << >> /\ packets' = Tail(packets) /\ pkt' = pkt /\ Purging /\ Purging' /\ Live
      /\ \/ ToKeyframe /\ data' = data /\ ~IsKeyframe(Head(packets))
         \/ /\ data = "time" /\ TooOld
            /\ data' = IF IsKeyframe(Head(packets)) THEN "time to keyframe" ELSE "time"
  BY DEF Drops, SessionInv, FrontIsKeyframe
<1>2. /\ m \in Seq(Packet) /\ m # << >> /\ Head(m) = Head(packets) /\ m[Len(m)] = pkt
      /\ InMemory' = Tail(m) /\ packets \in Seq(Packet) /\ Len(m) = Len(packets) + 1
      /\ Len(packets) \in Nat /\ pkt.dts \in Nat
      /\ KeyPositions(m) \subseteq KeyPositions(packets) \cup {Len(m)}
      /\ \A k \in KeyPositions(packets) : packets[k] = m[k]
  BY <1>1, PurgeMemory, InMemoryType DEF InMemory, Packet
<1>3. Sorted(m) /\ Grouped(m)
  BY DEF RingInv
<1>4. \A k \in KeyPositions(packets) : k # 1 =>
        k - 1 \in KeyPositions(Tail(packets)) /\ Tail(packets)[k - 1] = packets[k]
  BY <1>1, <1>2, TailOf DEF KeyPositions
<1>5. 1 \in KeyPositions(packets) => IsKeyframe(Head(packets))
  BY <1>1, <1>2, TailOf DEF KeyPositions
<1>6. CASE ToKeyframe /\ data' = data /\ ~IsKeyframe(Head(packets))
  <2>1. PICK k \in KeyPositions(packets) : far(packets[k].dts)
    BY <1>6 DEF WindowInv
  <2>2. k # 1
    BY <1>5, <1>6
  <2> QED BY <1>1, <1>4, <1>6, <2>1, <2>2 DEF ToKeyframe
<1>7. ASSUME data = "time", TooOld
      PROVE  /\ ~ToKeyframe /\ Head(m).dts \in Nat /\ pkt.dts - Head(m).dts > MaxTime
             /\ m[Len(m)].dts > Head(m).dts + MaxGop
  <2>1. max_time = MaxTime /\ cur_time = Head(m).dts
    BY <1>1, <1>2 DEF SessionInv, Inv, RingCounters
  <2>2. Head(m).dts \in Nat
    BY <1>2, TailOf, PacketsOf
  <2>3. pkt.dts - Head(m).dts > MaxTime
    BY <1>7, <2>1 DEF TooOld
  <2>4. pkt.dts > Head(m).dts + MaxGop
    <3> DEFINE h == Head(m).dts
    <3> HIDE DEF h, m
    <3> SUFFICES pkt.dts > h + MaxGop
      BY DEF h
    <3>1. h \in Nat /\ pkt.dts \in Nat /\ pkt.dts - h > MaxTime
      BY <1>2, <2>2, <2>3 DEF h
    <3> QED BY <1>0, <3>1
  <2> QED BY <1>2, <1>7, <2>2, <2>3, <2>4 DEF ToKeyframe
<1> HIDE DEF m
<1>8. CASE data = "time" /\ TooOld /\ IsKeyframe(Head(packets))
  <2>1. PICK k \in KeyPositions(m) : k # 1 /\ k # Len(m) /\ m[k].dts <= Head(m).dts + MaxGop
    BY <1>2, <1>3, <1>7, <1>8, NextKeyframe
  <2>2. k \in KeyPositions(packets) /\ packets[k] = m[k] /\ m[k].dts \in Nat
    <3>1. m[k].dts \in Nat
      BY <1>2, PacketsOf DEF KeyPositions
    <3> QED BY <1>2, <2>1, <3>1
  <2>3. far(packets[k].dts)
    <3> DEFINE e == m[k].dts
               h == Head(m).dts
    <3>1. e \in Nat /\ h \in Nat /\ e <= h + MaxGop /\ pkt.dts - h > MaxTime
      BY <1>7, <1>8, <2>1, <2>2
    <3>2. packets[k].dts = e
      BY <2>2
    <3> HIDE DEF e, h
    <3> QED BY <1>0, <1>2, <3>1, <3>2
  <2> QED BY <1>1, <1>4, <1>8, <2>1, <2>2, <2>3 DEF ToKeyframe
<1>9. CASE data = "time" /\ TooOld /\ ~IsKeyframe(Head(packets))
  <2>1. ~Unbegun(m)
    <3>1. Len(m) \in DOMAIN m /\ 1 \in DOMAIN m /\ Head(m) = m[1]
      BY <1>2, TailOf
    <3>2. m[Len(m)].dts \in Nat /\ m[1].dts \in Nat
      BY <1>2, <3>1, PacketsOf
    <3> QED BY <1>0, <1>7, <1>9, <3>1, <3>2 DEF Unbegun
  <2>2. Anchored(m)
    BY <1>7, <1>9, <2>1 DEF RingInv, m
  <2>3. PICK k \in KeyPositions(m) : m[k].dts = Head(m).dts
    BY <1>2, <1>3, <2>2, AnchorInFront
  <2>4. k # 1 /\ k \in DOMAIN m
    <3>1. 1 \in KeyPositions(m) => IsKeyframe(Head(m))
      BY <1>2, TailOf DEF KeyPositions
    <3> QED BY <1>2, <1>9, <2>3, <3>1 DEF KeyPositions
  <2> DEFINE t == Tail(m)
  <2>5. /\ t \in Seq(Packet) /\ Len(t) = Len(m) - 1 /\ k - 1 \in DOMAIN t
        /\ \A i \in DOMAIN t : i + 1 \in DOMAIN m /\ t[i] = m[i + 1] /\ i \in Nat
    BY <1>2, <2>4, TailOf
  <2>6. t # << >>
    BY <2>5
  <2> HIDE DEF t
  <2>7. Head(t) = t[1] /\ 1 \in DOMAIN t /\ Len(t) \in DOMAIN t
    BY <2>5, <2>6, TailOf
  <2>8. t[Len(t)] = pkt /\ Head(t) = m[2] /\ 2 \in DOMAIN m
    <3>1. t[Len(t)] = m[Len(t) + 1] /\ t[1] = m[1 + 1] /\ 1 + 1 \in DOMAIN m
      BY <2>5, <2>7
    <3>2. Len(t) + 1 = Len(m)
      BY <1>2, <2>5
    <3> QED BY <1>2, <2>7, <3>1, <3>2
  <2>9. Head(t).dts = Head(m).dts
    <3>1. k \in Nat /\ k >= 2 /\ 1 \in DOMAIN m /\ Head(m) = m[1]
      BY <1>2, <2>4, PacketsOf, TailOf
    <3>2. m[1].dts \in Nat /\ m[2].dts \in Nat /\ m[k].dts \in Nat
      BY <1>2, <2>4, <2>8, <3>1, PacketsOf
    <3>3. m[1].dts <= m[2].dts
      BY <1>3, <2>8, <3>1 DEF Sorted
    <3>4. m[2].dts <= m[k].dts
      <4>1. CASE k = 2
        BY <3>2, <4>1
      <4>2. CASE 2 < k
        BY <1>3, <2>4, <2>8, <4>2 DEF Sorted
      <4> QED BY <3>1, <4>1, <4>2
    <3> QED BY <2>3, <2>8, <3>1, <3>2, <3>3, <3>4
  <2>10. Reaches(t)
    <3> DEFINE h == Head(m).dts
    <3>1. h \in Nat /\ pkt.dts - h > MaxTime
      BY <1>7, <1>9
    <3>2. SpanOf(t) = pkt.dts - h
      BY <2>8, <2>9 DEF SpanOf
    <3> HIDE DEF h
    <3>3. pkt.dts - h > MaxTime - MaxGop
      BY <1>0, <1>2, <3>1
    <3> QED BY <3>2, <3>3 DEF Reaches
  <2> QED BY <1>1, <1>2, <1>9, <2>10 DEF ToKeyframe, t
<1> QED BY <1>1, <1>6, <1>8, <1>9

(* What the purge leaves is short, whatever stops it. *)
LEMMA StaysShort ==
  ASSUME Inv, SessionInv, RingInv, Stays, Purging, ~Purging'
  PROVE  Short(InMemory)
<1> DEFINE m == InMemory
<1>1. ~ToKeyframe /\ (TooFewToPurge \/ (data = "time" /\ ~TooOld)) /\ Live
  BY DEF Stays, SessionInv, Live, Purging
<1>2. m \in Seq(Packet) /\ pkt \in Packet /\ packets \in Seq(Packet)
  BY InMemoryType
<1>3. CASE packets = << >>
  <2>1. m = <<pkt>>
    BY <1>2, <1>3 DEF InMemory
  <2>2. Len(m) = 1 /\ Head(m) = pkt /\ m[1] = pkt
    BY <2>1
  <2>3. pkt.dts \in Nat /\ MaxTime \in Nat
    BY <1>2, BoundsAssumption DEF Packet
  <2> HIDE DEF m
  <2>4. SpanOf(m) = pkt.dts - pkt.dts
    BY <2>2 DEF SpanOf
  <2>5. SpanOf(m) <= MaxTime
    BY <2>3, <2>4
  <2> QED BY <2>5 DEF Short, m
<1>4. CASE packets # << >> /\ keyframes <= 2
  BY <1>1, <1>4, FewKeyframesShort DEF Short
<1>5. CASE packets # << >> /\ ~TooOld
  <2>1. max_time = MaxTime /\ cur_time = Head(packets).dts
    BY <1>1, <1>5 DEF SessionInv, Inv, RingCounters
  <2>2. Head(m) = Head(packets) /\ m[Len(m)] = pkt /\ 1 \in DOMAIN m /\ Head(m) = m[1]
    BY <1>1, <1>2, <1>5, PurgeMemory, TailOf DEF Stays
  <2>3. pkt.dts \in Nat /\ Head(m).dts \in Nat /\ MaxTime \in Nat
    BY <1>2, <2>2, PacketsOf, BoundsAssumption DEF Packet
  <2>4. SpanOf(m) = pkt.dts - Head(m).dts /\ ~ (pkt.dts - Head(m).dts > MaxTime)
    BY <1>5, <2>1, <2>2 DEF SpanOf, TooOld
  <2> HIDE DEF m
  <2>5. SpanOf(m) <= MaxTime
    BY <2>3, <2>4
  <2> QED BY <2>5 DEF Short, m
<1> QED BY <1>1, <1>3, <1>4, <1>5 DEF TooFewToPurge

LEMMA WindowInvStep ==
  ASSUME MaxStarts <= 1, MaxSize = 0, MaxGop <= MaxTime,
         Inv, SizeCounter, SessionInv, RingInv, WindowInv, [Next]_vars
  PROVE  WindowInv'
<1>1. Reaches(clip_source')
  <2>1. CASE clip_source' \in {clip_source, << >>}
    BY <2>1 DEF WindowInv, Reaches
  <2>2. CASE data = "save" /\ clip_source' = packets
    <3>1. InMemory = packets /\ ~ToKeyframe
      BY <2>2 DEF InMemory, ToKeyframe, Purging
    <3> QED BY <2>2, <3>1 DEF WindowInv
  <2> QED BY <2>1, <2>2, ClipMoves
<1>2. /\ ~ToKeyframe' => Reaches(InMemory')
      /\ ~Purging' => Short(InMemory')
      /\ ToKeyframe' => \E k \in KeyPositions(packets') : pkt'.dts - packets'[k].dts > MaxTime - MaxGop
  <2>1. CASE Stays
    <3>1. InMemory' = InMemory /\ (ToKeyframe' => ToKeyframe /\ packets' = packets /\ pkt' = pkt)
      BY <2>1 DEF Stays
    <3>2. ASSUME ~Purging' PROVE Short(InMemory)
      BY <2>1, <3>2, StaysShort DEF WindowInv
    <3>3. ASSUME ~ToKeyframe' PROVE Reaches(InMemory)
      <4>1. CASE ToKeyframe
        <5>1. PICK k \in KeyPositions(packets) : pkt.dts - packets[k].dts > MaxTime - MaxGop
          BY <4>1 DEF WindowInv
        <5>2. packets # << >> /\ Purging
          <6>1. packets # << >>
            BY <5>1 DEF KeyPositions
          <6> QED BY <4>1, <6>1 DEF ToKeyframe, Purging
        <5>3. /\ IsKeyframe(Head(packets)) /\ InMemory # << >> /\ Head(InMemory) = Head(packets)
              /\ InMemory[Len(InMemory)] = pkt
              /\ k \in KeyPositions(InMemory) /\ packets[k] = InMemory[k]
          BY <2>1, <3>3, <4>1, <5>2, PurgeMemory DEF Stays, FrontIsKeyframe
        <5> DEFINE m == InMemory
        <5>4. m \in Seq(Packet) /\ Sorted(m) /\ pkt \in Packet
          BY InMemoryType DEF RingInv
        <5> HIDE DEF m
        <5>5. 1 \in DOMAIN m /\ Head(m) = m[1] /\ k \in DOMAIN m
          BY <5>3, <5>4, TailOf DEF KeyPositions, m
        <5>6. m[1].dts <= m[k].dts /\ m[1].dts \in Nat /\ m[k].dts \in Nat
          <6>1. m[1].dts \in Nat /\ m[k].dts \in Nat /\ k \in 1 .. Len(m)
            BY <5>4, <5>5, PacketsOf
          <6>2. CASE k = 1
            BY <6>1, <6>2
          <6>3. CASE 1 < k
            BY <5>4, <5>5, <6>1, <6>3 DEF Sorted
          <6> QED BY <6>1, <6>2, <6>3
        <5>7. SpanOf(m) = pkt.dts - m[1].dts /\ pkt.dts - m[k].dts > MaxTime - MaxGop
          BY <5>1, <5>3, <5>5 DEF SpanOf, m
        <5>8. SpanOf(m) > MaxTime - MaxGop
          <6> DEFINE e == m[k].dts
                     h == m[1].dts
          <6>1. e \in Nat /\ h \in Nat /\ h <= e /\ pkt.dts \in Nat /\ MaxTime \in Nat /\ MaxGop \in Nat
                /\ SpanOf(m) = pkt.dts - h /\ pkt.dts - e > MaxTime - MaxGop
            BY <5>4, <5>6, <5>7, BoundsAssumption DEF Packet
          <6> HIDE DEF e, h
          <6> QED BY <6>1
        <5> QED BY <5>8 DEF Reaches, m
      <4> QED BY <4>1 DEF WindowInv
    <3> QED BY <3>1, <3>2, <3>3 DEF WindowInv
  <2>2. CASE Takes
    BY <2>2, TakesReaches DEF Takes, WindowInv
  <2>3. CASE Misses
    BY <2>3 DEF Misses, WindowInv
  <2>4. CASE Drops
    BY <2>4, DropsReaches DEF Drops
  <2>5. CASE Clears \/ Begins
    BY <2>5 DEF Clears, Begins, Reaches, Short
  <2> QED BY <2>1, <2>2, <2>3, <2>4, <2>5, MemoryMoves
<1> QED BY <1>1, <1>2 DEF WindowInv

(* While only the duration limits the ring, a clip that                     *)
(* replay_buffer_save() takes reaches back over MaxTime less a group of     *)
(* pictures, or to the start of the session, and between two packets the    *)
(* ring lasts no longer than MaxTime or two groups: if an output is started *)
(* once and keyframes are no farther apart than the window is long.         *)
THEOREM WindowKept ==
  ASSUME MaxStarts <= 1, MaxSize = 0, MaxGop <= MaxTime
  PROVE  Spec => []RingKeepsWindow
<1>1. Init => WindowInv
  <2> SUFFICES ASSUME Init PROVE WindowInv
    OBVIOUS
  <2>1. InMemory = << >> /\ ~ToKeyframe /\ clip_source = << >>
    BY DEF Init, InMemory, ToKeyframe, Purging
  <2> QED BY <2>1 DEF WindowInv, Reaches, Short
<1>2. Inv /\ SizeCounter /\ SessionInv /\ RingInv /\ WindowInv /\ [Next]_vars => WindowInv'
  BY WindowInvStep
<1>3. Inv /\ WindowInv => RingKeepsWindow
  <2> SUFFICES ASSUME Inv, WindowInv PROVE RingKeepsWindow
    OBVIOUS
  <2>1. ASSUME data = "idle", packets # << >>
        PROVE  LET span == packets[Len(packets)].dts - cur_time
               IN span <= MaxTime \/ span <= 2 * MaxGop
    <3>1. InMemory = packets /\ ~Purging /\ cur_time = Head(packets).dts
      BY <2>1 DEF InMemory, Purging, Inv, RingCounters
    <3> QED BY <2>1, <3>1 DEF WindowInv, Short, SpanOf
  <2>2. Reaches(clip_source)
    BY DEF WindowInv
  <2> QED BY <2>1, <2>2 DEF RingKeepsWindow, Reaches, SpanOf
<1>4. GroupsKept
  BY DEF GroupsKept
<1> QED BY <1>1, <1>2, <1>3, <1>4, AlwaysRing, PTL DEF Spec

-----------------------------------------------------------------------------
(* Of a packet and one that comes later, the later is at most one timestamp *)
(* ahead, or its stream had another packet in between.                      *)
Dense(s) ==
  \A i, j \in DOMAIN s : s[j].dts > s[i].dts + 1 =>
    \E k \in DOMAIN s : i <= k /\ k < j /\ s[k].stream = s[j].stream

(* A stream that is due later than that had a packet after that packet. *)
Reaching(s, nxt, start) ==
  \A i \in DOMAIN s, t \in Streams : nxt[t] > s[i].dts + start + 1 =>
    \E k \in DOMAIN s : i <= k /\ s[k].stream = t

LEMMA LockstepGap ==
  ASSUME TypeOK, Lockstep
  PROVE  \A s, t \in Streams : next[s] <= next[t] + 1
<1>1. PICK u \in Streams : \A s \in Streams : next[s] = next[u] \/ next[s] = next[u] + 1
  BY DEF Lockstep
<1>2. \A s \in Streams : next[s] \in Nat
  BY DEF TypeOK, DataTypeOK
<1> SUFFICES ASSUME NEW s \in Streams, NEW t \in Streams PROVE next[s] <= next[t] + 1
  OBVIOUS
<1>3. /\ next[s] = next[u] \/ next[s] = next[u] + 1
      /\ next[t] = next[u] \/ next[t] = next[u] + 1
  BY <1>1
<1>4. next[s] \in Nat /\ next[t] \in Nat /\ next[u] \in Nat
  BY <1>2
<1> QED BY <1>3, <1>4

LEMMA AppendDense ==
  ASSUME NEW s \in Seq(Packet), NEW p, NEW nxt \in [Streams -> Nat], NEW start \in Nat, NEW n \in Nat,
         Sorted(s), Continued(s, nxt, start, n), Delivers(p, nxt, start, n),
         Dense(s), Reaching(s, nxt, start), \A t, u \in Streams : nxt[t] <= nxt[u] + 1
  PROVE  /\ Dense(Append(s, p))
         /\ Reaching(Append(s, p), [nxt EXCEPT ![p.stream] = @ + 1], start)
<1> DEFINE a == Append(s, p)
           l == Len(s) + 1
           then == [nxt EXCEPT ![p.stream] = @ + 1]
<1>1. /\ p \in Packet /\ p.dts \in Nat /\ p.stream \in Streams
      /\ p.dts + start = nxt[p.stream]
  BY DEF Delivers, Packet
<1>2. \A i \in DOMAIN s : s[i].dts <= p.dts /\ s[i].dts \in Nat /\ i \in Nat
  BY AppendSorted, PacketsOf
<1>3. /\ a[l] = p /\ \A i \in DOMAIN s : a[i] = s[i] /\ i \in DOMAIN a /\ i < l
      /\ \A i \in DOMAIN a : i \in DOMAIN s \/ i = l
      /\ l \in DOMAIN a /\ l \in Nat
  BY <1>1, AppendedTo, PacketsOf
<1>4. \A t \in Streams : /\ then[t] \in Nat /\ nxt[t] \in Nat
                         /\ then[t] = IF t = p.stream THEN nxt[t] + 1 ELSE nxt[t]
  BY <1>1
<1> HIDE DEF a, l, then
<1>5. ASSUME NEW i \in DOMAIN a, NEW j \in DOMAIN a, a[j].dts > a[i].dts + 1
      PROVE  \E k \in DOMAIN a : i <= k /\ k < j /\ a[k].stream = a[j].stream
  <2>1. i # l
    <3>1. a[j].dts <= p.dts /\ a[j].dts \in Nat
      BY <1>1, <1>2, <1>3
    <3> QED BY <1>1, <1>3, <1>5, <3>1
  <2>2. i \in DOMAIN s /\ a[i] = s[i]
    BY <1>3, <2>1
  <2>3. CASE j \in DOMAIN s
    <3>1. PICK k \in DOMAIN s : i <= k /\ k < j /\ s[k].stream = s[j].stream
      BY <1>3, <1>5, <2>2, <2>3 DEF Dense
    <3> QED BY <1>3, <2>3, <3>1
  <2>4. CASE j = l
    <3>1. nxt[p.stream] > s[i].dts + start + 1
      <4>1. p.dts > s[i].dts + 1 /\ s[i].dts \in Nat
        BY <1>2, <1>3, <1>5, <2>2, <2>4
      <4> QED BY <1>1, <4>1
    <3>2. PICK k \in DOMAIN s : i <= k /\ s[k].stream = p.stream
      BY <1>1, <2>2, <3>1 DEF Reaching
    <3> QED BY <1>3, <2>4, <3>2
  <2> QED BY <1>3, <2>3, <2>4
<1>6. ASSUME NEW i \in DOMAIN a, NEW t \in Streams, then[t] > a[i].dts + start + 1
      PROVE  \E k \in DOMAIN a : i <= k /\ a[k].stream = t
  <2>1. CASE i = l
    <3>1. then[t] > nxt[p.stream] + 1
      <4>1. a[i].dts + start = nxt[p.stream]
        BY <1>1, <1>3, <2>1
      <4> QED BY <1>6, <4>1
    <3>2. nxt[t] <= nxt[p.stream] + 1 /\ nxt[p.stream] \in Nat
      BY <1>1, <1>4
    <3>3. t = p.stream => then[t] = nxt[p.stream] + 1
      BY <1>4
    <3>4. t # p.stream => then[t] = nxt[t]
      BY <1>4
    <3> QED BY <1>4, <3>1, <3>2, <3>3, <3>4
  <2>2. CASE i # l /\ t = p.stream
    BY <1>2, <1>3, <2>2
  <2>3. CASE i # l /\ t # p.stream
    <3>1. i \in DOMAIN s /\ a[i] = s[i] /\ then[t] = nxt[t]
      BY <1>3, <1>4, <2>3
    <3>2. PICK k \in DOMAIN s : i <= k /\ s[k].stream = t
      BY <1>6, <3>1 DEF Reaching
    <3> QED BY <1>3, <3>2
  <2> QED BY <2>1, <2>2, <2>3
<1>7. Dense(a)
  BY <1>5 DEF Dense
<1>8. Reaching(a, then, start)
  BY <1>6 DEF Reaching
<1> QED BY <1>7, <1>8 DEF a, then

LEMMA TailDense ==
  ASSUME NEW s \in Seq(Packet), s # << >>, Dense(s)
  PROVE  Dense(Tail(s))
<1> DEFINE t == Tail(s)
<1>1. /\ \A i \in DOMAIN t : i + 1 \in DOMAIN s /\ t[i] = s[i + 1] /\ i \in Nat /\ 1 <= i
      /\ \A i \in DOMAIN s : i \in Nat /\ (i # 1 => i - 1 \in DOMAIN t /\ t[i - 1] = s[i])
  <2>1. t \in Seq(Packet)
    BY TailOf
  <2>2. DOMAIN t = 1 .. Len(t) /\ Len(t) \in Nat
    BY <2>1, PacketsOf
  <2>3. \A i \in DOMAIN t : i + 1 \in DOMAIN s /\ t[i] = s[i + 1]
    BY TailOf
  <2>4. \A i \in DOMAIN s : i \in Nat /\ (i # 1 => i - 1 \in DOMAIN t /\ t[i - 1] = s[i])
    BY TailOf, PacketsOf
  <2> HIDE DEF t
  <2> QED BY <2>2, <2>3, <2>4
<1> HIDE DEF t
<1>2. ASSUME NEW i \in DOMAIN t, NEW j \in DOMAIN t, t[j].dts > t[i].dts + 1
      PROVE  \E k \in DOMAIN t : i <= k /\ k < j /\ t[k].stream = t[j].stream
  <2>1. PICK k \in DOMAIN s : i + 1 <= k /\ k < j + 1 /\ s[k].stream = s[j + 1].stream
    BY <1>1, <1>2 DEF Dense
  <2>2. k \in Nat /\ i \in Nat /\ j \in Nat /\ 1 <= i /\ k # 1
    BY <1>1, <2>1
  <2>3. k - 1 \in DOMAIN t /\ t[k - 1] = s[k] /\ t[j] = s[j + 1]
    BY <1>1, <2>2
  <2>4. i <= k - 1 /\ k - 1 < j
    BY <2>1, <2>2
  <2> QED BY <2>1, <2>3, <2>4
<1> QED BY <1>2 DEF Dense, t

LEMMA TailReaching ==
  ASSUME NEW s \in Seq(Packet), s # << >>, NEW nxt, NEW start, Reaching(s, nxt, start)
  PROVE  Reaching(Tail(s), nxt, start)
<1> DEFINE t == Tail(s)
<1>1. t \in Seq(Packet) /\ \A i \in DOMAIN t : i + 1 \in DOMAIN s /\ t[i] = s[i + 1]
  BY TailOf
<1>2. \A i \in DOMAIN s : i \in Nat /\ (i # 1 => i - 1 \in DOMAIN t /\ t[i - 1] = s[i])
  BY TailOf, PacketsOf
<1> HIDE DEF t
<1>3. \A i \in DOMAIN t : i \in Nat /\ 1 <= i
  BY <1>1, PacketsOf
<1>4. ASSUME NEW i \in DOMAIN t, NEW u \in Streams, nxt[u] > t[i].dts + start + 1
      PROVE  \E k \in DOMAIN t : i <= k /\ t[k].stream = u
  <2>1. PICK k \in DOMAIN s : i + 1 <= k /\ s[k].stream = u
    BY <1>1, <1>4 DEF Reaching
  <2>2. k \in Nat /\ i \in Nat /\ 1 <= i /\ k # 1
    BY <1>2, <1>3, <2>1
  <2> QED BY <1>2, <2>1, <2>2
<1> QED BY <1>4 DEF Reaching, t

-----------------------------------------------------------------------------
(* What is in memory is in the interleaver's order, and so is a clip; the   *)
(* list of the mux thread is made of the clip only.                         *)
OrderInv ==
  /\ Sorted(InMemory) /\ Dense(InMemory)
  /\ Live => Continued(InMemory, next, base, gop) /\ Reaching(InMemory, next, base)
  /\ Sorted(clip_source) /\ Dense(clip_source)
  /\ mux_packets # << >> => mux_packets = Clip(<< >>, clip_source)

LEMMA EmptyDense == \A nxt, start : Dense(<< >>) /\ Reaching(<< >>, nxt, start)
<1>1. DOMAIN << >> = {}
  OBVIOUS
<1> QED BY <1>1 DEF Dense, Reaching

LEMMA MemoryOrderStep ==
  ASSUME MaxStarts <= 1, Inv, SessionInv, OrderInv, [Next]_vars
  PROVE  /\ Sorted(InMemory)' /\ Dense(InMemory)'
         /\ Live' => Continued(InMemory, next, base, gop)' /\ Reaching(InMemory, next, base)'
<1> DEFINE m == InMemory
<1>1. CASE Stays
  <2>1. InMemory' = InMemory /\ next' = next /\ base' = base /\ gop' = gop /\ (Live' => Live)
    BY <1>1 DEF Stays
  <2> QED BY <2>1 DEF OrderInv
<1>2. CASE Takes
  <2>1. /\ m \in Seq(Packet) /\ next \in [Streams -> Nat] /\ base \in Nat /\ gop \in Nat
        /\ gop <= MaxGop
    BY InMemoryType DEF SessionInv
  <2>2. /\ Sorted(m) /\ Dense(m) /\ Continued(m, next, base, gop) /\ Reaching(m, next, base)
        /\ Delivers(pkt', next, base, gop)
    BY <1>2 DEF OrderInv, Takes
  <2>3. /\ InMemory' = Append(m, pkt') /\ base' = base /\ gop' = Since(pkt', gop)
        /\ next' = [next EXCEPT ![pkt'.stream] = @ + 1]
    BY <1>2 DEF Takes
  <2>4. \A t, u \in Streams : next[t] <= next[u] + 1
    BY LockstepGap DEF Inv
  <2> HIDE DEF m
  <2>5. Sorted(Append(m, pkt')) /\ Continued(Append(m, pkt'), next', base, gop')
    BY <2>1, <2>2, <2>3, AppendSorted, AppendContinued
  <2>6. Dense(Append(m, pkt')) /\ Reaching(Append(m, pkt'), next', base)
    BY <2>1, <2>2, <2>3, <2>4, AppendDense
  <2> QED BY <2>3, <2>5, <2>6
<1>3. CASE Misses
  BY <1>3 DEF Misses, OrderInv
<1>4. CASE Drops
  <2>1. /\ packets # << >> /\ packets' = Tail(packets) /\ UNCHANGED <<pkt, next, base, gop>>
        /\ Purging /\ Purging' /\ Live
    BY <1>4 DEF Drops
  <2>2. /\ InMemory' = Tail(m) /\ m # << >> /\ m \in Seq(Packet)
    BY <2>1, PurgeMemory, InMemoryType DEF InMemory
  <2>3. Sorted(m) /\ Dense(m) /\ Continued(m, next, base, gop) /\ Reaching(m, next, base)
    BY <2>1 DEF OrderInv
  <2> HIDE DEF m
  <2>4. /\ Sorted(Tail(m)) /\ Continued(Tail(m), next, base, gop)
        /\ Dense(Tail(m)) /\ Reaching(Tail(m), next, base)
    BY <2>2, <2>3, TailSorted, TailContinued, TailDense, TailReaching
  <2> QED BY <2>1, <2>2, <2>4
<1>5. CASE Clears
  BY <1>5, EmptyMemory, EmptyDense DEF Clears
<1>6. CASE Begins
  BY <1>6, EmptyMemory, EmptyDense DEF Begins
<1> QED BY <1>1, <1>2, <1>3, <1>4, <1>5, <1>6, MemoryMoves

(* The list and the record of what it was made from change together. *)
LEMMA ListOfClip ==
  ASSUME ~ThreadMayFail, Inv, [Next]_vars
  PROVE  \/ UNCHANGED <<mux_packets, clip_source>>
         \/ mux_packets' = << >> /\ clip_source' \in {clip_source, << >>}
         \/ /\ data = "save" /\ clip_source' = packets
            /\ mux_packets = << >> /\ mux_packets' = Clip(<< >>, packets)
<1> USE DEF ring, limits, flags, save, dataThread, muxThread, output, encoders, frontend
<1>1. CASE UiNext
  BY <1>1 DEF UiNext, StartReplayBuffer, StopReplayBuffer, SaveReplay, SaveHotkey, Shutdown,
              Destroy, DestroyJoin
<1>2. CASE EncoderNext
  <2>1. CASE DeliverPacket
    BY <2>1, DeliverLeaves
  <2>2. CASE EncoderFails \/ DeliverError
    BY <2>2 DEF EncoderFails, DeliverError
  <2> QED BY <1>2, <2>1, <2>2 DEF EncoderNext
<1>3. CASE DataNext
  <2>1. CASE Save
    <3>1. data = "save" /\ clip_source' = packets /\ mux_packets' = Clip(mux_packets, packets)
      BY <2>1 DEF Save
    <3>2. mux_packets = << >>
      BY <3>1 DEF Inv, DataInv, MuxInv
    <3> QED BY <3>1, <3>2
  <2>2. CASE ~Save
    BY <1>3, <2>2 DEF DataNext, EndCapture, Deactivate, Purge, PurgeForSize, PurgeForTime,
                      PurgeToKeyframe, Push, Join
  <2> QED BY <2>1, <2>2
<1>4. CASE MuxNext
  <2>1. CASE MuxFree
    BY <2>1 DEF MuxFree, ForgetClip
  <2>2. CASE MuxSignalSaved
    <3>1. mux_packets = << >>
      BY <2>2 DEF MuxSignalSaved, Inv, MuxInv
    <3> QED BY <2>2, <3>1 DEF MuxSignalSaved, ForgetClip
  <2>3. CASE ~MuxFree /\ ~MuxSignalSaved
    BY <1>4, <2>3 DEF MuxNext, MuxOpen, MuxWrite, MuxFail, MuxFailEnd, MuxFailStopping,
                      MuxFailSignal, MuxFailCapturing
  <2> QED BY <2>1, <2>2, <2>3
<1>5. CASE EndThread
  BY <1>5 DEF EndThread
<1>6. CASE UNCHANGED vars
  BY <1>6 DEF vars
<1> QED BY <1>1, <1>2, <1>3, <1>4, <1>5, <1>6 DEF Next

LEMMA OrderStep ==
  ASSUME MaxStarts <= 1, ~ThreadMayFail, Inv, SessionInv, OrderInv, [Next]_vars
  PROVE  OrderInv'
<1>1. /\ Sorted(clip_source') /\ Dense(clip_source')
      /\ mux_packets' # << >> => mux_packets' = Clip(<< >>, clip_source')
  <2>1. CASE UNCHANGED <<mux_packets, clip_source>>
    BY <2>1 DEF OrderInv
  <2>2. CASE mux_packets' = << >> /\ clip_source' \in {clip_source, << >>}
    BY <2>2, EmptyMemory, EmptyDense DEF OrderInv
  <2>3. CASE /\ data = "save" /\ clip_source' = packets
             /\ mux_packets = << >> /\ mux_packets' = Clip(<< >>, packets)
    <3>1. InMemory = packets
      BY <2>3 DEF InMemory, Purging
    <3> QED BY <2>3, <3>1 DEF OrderInv
  <2> QED BY <2>1, <2>2, <2>3, ListOfClip
<1>2. /\ Sorted(InMemory)' /\ Dense(InMemory)'
      /\ Live' => Continued(InMemory, next, base, gop)' /\ Reaching(InMemory, next, base)'
  BY MemoryOrderStep
<1> QED BY <1>1, <1>2 DEF OrderInv

-----------------------------------------------------------------------------
(* The k-th packet of the list was the from[k]-th of the ring. *)
Keeps(from, n, seq, clip) ==
  /\ \A k \in 1 .. n : clip[k].stream = seq[from[k]].stream
  /\ \A k, l \in 1 .. n : clip[k].stream = clip[l].stream => (l <= k <=> from[l] <= from[k])

(* A permutation that keeps the order within every stream keeps which       *)
(* packet of its stream a packet is.                                        *)
LEMMA InStreamKept ==
  ASSUME NEW n \in Nat, NEW seq, NEW clip, NEW from \in Bijection(1 .. n, 1 .. n),
         Keeps(from, n, seq, clip), NEW k \in 1 .. n
  PROVE  InStream(clip, k) = InStream(seq, from[k])
<1> DEFINE i == from[k]
           S == {l \in 1 .. k : clip[l].stream = clip[k].stream}
           T == {j \in 1 .. i : seq[j].stream = seq[i].stream}
           f == [l \in S |-> from[l]]
<1>1. /\ \A l \in 1 .. n : from[l] \in 1 .. n
      /\ \A l, m \in 1 .. n : from[l] = from[m] => l = m
      /\ \A j \in 1 .. n : \E l \in 1 .. n : from[l] = j
  BY DEF Bijection, Injection, IsInjective, Surjection
<1>0. /\ \A l \in 1 .. n : clip[l].stream = seq[from[l]].stream
      /\ \A l \in 1 .. n : clip[k].stream = clip[l].stream => (l <= k <=> from[l] <= from[k])
  BY DEF Keeps
<1>2. \A l \in S : l \in 1 .. n /\ l <= k /\ clip[l].stream = clip[k].stream
  OBVIOUS
<1>3. \A l \in 1 .. n : l <= k /\ clip[l].stream = clip[k].stream => l \in S
  OBVIOUS
<1>4. \A j \in T : j \in 1 .. n /\ j <= i /\ seq[j].stream = seq[i].stream
  BY <1>1
<1>5. \A j \in 1 .. n : j <= i /\ seq[j].stream = seq[i].stream => j \in T
  BY <1>1
<1>6. IsFiniteSet(S)
  <2>1. S \subseteq 1 .. k /\ IsFiniteSet(1 .. k)
    BY FS_Interval
  <2> QED BY <2>1, FS_Subset
<1>7. clip[k].stream = seq[i].stream /\ i \in 1 .. n
  BY <1>0, <1>1
<1>8. InStream(clip, k) = Cardinality(S) /\ InStream(seq, from[k]) = Cardinality(T)
  BY DEF InStream
<1> HIDE DEF S, T
<1>9. \A l \in S : from[l] \in T
  BY <1>0, <1>1, <1>2, <1>5, <1>7
<1>10. \A j \in T : \E l \in S : from[l] = j
  <2> TAKE j \in T
  <2>1. PICK l \in 1 .. n : from[l] = j
    BY <1>1, <1>4
  <2>2. clip[l].stream = clip[k].stream /\ from[l] <= from[k]
    BY <1>0, <1>4, <1>7, <2>1
  <2> QED BY <1>0, <1>3, <2>1, <2>2
<1>11. f \in Bijection(S, T)
  <2>1. f \in [S -> T] /\ \A l \in S : f[l] = from[l]
    BY <1>9
  <2>2. \A l, m \in S : f[l] = f[m] => l = m
    BY <1>1, <1>2, <2>1
  <2> HIDE DEF f
  <2> QED BY <1>10, <2>1, <2>2 DEF Bijection, Injection, IsInjective, Surjection
<1>12. Cardinality(T) = Cardinality(S)
  BY <1>6, <1>11, FS_Bijection DEF ExistsBijection
<1> QED BY <1>8, <1>12

(* Sorting the rebased clip moves no packet before another of its stream. *)
LEMMA ClipKeepsStreams ==
  ASSUME NEW seq \in Seq(Packet), Sorted(seq)
  PROVE  LET clip == Clip(<< >>, seq) IN
         /\ Len(clip) = Len(seq)
         /\ \A k \in 1 .. Len(clip) - 1 : clip[k].dts <= clip[k + 1].dts
         /\ \A i \in DOMAIN seq : \E k \in DOMAIN clip :
              clip[k] = Rebase(seq, seq[i]) /\ InStream(clip, k) = InStream(seq, i)
<1> DEFINE clip == Clip(<< >>, seq)
           n == Len(seq)
           D == 1 .. n
<1>1. /\ clip \in Seq(ClipPacket) /\ Len(clip) = n /\ n \in Nat
      /\ DOMAIN seq = D /\ DOMAIN clip = D
      /\ \E from \in Bijection(D, D) : \A k \in D : clip[k] = Rebased(<< >>, seq)[from[k]]
      /\ \A k, l \in D : k < l => clip[k].dts <= clip[l].dts
  <2>1. << >> \in Seq(ClipPacket) /\ Len(<< >>) = 0 /\ n \in Nat /\ 0 + n = n /\ DOMAIN seq = D
    BY EmptySeq, PacketsOf
  <2>2. /\ clip \in Seq(ClipPacket) /\ Len(clip) = 0 + n
        /\ \E from \in Bijection(1 .. Len(clip), 1 .. Len(clip)) :
             \A k \in 1 .. Len(clip) : clip[k] = Rebased(<< >>, seq)[from[k]]
        /\ \A k, l \in 1 .. Len(clip) : k < l => clip[k].dts <= clip[l].dts
    BY <2>1, ClipSortsRing
  <2> HIDE DEF clip
  <2>3. DOMAIN clip = 1 .. Len(clip)
    BY <2>2, LenProperties
  <2> QED BY <2>1, <2>2, <2>3
<1> HIDE DEF clip
<1>2. PICK from \in Bijection(D, D) : \A k \in D : clip[k] = Rebased(<< >>, seq)[from[k]]
  BY <1>1
<1>3. /\ \A l \in D : from[l] \in D
      /\ \A l, m \in D : from[l] = from[m] => l = m
      /\ \A j \in D : \E l \in D : from[l] = j
  BY DEF Bijection, Injection, IsInjective, Surjection
<1>4. \A i \in D : Rebased(<< >>, seq)[i] = Rebase(seq, seq[i])
  <2>1. << >> \in Seq(ClipPacket) /\ Len(<< >>) = 0
    BY EmptySeq
  <2>2. \A i \in 1 .. Len(seq) : Rebased(<< >>, seq)[Len(<< >>) + i] = Rebase(seq, seq[i])
    BY <2>1, RebasedAt
  <2> TAKE i \in D
  <2>3. Rebased(<< >>, seq)[0 + i] = Rebase(seq, seq[i]) /\ i \in Nat
    BY <2>1, <2>2
  <2>4. 0 + i = i
    BY <2>3
  <2> QED BY <2>3, <2>4
<1>5. \A k \in D : clip[k] = Rebase(seq, seq[from[k]])
  BY <1>2, <1>3, <1>4
<1>6. ASSUME NEW k \in D
      PROVE  /\ clip[k].stream = seq[from[k]].stream
             /\ clip[k].dts = seq[from[k]].dts - Offset(seq, seq[from[k]].stream)
             /\ Offset(seq, seq[from[k]].stream) \in Int /\ seq[from[k]].dts \in Nat
  <2>1. from[k] \in DOMAIN seq
    BY <1>1, <1>3
  <2>2. seq[from[k]] \in Packet /\ seq[from[k]].dts \in Nat
    BY <2>1, PacketsOf
  <2>3. Offset(seq, seq[from[k]].stream) \in Int
    BY <2>1, FirstOfType
  <2>4. clip[k] = [seq[from[k]] EXCEPT !.dts = @ - Offset(seq, seq[from[k]].stream)]
    BY <1>5 DEF Rebase
  <2> QED BY <2>2, <2>3, <2>4 DEF Packet
<1>7. ASSUME NEW k \in D, NEW l \in D, clip[k].stream = clip[l].stream, k < l
      PROVE  from[k] < from[l]
  <2>1. from[k] # from[l] /\ from[k] \in D /\ from[l] \in D /\ from[k] \in Nat /\ from[l] \in Nat
    <3>1. from[k] \in D /\ from[l] \in D
      BY <1>3
    <3>2. from[k] # from[l]
      BY <1>3, <1>7
    <3> QED BY <3>1, <3>2
  <2>2. ~ (from[l] < from[k])
    <3> SUFFICES ASSUME from[l] < from[k] PROVE FALSE
      OBVIOUS
    <3>1. seq[from[l]].dts < seq[from[k]].dts
      BY <1>1, <1>6, <1>7, <2>1 DEF Sorted
    <3>2. clip[k].dts <= clip[l].dts
      BY <1>1, <1>7
    <3>3. seq[from[k]].stream = seq[from[l]].stream
      BY <1>6, <1>7
    <3> DEFINE o == Offset(seq, seq[from[k]].stream)
    <3>4. /\ clip[k].dts = seq[from[k]].dts - o /\ clip[l].dts = seq[from[l]].dts - o
          /\ o \in Int /\ seq[from[k]].dts \in Nat /\ seq[from[l]].dts \in Nat
      BY <1>6, <3>3
    <3> HIDE DEF o
    <3> QED BY <3>1, <3>2, <3>4
  <2> QED BY <2>1, <2>2
<1>8. \A k, l \in D : clip[k].stream = clip[l].stream => (l <= k <=> from[l] <= from[k])
  <2> TAKE k, l \in D
  <2> HAVE clip[k].stream = clip[l].stream
  <2>1. from[k] \in Nat /\ from[l] \in Nat /\ k \in Nat /\ l \in Nat
    <3>1. from[k] \in D /\ from[l] \in D /\ k \in D /\ l \in D
      BY <1>3
    <3> QED BY <3>1
  <2>2. (k < l => from[k] < from[l]) /\ (l < k => from[l] < from[k])
    BY <1>7
  <2>3. k = l => from[k] = from[l]
    OBVIOUS
  <2> QED BY <2>1, <2>2, <2>3
<1>9. ASSUME NEW i \in D
      PROVE  \E k \in D : clip[k] = Rebase(seq, seq[i]) /\ InStream(clip, k) = InStream(seq, i)
  <2>1. PICK k \in D : from[k] = i
    BY <1>3
  <2>2. \A l \in D : clip[l].stream = seq[from[l]].stream
    BY <1>6
  <2>3. InStream(clip, k) = InStream(seq, from[k])
    <3>1. n \in Nat /\ from \in Bijection(1 .. n, 1 .. n) /\ k \in 1 .. n
      BY <1>1
    <3>2. Keeps(from, n, seq, clip)
      BY <1>8, <2>2 DEF Keeps
    <3> HIDE DEF n
    <3> QED BY <3>1, <3>2, InStreamKept
  <2> QED BY <1>5, <2>1, <2>3
<1>10. \A k \in 1 .. n - 1 : clip[k].dts <= clip[k + 1].dts
  <2> TAKE k \in 1 .. n - 1
  <2>1. k \in D /\ k + 1 \in D /\ k < k + 1
    BY <1>1
  <2> QED BY <1>1, <2>1
<1> QED BY <1>1, <1>9, <1>10 DEF clip

(* The first packet of a stream is at most one timestamp behind the first   *)
(* of all.                                                                  *)
LEMMA FirstClose ==
  ASSUME NEW seq \in Seq(Packet), Sorted(seq), Dense(seq), NEW n \in DOMAIN seq
  PROVE  /\ FirstOf(seq, seq[n].stream).stream = seq[n].stream
         /\ FirstOf(seq, seq[n].stream).dts \in Nat
         /\ seq[1].dts \in Nat /\ seq[1].dts <= FirstOf(seq, seq[n].stream).dts
         /\ FirstOf(seq, seq[n].stream).dts <= seq[1].dts + 1
<1> DEFINE s == seq[n].stream
           T == {i \in DOMAIN seq : seq[i].stream = s}
           IsFirst(i) == seq[i].stream = s /\ \A j \in 1 .. i - 1 : seq[j].stream # s
           f == CHOOSE i \in DOMAIN seq : IsFirst(i)
<1>1. T \in SUBSET Nat /\ T # {} /\ DOMAIN seq = 1 .. Len(seq) /\ Len(seq) \in Nat
  BY PacketsOf
<1>2. PICK m \in T : \A j \in T : m <= j
  BY <1>1, LeastElement
<1>3. m \in DOMAIN seq /\ IsFirst(m)
  <2>1. \A j \in 1 .. m - 1 : j \in DOMAIN seq /\ ~ (m <= j)
    BY <1>1, <1>2
  <2> QED BY <1>2, <2>1
<1>4. FirstOf(seq, s) = seq[f] /\ f \in DOMAIN seq /\ IsFirst(f)
  <2>1. f \in DOMAIN seq /\ IsFirst(f)
    BY <1>3
  <2>2. FirstOf(seq, s) = seq[f]
    BY DEF FirstOf
  <2> QED BY <2>1, <2>2
<1> HIDE DEF f, T
<1>5. 1 \in DOMAIN seq /\ f \in Nat /\ 1 <= f /\ f <= Len(seq)
  BY <1>1, <1>4
<1>6. seq[1].dts \in Nat /\ seq[f].dts \in Nat
  BY <1>4, <1>5, PacketsOf
<1>7. seq[1].dts <= seq[f].dts
  <2>1. CASE f = 1
    BY <1>6, <2>1
  <2>2. CASE 1 < f
    BY <1>4, <1>5, <2>2 DEF Sorted
  <2> QED BY <1>5, <2>1, <2>2
<1>8. ~ (seq[f].dts > seq[1].dts + 1)
  <2> SUFFICES ASSUME seq[f].dts > seq[1].dts + 1 PROVE FALSE
    OBVIOUS
  <2>1. PICK k \in DOMAIN seq : 1 <= k /\ k < f /\ seq[k].stream = seq[f].stream
    BY <1>4, <1>5 DEF Dense
  <2>2. k \in 1 .. f - 1
    BY <1>1, <1>5, <2>1
  <2> QED BY <1>4, <2>1, <2>2
<1>9. seq[f].dts <= seq[1].dts + 1
  BY <1>6, <1>8
<1>10. FirstOf(seq, s).stream = s
  BY <1>4
<1> QED BY <1>4, <1>6, <1>7, <1>9, <1>10

LEMMA OffsetsClose ==
  ASSUME NEW seq \in Seq(Packet), Sorted(seq), Dense(seq), NEW i \in DOMAIN seq, NEW j \in DOMAIN seq
  PROVE  Offset(seq, seq[i].stream) - Offset(seq, seq[j].stream) <= PtsLag + 1
<1> DEFINE p == FirstOf(seq, seq[i].stream)
           q == FirstOf(seq, seq[j].stream)
<1>1. /\ p.dts \in Nat /\ q.dts \in Nat /\ seq[1].dts \in Nat
      /\ p.dts <= seq[1].dts + 1 /\ seq[1].dts <= q.dts
  BY FirstClose
<1>2. PtsLag \in Nat
  BY PtsLagAssumption
<1>3. Offset(seq, seq[i].stream) = Pts(p) /\ Offset(seq, seq[j].stream) = Pts(q)
  BY DEF Offset
<1> HIDE DEF p, q
<1>4. Pts(p) <= p.dts + PtsLag /\ Pts(p) \in Int
  BY <1>1, <1>2 DEF Pts
<1>5. q.dts <= Pts(q) /\ Pts(q) \in Int
  BY <1>1, <1>2 DEF Pts
<1> QED BY <1>1, <1>2, <1>3, <1>4, <1>5

(* The clip of a save holds every stream in its order, sorted by rebased    *)
(* timestamps, and its sound and picture drift apart by no more than one    *)
(* packet and the reordering lag, for any number of tracks and any ring: if *)
(* the output is started once and the thread of a save can be created.      *)
THEOREM ClipsOrdered ==
  ASSUME MaxStarts <= 1, ThreadMayFail = FALSE
  PROVE  Spec => []ClipOrdered
<1>1. Init => SessionInv /\ OrderInv
  <2> SUFFICES ASSUME Init PROVE SessionInv /\ OrderInv
    OBVIOUS
  <2>1. InMemory = << >> /\ ~Live /\ clip_source = << >> /\ mux_packets = << >>
    BY DEF Init, InMemory, Live, Purging
  <2>2. SessionInv
    BY BoundsAssumption DEF Init, SessionInv, Live, Purging
  <2> QED BY <2>1, <2>2, EmptyMemory, EmptyDense DEF OrderInv
<1>2. Inv /\ SessionInv /\ OrderInv /\ [Next]_vars => SessionInv' /\ OrderInv'
  BY SessionStep, OrderStep
<1>3. Inv /\ OrderInv => ClipOrdered
  <2> SUFFICES ASSUME Inv, OrderInv PROVE ClipOrdered
    OBVIOUS
  <2>1. clip_source \in Seq(Packet) /\ Sorted(clip_source) /\ Dense(clip_source)
    BY DEF Inv, TypeOK, SaveTypeOK, OrderInv
  <2>2. ASSUME mux_packets # << >>
        PROVE  /\ \A i \in 1 .. Len(mux_packets) - 1 : mux_packets[i].dts <= mux_packets[i + 1].dts
               /\ Len(mux_packets) = Len(clip_source)
               /\ \A i \in DOMAIN clip_source : \E k \in DOMAIN mux_packets :
                    /\ mux_packets[k] = Rebase(clip_source, clip_source[i])
                    /\ InStream(mux_packets, k) = InStream(clip_source, i)
    <3>1. mux_packets = Clip(<< >>, clip_source)
      BY <2>2 DEF OrderInv
    <3> QED BY <2>1, <3>1, ClipKeepsStreams
  <2>3. ASSUME NEW s \in {p.stream : p \in {clip_source[i] : i \in DOMAIN clip_source}},
               NEW t \in {p.stream : p \in {clip_source[i] : i \in DOMAIN clip_source}}
        PROVE  Offset(clip_source, s) - Offset(clip_source, t) <= PtsLag + 1
    <3>1. PICK i \in DOMAIN clip_source : s = clip_source[i].stream
      OBVIOUS
    <3>2. PICK j \in DOMAIN clip_source : t = clip_source[j].stream
      OBVIOUS
    <3> QED BY <2>1, <3>1, <3>2, OffsetsClose
  <2> QED BY <2>2, <2>3 DEF ClipOrdered
<1> QED BY <1>1, <1>2, <1>3, AlwaysInv, PTL DEF Spec

-----------------------------------------------------------------------------
(* Taking the front off never makes the ring larger. *)
LEMMA FrontFrees ==
  ASSUME Inv, SizeCounter, PurgeFront
  PROVE  cur_size' <= cur_size /\ cur_size \in Nat /\ cur_size' \in Int
<1>1. packets \in Seq(Packet) /\ cur_size = SizeSum(packets) /\ cur_size \in Nat
  BY SizesSum DEF Inv, TypeOK, RingTypeOK, SizeCounter
<1>2. CASE packets = << >>
  BY <1>1, <1>2 DEF PurgeFront, ring
<1>3. CASE packets # << >> /\ Len(packets) = 1
  <2>1. cur_size' = 0
    BY <1>3 DEF PurgeFront
  <2> QED BY <1>1, <2>1
<1>4. CASE packets # << >> /\ Len(packets) # 1
  <2>1. cur_size' = cur_size - Head(packets).size
    BY <1>4 DEF PurgeFront, Freed
  <2>2. Head(packets).size \in Nat
    <3>1. Head(packets) \in Packet
      BY <1>1, <1>4
    <3> QED BY <3>1 DEF Packet
  <2> QED BY <1>1, <2>1, <2>2
<1> QED BY <1>2, <1>3, <1>4

(* Without limits there is nothing to limit: no session has begun since the *)
(* ring was cleared, and none whose output is being destroyed delivers.     *)
Vacant ==
  /\ max_size = 0 /\ cur_size = 0 /\ keyframes = 0
  /\ data \in {"idle", "end capture", "deactivate"}
  /\ active => ui \in {"joining", "destroyed"}

(* Room for the packet in hand, as the loop for the size leaves it, or too  *)
(* few groups of pictures for the purge to begin                            *)
Fits == cur_size + pkt.size <= max_size

Sized ==
  /\ data \in {"time", "time to keyframe"} => Fits
  /\ data = "push" => Fits \/ keyframes <= 2
  /\ ~Purging /\ data # "push" => cur_size <= max_size \/ keyframes <= 3

CapInv ==
  /\ max_size = MaxSize \/ Vacant
  /\ max_size # 0 => Sized

(* What concerns neither the ring nor the data thread leaves it as it is. *)
LEMMA CapRests ==
  ASSUME CapInv, UNCHANGED <<ring, limits, data, pkt>>, active' => active,
         ui \in {"joining", "destroyed"} => ui' \in {"joining", "destroyed"}
  PROVE  CapInv'
BY DEF CapInv, Vacant, Sized, Fits, Purging, ring, limits

LEMMA CapUi ==
  ASSUME Inv, CapInv, UiNext
  PROVE  CapInv'
<1> USE DEF ring, limits, flags, save, dataThread, muxThread, output, encoders, frontend
<1>0. DataInv /\ max_size \in Nat
  BY DEF Inv, TypeOK, RingTypeOK
<1>1. CASE StartReplayBuffer
  <2>1. /\ UNCHANGED <<ring, data, pkt>> /\ max_size' = MaxSize
        /\ data \in {"idle", "end capture", "deactivate"}
    BY <1>0, <1>1 DEF StartReplayBuffer, DataInv
  <2>2. Vacant => cur_size = 0 /\ keyframes = 0
    BY DEF Vacant
  <2>3. Vacant => Sized'
    <3>1. MaxSize \in Nat /\ max_size' = MaxSize /\ cur_size' = cur_size
      BY <2>1, BoundsAssumption
    <3>2. cur_size = 0 => cur_size' <= max_size'
      BY <3>1
    <3> QED BY <2>1, <2>2, <3>2 DEF Sized, Purging
  <2>4. max_size = MaxSize /\ max_size # 0 => Sized'
    BY <2>1 DEF CapInv, Sized, Purging
  <2> QED BY <2>1, <2>3, <2>4 DEF CapInv
<1>2. CASE Destroy
  <2>1. /\ max_size' = 0 /\ cur_size' = 0 /\ keyframes' = 0 /\ ui' = "joining" /\ data' = data
        /\ data \in {"idle", "end capture", "deactivate"}
    BY <1>0, <1>2 DEF Destroy, ClearRing, DataInv
  <2> QED BY <2>1 DEF CapInv, Vacant
<1>3. CASE StopReplayBuffer
  BY <1>3, CapRests DEF StopReplayBuffer, MuxStop
<1>4. CASE SaveReplay \/ SaveHotkey \/ DestroyJoin
  BY <1>4, CapRests DEF SaveReplay, SaveHotkey, DestroyJoin
<1>5. CASE Shutdown
  BY <1>5, CapRests DEF Shutdown, MuxStop
<1> QED BY <1>1, <1>2, <1>3, <1>4, <1>5 DEF UiNext

LEMMA CapEncoder ==
  ASSUME Inv, CapInv, EncoderNext
  PROVE  CapInv'
<1> USE DEF ring, limits, flags, save, dataThread, muxThread, output, encoders, frontend
<1>0. DataInv /\ TypeOK /\ Lockstep
  BY DEF Inv
<1>1. CASE DeliverPacket
  <2>1. /\ data = "idle" /\ capture # "idle"
        /\ UNCHANGED <<ring, limits, active, ui>>
        /\ (~active /\ data' = "idle") \/ (active /\ data' \in {"end capture", "purge"})
    BY <1>0, <1>1, DeliverTakes
  <2>2. ui \notin {"joining", "destroyed"}
    BY <1>0, <2>1 DEF DataInv
  <2>3. Vacant => Vacant'
    BY <2>1, <2>2 DEF Vacant
  <2>4. Sized => Sized'
    BY <2>1 DEF Sized, Purging
  <2> QED BY <2>1, <2>3, <2>4 DEF CapInv
<1>2. CASE EncoderFails
  BY <1>2, CapRests DEF EncoderFails, MuxStop
<1>3. CASE DeliverError
  <2>1. data = "idle" /\ data' \in {"idle", "end capture"} /\ UNCHANGED <<ring, limits, active, ui>>
    BY <1>3 DEF DeliverError
  <2> QED BY <2>1 DEF CapInv, Vacant, Sized, Purging
<1> QED BY <1>1, <1>2, <1>3 DEF EncoderNext

LEMMA CapData ==
  ASSUME Inv, SizeCounter, CapInv, DataNext
  PROVE  CapInv'
<1> USE DEF ring, limits, flags, save, dataThread, muxThread, output, encoders, frontend
<1>0. /\ packets \in Seq(Packet) /\ keyframes \in Nat /\ cur_size \in Nat /\ max_size \in Nat
      /\ pkt.size \in Nat /\ pkt \in Packet
  BY SizesSum DEF Inv, TypeOK, RingTypeOK, DataTypeOK, SizeCounter, Packet
<1>1. CASE EndCapture
  <2>1. data = "end capture" /\ data' = "deactivate" /\ UNCHANGED <<ring, limits, active, ui>>
    BY <1>1 DEF EndCapture
  <2> QED BY <2>1 DEF CapInv, Vacant, Sized, Purging
<1>2. CASE Deactivate
  <2>1. max_size' = 0 /\ cur_size' = 0 /\ keyframes' = 0 /\ data' = "idle" /\ active' = FALSE
    BY <1>2 DEF Deactivate, ClearRing
  <2> QED BY <2>1 DEF CapInv, Vacant
<1>3. ASSUME Purging \/ data = "push" PROVE max_size = MaxSize
  BY <1>3 DEF CapInv, Vacant, Purging
<1>4. CASE Purge
  <2>1. /\ data = "purge" /\ UNCHANGED <<ring, limits, pkt>>
        /\ data' = IF TooFewToPurge THEN "push" ELSE IF max_size # 0 THEN "size" ELSE "time"
    BY <1>4 DEF Purge
  <2>2. TooFewToPurge /\ max_size # 0 => keyframes <= 2
    <3>1. packets = << >> => keyframes = 0
      <4>1. packets = << >> => KeyPositions(packets) = {}
        BY DEF KeyPositions
      <4> QED BY <4>1, FS_EmptySet DEF Inv, RingCounters, KeyPositions
    <3> QED BY <3>1 DEF TooFewToPurge
  <2>3. max_size # 0 => Sized'
    BY <2>1, <2>2 DEF Sized, Purging
  <2> QED BY <1>3, <2>1, <2>3 DEF CapInv, Purging
<1>5. CASE PurgeForSize
  <2>1. CASE TooBig
    <3>1. data = "size" /\ data' \in {"size", "size to keyframe"} /\ UNCHANGED limits
      BY <1>5, <2>1 DEF PurgeForSize
    <3>2. Sized'
      BY <3>1 DEF Sized, Purging
    <3> QED BY <1>3, <3>1, <3>2 DEF CapInv, Purging
  <2>2. CASE ~TooBig
    <3>1. data = "size" /\ data' \in {"push", "time"} /\ UNCHANGED <<ring, limits, pkt>>
      BY <1>5, <2>2 DEF PurgeForSize
    <3>2. Fits
      BY <1>0, <2>2 DEF TooBig, Fits
    <3>3. Fits'
      BY <3>1, <3>2 DEF Fits
    <3>4. Sized'
      BY <3>1, <3>3 DEF Sized, Purging
    <3> QED BY <1>3, <3>1, <3>4 DEF CapInv, Purging
  <2> QED BY <2>1, <2>2
<1>6. CASE PurgeForTime
  <2>1. /\ data = "time" /\ data' \in {"time", "time to keyframe", "push"} /\ UNCHANGED <<limits, pkt>>
        /\ PurgeFront \/ UNCHANGED cur_size
    BY <1>6 DEF PurgeForTime
  <2>2. max_size # 0 => Fits
    BY <2>1 DEF CapInv, Sized
  <2>3. cur_size' <= cur_size /\ cur_size' \in Int
    <3>1. CASE PurgeFront
      BY <3>1, FrontFrees
    <3>2. CASE UNCHANGED cur_size
      BY <1>0, <3>2
    <3> QED BY <2>1, <3>1, <3>2
  <2>4. Fits => Fits'
    <3>1. pkt' = pkt /\ max_size' = max_size
      BY <2>1
    <3> QED BY <1>0, <2>3, <3>1 DEF Fits
  <2>5. max_size # 0 => Sized'
    BY <2>1, <2>2, <2>4 DEF Sized, Purging
  <2> QED BY <1>3, <2>1, <2>5 DEF CapInv, Purging
<1>7. CASE PurgeToKeyframe
  <2>1. /\ \/ data = "size to keyframe" /\ data' \in {"size", "size to keyframe"}
           \/ data = "time to keyframe" /\ data' \in {"time", "time to keyframe"}
        /\ UNCHANGED <<limits, pkt>>
        /\ PurgeFront \/ UNCHANGED cur_size
    BY <1>7 DEF PurgeToKeyframe
  <2>2. max_size # 0 /\ data = "time to keyframe" => Fits
    BY DEF CapInv, Sized
  <2>3. cur_size' <= cur_size /\ cur_size' \in Int
    <3>1. CASE PurgeFront
      BY <3>1, FrontFrees
    <3>2. CASE UNCHANGED cur_size
      BY <1>0, <3>2
    <3> QED BY <2>1, <3>1, <3>2
  <2>4. Fits => Fits'
    <3>1. pkt' = pkt /\ max_size' = max_size
      BY <2>1
    <3> QED BY <1>0, <2>3, <3>1 DEF Fits
  <2>5. max_size # 0 => Sized'
    BY <2>1, <2>2, <2>4 DEF Sized, Purging
  <2> QED BY <1>3, <2>1, <2>5 DEF CapInv, Purging
<1>8. CASE Push
  <2>1. /\ data = "push" /\ data' \in {"idle", "join", "save"} /\ UNCHANGED limits
        /\ cur_size' = cur_size + pkt.size
        /\ keyframes' = keyframes + (IF IsKeyframe(pkt) THEN 1 ELSE 0)
    BY <1>8 DEF Push, AfterPush
  <2>2. max_size # 0 => cur_size + pkt.size <= max_size \/ keyframes <= 2
    BY <2>1 DEF CapInv, Sized, Fits
  <2>3. max_size # 0 => cur_size' <= max_size \/ keyframes' <= 3
    BY <1>0, <2>1, <2>2
  <2>4. max_size # 0 => Sized'
    BY <2>1, <2>3 DEF Sized, Purging
  <2> QED BY <1>3, <2>1, <2>4 DEF CapInv
<1>9. CASE Join \/ Save
  <2>1. data \in {"join", "save"} /\ data' \in {"idle", "save"} /\ UNCHANGED <<ring, limits>>
    BY <1>9 DEF Join, Save
  <2>2. max_size = MaxSize
    BY <2>1 DEF CapInv, Vacant
  <2> QED BY <2>1, <2>2 DEF CapInv, Sized, Purging
<1> QED BY <1>1, <1>2, <1>4, <1>5, <1>6, <1>7, <1>8, <1>9 DEF DataNext

LEMMA CapStep == Inv /\ SizeCounter /\ CapInv /\ [Next]_vars => CapInv'
<1> SUFFICES ASSUME Inv, SizeCounter, CapInv, [Next]_vars PROVE CapInv'
  OBVIOUS
<1> USE DEF ring, limits, flags, save, dataThread, muxThread, output, encoders, frontend
<1>1. CASE MuxNext
  <2>1. UNCHANGED <<ring, limits, data, pkt, ui>> /\ (active' = active \/ active' = FALSE)
    BY <1>1 DEF MuxNext, MuxOpen, MuxWrite, MuxFail, MuxFailEnd, MuxFailStopping,
                MuxFailSignal, MuxFailCapturing, MuxFree, MuxSignalSaved
  <2> QED BY <2>1, CapRests
<1>2. CASE EndThread \/ UNCHANGED vars
  BY <1>2, CapRests DEF EndThread, vars
<1> QED BY <1>1, <1>2, CapUi, CapEncoder, CapData DEF Next

(* The cap of docs/replay-buffer.md, as far as replay_buffer_purge() keeps  *)
(* it: within max_size, or no more than three keyframes.                    *)
THEOREM CapKeptOrFewGroups == Spec => []CapKept
<1>1. Init => CapInv
  BY DEF Init, CapInv, Vacant
<1>2. SizeCounter /\ CapInv /\ Inv /\ [Next]_vars => CapInv'
  BY CapStep
<1>3. SizeCounter /\ CapInv => CapKept
  BY DEF CapInv, CapKept, SizeCounter, Sized, Purging
<1> QED BY <1>1, <1>2, <1>3, AlwaysInv, SizeCorrect, PTL DEF Spec
-----------------------------------------------------------------------------
(* Only the purge moves while it is under way; others do not begin it in    *)
(* the middle.                                                              *)
LEMMA PurgeAlone ==
  ASSUME Inv, Purging, [Next]_vars
  PROVE  UNCHANGED vars \/ Purge \/ PurgeForSize \/ PurgeForTime \/ PurgeToKeyframe
<1>0. data \notin {"idle", "end capture", "deactivate", "push", "join", "save"} /\ ~failing
  BY DEF Inv, DataInv, Purging
<1>1. ~UiNext
  BY DEF UiNext, StartReplayBuffer, StopReplayBuffer, SaveReplay, SaveHotkey, Shutdown,
         Destroy, DestroyJoin
<1>2. ~EncoderNext
  <2>1. ~DeliverPacket
    <3> SUFFICES ASSUME NEW s, NEW key, NEW size, Deliver(s, key, size) PROVE FALSE
      BY DEF DeliverPacket
    <3>1. data = "idle"
      BY DEF Deliver
    <3> QED BY <1>0, <3>1
  <2>2. ~EncoderFails /\ ~DeliverError
    BY <1>0 DEF EncoderFails, DeliverError
  <2> QED BY <2>1, <2>2 DEF EncoderNext
<1>3. DataNext => Purge \/ PurgeForSize \/ PurgeForTime \/ PurgeToKeyframe
  BY <1>0 DEF DataNext, EndCapture, Deactivate, Push, Join, Save
<1>4. ~MuxNext
  BY DEF MuxNext, MuxOpen, MuxWrite, MuxFail, MuxFailEnd, MuxFailStopping, MuxFailSignal,
         MuxFailCapturing, MuxFree, MuxSignalSaved
<1>5. ~EndThread
  BY <1>0 DEF EndThread
<1> QED BY <1>1, <1>2, <1>3, <1>4, <1>5 DEF Next

LEMMA PurgeBegins ==
  ASSUME ~Purging, [Next]_vars
  PROVE  ~Purging' \/ data' = "purge"
<1> USE DEF ring, limits, flags, save, dataThread, muxThread, output, encoders, frontend
<1>0. ASSUME UNCHANGED data PROVE ~Purging'
  BY <1>0 DEF Purging
<1>1. CASE UiNext
  BY <1>0, <1>1 DEF UiNext, StartReplayBuffer, StopReplayBuffer, SaveReplay, SaveHotkey, Shutdown,
                    Destroy, DestroyJoin
<1>2. CASE DeliverPacket
  <2>1. PICK s \in Streams, key \in BOOLEAN, size \in Sizes : Deliver(s, key, size)
    BY <1>2 DEF DeliverPacket, Sizes
  <2>2. UNCHANGED data \/ data' \in {"end capture", "purge"}
    BY <2>1 DEF Deliver
  <2> QED BY <1>0, <2>2 DEF Purging
<1>3. CASE EncoderFails \/ DeliverError
  BY <1>0, <1>3 DEF EncoderFails, DeliverError, Purging
<1>4. CASE DataNext
  BY <1>4 DEF DataNext, EndCapture, Deactivate, Purge, PurgeForSize, PurgeForTime,
              PurgeToKeyframe, Push, AfterPush, Join, Save, Purging
<1>5. CASE MuxNext
  BY <1>0, <1>5 DEF MuxNext, MuxOpen, MuxWrite, MuxFail, MuxFailEnd, MuxFailStopping, MuxFailSignal,
                    MuxFailCapturing, MuxFree, MuxSignalSaved
<1>6. CASE EndThread \/ UNCHANGED vars
  BY <1>0, <1>6 DEF EndThread, vars
<1> QED BY <1>1, <1>2, <1>3, <1>4, <1>5, <1>6 DEF Next, EncoderNext

(* The loops never run dry: what they compare the packet with is there.     *)
PurgeInv == data \in {"size", "time"} => packets # << >>

(* A packet other than a keyframe that goes leaves one behind it. *)
LEMMA DropsLeave ==
  ASSUME GroupsKept, Inv, SizeCounter, SessionInv, RingInv, Drops
  PROVE  packets' # << >>
<1> DEFINE m == InMemory
<1>1. packets # << >> /\ packets' = Tail(packets) /\ Purging
  BY DEF Drops
<1>2. /\ m # << >> /\ m \in Seq(Packet) /\ Head(m) = Head(packets)
      /\ Len(m) = Len(packets) + 1 /\ Len(packets) \in Nat
      /\ KeyPositions(packets) \subseteq KeyPositions(m)
  BY <1>1, PurgeMemory, InMemoryType
<1>3. packets \in Seq(Packet)
  BY InMemoryType
<1>4. CASE ToKeyframe'
  <2>1. KeyPositions(packets') # {}
    BY <1>4, DropsRing DEF RingInv
  <2> QED BY <2>1 DEF KeyPositions
<1>5. CASE ~ToKeyframe'
  <2>1. ~ToKeyframe /\ ~IsKeyframe(Head(m))
    BY <1>1, <1>2, <1>5 DEF Drops, FrontIsKeyframe, ToKeyframe
  <2>2. m[Len(m)].dts > Head(m).dts + MaxGop
    BY <2>1, DropsFar DEF m
  <2> HIDE DEF m
  <2>3. /\ Len(m) \in DOMAIN m /\ 1 \in DOMAIN m /\ Head(m) = m[1]
        /\ m[Len(m)].dts \in Nat /\ m[1].dts \in Nat /\ MaxGop \in Nat
    <3>1. Len(m) \in DOMAIN m /\ 1 \in DOMAIN m /\ Head(m) = m[1]
      BY <1>2, TailOf
    <3> QED BY <1>2, <3>1, PacketsOf, BoundsAssumption
  <2>4. ~Unbegun(m)
    BY <2>2, <2>3 DEF Unbegun
  <2>5. PICK k \in KeyPositions(m) : \A i \in DOMAIN m : m[k].dts <= m[i].dts
    BY <2>1, <2>4 DEF RingInv, m, Anchored
  <2>6. k # 1 /\ k # Len(m) /\ k \in 1 .. Len(m)
    <3>1. k # 1
      BY <2>1, <2>3, <2>5 DEF KeyPositions
    <3>2. k # Len(m)
      BY <2>2, <2>3, <2>5
    <3>3. DOMAIN m = 1 .. Len(m)
      BY <1>2
    <3> QED BY <2>5, <3>1, <3>2, <3>3 DEF KeyPositions
  <2>7. Len(packets) # 1
    <3>1. \A n \in Nat : n = 1 => \A j \in 1 .. n + 1 : j = 1 \/ j = n + 1
      OBVIOUS
    <3> QED BY <1>2, <2>6, <3>1
  <2>8. Len(Tail(packets)) = Len(packets) - 1
    BY <1>1, <1>3
  <2>9. Len(Tail(packets)) # 0
    <3>1. Len(packets) \in Nat
      BY <1>3
    <3> QED BY <2>7, <2>8, <3>1
  <2> QED BY <1>1, <2>9, EmptySeq
<1> QED BY <1>4, <1>5

(* An iteration of the loops that takes the front off is a Drops. *)
LEMMA PurgeDrops ==
  ASSUME Inv, SessionInv, Purging, PurgeFront, packets # << >>,
         UNCHANGED <<limits, flags, pkt, encoders>>,
         \/ ToKeyframe /\ data' = data /\ ~FrontIsKeyframe
         \/ data = "size" /\ TooBig /\ data' = IF FrontIsKeyframe THEN "size to keyframe" ELSE "size"
         \/ data = "time" /\ TooOld /\ data' = IF FrontIsKeyframe THEN "time to keyframe" ELSE "time"
  PROVE  Drops
<1>1. packets' = Tail(packets) /\ UNCHANGED <<pkt, next, base, gop, active>>
  BY DEF PurgeFront, flags, encoders
<1>2. Purging' /\ active
  BY DEF SessionInv, Purging, ToKeyframe
<1>3. Live /\ Live'
  BY <1>1, <1>2 DEF Live, Purging
<1> QED BY <1>1, <1>2, <1>3 DEF Drops

(* How far the purge is from its end at most: a keyframe takes two steps,   *)
(* its removal and the look at the packet behind the group.                 *)
Phase == IF data \in {"purge", "size to keyframe"} THEN 4
         ELSE IF data = "size" THEN 3
         ELSE IF data = "time to keyframe" THEN 2
         ELSE IF data = "time" THEN 1 ELSE 0

Left == 2 * Len(packets) + Phase

Advances == (data' = "push" \/ Purging') /\ Left' < Left

(* The steps of the purge that take nothing out of the ring *)
Looks ==
  \/ data = "purge" /\ (data' = "push" \/ data' = "size" \/ data' = "time")
  \/ data = "size" /\ (data' = "push" \/ data' = "time")
  \/ data = "time" /\ data' = "push"
  \/ data = "size to keyframe" /\ data' = "size"
  \/ data = "time to keyframe" /\ data' = "time"

LEMMA LooksLower ==
  ASSUME Looks
  PROVE  Phase' < Phase
<1>1. /\ data = "purge" => Phase = 4
      /\ data = "size" => Phase = 3
      /\ data = "size to keyframe" => Phase = 4
      /\ data = "time" => Phase = 1
      /\ data = "time to keyframe" => Phase = 2
  BY DEF Phase
<1>2. /\ data' = "push" => Phase' = 0
      /\ data' = "size" => Phase' = 3
      /\ data' = "time" => Phase' = 1
  BY DEF Phase
<1>3. \/ Phase' = 0 /\ (Phase = 1 \/ Phase = 3 \/ Phase = 4)
      \/ Phase' = 1 /\ (Phase = 2 \/ Phase = 3 \/ Phase = 4)
      \/ Phase' = 3 /\ Phase = 4
  BY <1>1, <1>2, Zenon DEF Looks
<1> QED BY <1>3

LEMMA PurgeStep ==
  ASSUME GroupsKept, Inv, SizeCounter, SessionInv, RingInv, PurgeInv, Purging,
         Purge \/ PurgeForSize \/ PurgeForTime \/ PurgeToKeyframe
  PROVE  PurgeInv' /\ Advances
<1> USE DEF ring, limits, flags, save, dataThread, muxThread, output, encoders, frontend
<1>0. packets \in Seq(Packet) /\ Len(packets) \in Nat
  BY InMemoryType
<1>7. Phase \in Nat
  BY DEF Phase
<1>1. ASSUME Drops
      PROVE  PurgeInv' /\ Advances
  <2>1. packets' # << >> /\ packets' = Tail(packets) /\ packets # << >>
    BY <1>1, DropsLeave DEF Drops
  <2>2. Len(packets') = Len(packets) - 1
    BY <1>0, <2>1
  <2>3. Phase' = Phase \/ Phase' = Phase + 1
    <3>1. \/ data' = data
          \/ data = "size" /\ data' = "size to keyframe"
          \/ data = "time" /\ data' = "time to keyframe"
      BY <1>1 DEF Drops
    <3>2. CASE data' = data
      BY <3>2 DEF Phase
    <3>3. CASE data = "size" /\ data' = "size to keyframe"
      <4>1. Phase = 3
        BY <3>3 DEF Phase
      <4>2. Phase' = 4
        BY <3>3 DEF Phase
      <4> QED BY <4>1, <4>2
    <3>4. CASE data = "time" /\ data' = "time to keyframe"
      <4>1. Phase = 1
        BY <3>4 DEF Phase
      <4>2. Phase' = 2
        BY <3>4 DEF Phase
      <4> QED BY <4>1, <4>2
    <3> QED BY <3>1, <3>2, <3>3, <3>4
  <2>4. Left' < Left
    BY <1>0, <1>7, <2>2, <2>3 DEF Left
  <2> QED BY <1>1, <2>1, <2>4 DEF Drops, PurgeInv, Advances
<1>2. ASSUME UNCHANGED packets, data' = "push" \/ Purging', Phase' < Phase, PurgeInv'
      PROVE  PurgeInv' /\ Advances
  <2>1. Phase \in Nat /\ Phase' \in Nat /\ Len(packets') = Len(packets)
    BY <1>2 DEF Phase
  <2>2. Left' < Left
    BY <1>0, <1>2, <2>1 DEF Left
  <2> QED BY <1>2, <2>2 DEF Advances
<1>3. CASE Purge
  <2>1. /\ data = "purge" /\ packets' = packets
        /\ data' = "push" \/ (data' \in {"size", "time"} /\ packets # << >>)
    BY <1>3 DEF Purge, TooFewToPurge
  <2>2. PurgeInv' /\ (data' = "push" \/ Purging')
    BY <2>1 DEF PurgeInv, Purging
  <2>3. Phase' < Phase
    BY <2>1, LooksLower DEF Looks
  <2> QED BY <1>2, <2>1, <2>2, <2>3
<1>4. CASE PurgeForSize
  <2>1. CASE TooBig
    <3>1. /\ data = "size" /\ PurgeFront /\ packets # << >>
          /\ UNCHANGED <<limits, flags, pkt, encoders>>
          /\ data' = IF FrontIsKeyframe THEN "size to keyframe" ELSE "size"
      BY <1>4, <2>1 DEF PurgeForSize, PurgeInv
    <3>2. Drops
      BY <2>1, <3>1, PurgeDrops
    <3> QED BY <1>1, <3>2
  <2>2. CASE ~TooBig
    <3>1. /\ data = "size" /\ packets' = packets /\ packets # << >>
          /\ data' \in {"push", "time"}
      BY <1>4, <2>2 DEF PurgeForSize, PurgeInv
    <3>2. PurgeInv' /\ (data' = "push" \/ Purging')
      BY <3>1 DEF PurgeInv, Purging
    <3>3. Phase' < Phase
      BY <3>1, LooksLower DEF Looks
    <3> QED BY <1>2, <3>1, <3>2, <3>3
  <2> QED BY <2>1, <2>2
<1>5. CASE PurgeForTime
  <2>1. CASE TooOld
    <3>1. /\ data = "time" /\ PurgeFront /\ packets # << >>
          /\ UNCHANGED <<limits, flags, pkt, encoders>>
          /\ data' = IF FrontIsKeyframe THEN "time to keyframe" ELSE "time"
      BY <1>5, <2>1 DEF PurgeForTime, PurgeInv
    <3>2. Drops
      BY <2>1, <3>1, PurgeDrops
    <3> QED BY <1>1, <3>2
  <2>2. CASE ~TooOld
    <3>1. data = "time" /\ packets' = packets /\ data' = "push"
      BY <1>5, <2>2 DEF PurgeForTime
    <3>2. PurgeInv'
      BY <3>1 DEF PurgeInv
    <3>3. Phase' < Phase
      BY <3>1, LooksLower DEF Looks
    <3> QED BY <1>2, <3>1, <3>2, <3>3
  <2> QED BY <2>1, <2>2
<1>6. CASE PurgeToKeyframe
  <2>1. ToKeyframe /\ packets # << >>
    <3>1. ToKeyframe
      BY <1>6 DEF PurgeToKeyframe, ToKeyframe
    <3> QED BY <3>1 DEF RingInv, KeyPositions
  <2>2. CASE FrontIsKeyframe
    <3>1. /\ packets' = packets
          /\ \/ data = "size to keyframe" /\ data' = "size"
             \/ data = "time to keyframe" /\ data' = "time"
      BY <1>6, <2>2 DEF PurgeToKeyframe
    <3>2. PurgeInv' /\ Purging'
      BY <2>1, <3>1 DEF PurgeInv, Purging
    <3>3. Phase' < Phase
      BY <3>1, LooksLower DEF Looks
    <3> QED BY <1>2, <3>1, <3>2, <3>3
  <2>3. CASE ~FrontIsKeyframe
    <3>1. PurgeFront /\ data' = data /\ UNCHANGED <<limits, flags, pkt, encoders>>
      BY <1>6, <2>1, <2>3 DEF PurgeToKeyframe
    <3>2. Drops
      BY <2>1, <2>3, <3>1, PurgeDrops
    <3> QED BY <1>1, <3>2
  <2> QED BY <2>2, <2>3
<1> QED BY <1>3, <1>4, <1>5, <1>6

(* The loops of replay_buffer_purge() end: while the data thread is in them *)
(* nothing else moves, and every iteration brings it nearer to the push of  *)
(* the packet.  They would not end if the ring ran dry under them.          *)
PurgeAdvances == [][Purging => Advances]_vars

THEOREM PurgeEnds ==
  ASSUME MaxStarts <= 1, GroupsKept
  PROVE  Spec => PurgeAdvances
<1> DEFINE I == Inv /\ SizeCounter /\ SessionInv /\ RingInv
<1>1. ASSUME I, PurgeInv, [Next]_vars PROVE PurgeInv' /\ [Purging => Advances]_vars
  <2>1. CASE Purging
    <3>1. CASE UNCHANGED vars
      BY <1>1, <3>1 DEF vars, PurgeInv
    <3>2. CASE Purge \/ PurgeForSize \/ PurgeForTime \/ PurgeToKeyframe
      BY <1>1, <2>1, <3>2, PurgeStep
    <3> QED BY <1>1, <2>1, <3>1, <3>2, PurgeAlone
  <2>2. CASE ~Purging
    BY <1>1, <2>2, PurgeBegins DEF PurgeInv, Purging
  <2> QED BY <2>1, <2>2
<1>2. I /\ PurgeInv /\ [Next]_vars => PurgeInv' /\ [Purging => Advances]_vars
  BY <1>1
<1>3. Init => PurgeInv
  BY DEF Init, PurgeInv
<1>4. Spec => []I
  BY AlwaysRing, PTL
<1> HIDE DEF I
<1> QED BY <1>2, <1>3, <1>4, PTL DEF Spec, PurgeAdvances
=============================================================================
