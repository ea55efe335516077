----------------------------- MODULE ReplayClip -----------------------------
(***************************************************************************)
(* The pure part of a replay save: how replay_buffer_save() turns the ring *)
(* of encoded packets into the list the mux thread writes, in              *)
(* plugins/obs-ffmpeg/obs-ffmpeg-mux.c.                                    *)
(*                                                                         *)
(* A packet is a record of its stream (the video encoder, or one audio     *)
(* track), whether it is a keyframe, its decode timestamp dts (dts_usec of *)
(* the code) and its size.  Payloads are left out.                         *)
(***************************************************************************)
EXTENDS Integers, Sequences, FiniteSets

CONSTANTS Video,    \* the video stream (OBS_ENCODER_VIDEO)
          Tracks,   \* the audio tracks (track_idx of OBS_ENCODER_AUDIO)
          PtsLag    \* pts - dts of a video packet (B-frame reordering)

ASSUME StreamsAssumption == Video \notin Tracks
ASSUME PtsLagAssumption == PtsLag \in Nat

Streams == {Video} \cup Tracks

Packet == [stream : Streams, key : BOOLEAN, dts : Nat, size : Nat]

(* A packet of a clip: its timestamp counts from its stream's first packet. *)
ClipPacket == [stream : Streams, key : BOOLEAN, dts : Int, size : Nat]

IsKeyframe(p) == p.stream = Video /\ p.key

(* The bytes a sequence of packets holds *)
SizeSum(seq) ==
  LET sum[i \in 0 .. Len(seq)] == IF i = 0 THEN 0 ELSE sum[i - 1] + seq[i].size
  IN sum[Len(seq)]

Pts(p) == IF p.stream = Video THEN p.dts + PtsLag ELSE p.dts

(***************************************************************************)
(* The offset of a stream is fixed by its first packet in the ring: the    *)
(* pts of the first video packet, the dts of the first packet of a track.  *)
(***************************************************************************)
FirstOf(ring, s) ==
  ring[CHOOSE i \in DOMAIN ring :
         /\ ring[i].stream = s
         /\ \A j \in 1 .. i - 1 : ring[j].stream # s]

(* Faulty variant: only the video has an offset. *)
VideoOffsetOnly(ring, s) == IF s = Video THEN Pts(FirstOf(ring, s)) ELSE 0

Offset(ring, s) == Pts(FirstOf(ring, s))

Rebase(ring, p) == [p EXCEPT !.dts = @ - Offset(ring, p.stream)]

(***************************************************************************)
(* insert_packet(): scan back from the end, stop behind the last packet    *)
(* whose dts is smaller.  A packet goes in front of its equals.            *)
(***************************************************************************)
(* Faulty variant: a packet goes behind its equals. *)
InsertBehindEquals(clip, p) ==
  CHOOSE n \in 0 .. Len(clip) :
    /\ n > 0 => clip[n].dts <= p.dts
    /\ \A i \in n + 1 .. Len(clip) : clip[i].dts > p.dts

InsertPosition(clip, p) ==
  CHOOSE n \in 0 .. Len(clip) :
    /\ n > 0 => clip[n].dts < p.dts
    /\ \A i \in n + 1 .. Len(clip) : clip[i].dts >= p.dts

InsertPacket(clip, p) ==
  LET n == InsertPosition(clip, p)
  IN [i \in 1 .. Len(clip) + 1 |->
        IF i <= n THEN clip[i] ELSE IF i = n + 1 THEN p ELSE clip[i - 1]]

(* The loop of replay_buffer_save() over the ring, front to back, inserting *)
(* into what mux_packets already holds.                                     *)
ClipByInsertion(held, ring) ==
  LET clip[i \in 0 .. Len(ring)] ==
        IF i = 0 THEN held
        ELSE LET before == clip[i - 1] IN InsertPacket(before, Rebase(ring, ring[i]))
  IN clip[Len(ring)]

(***************************************************************************)
(* The same list without the loop: sorted by dts, and among equals the one *)
(* inserted later goes first.  What mux_packets held is sorted already.    *)
(***************************************************************************)
Rebased(held, ring) ==
  LET offset == [s \in {ring[i].stream : i \in DOMAIN ring} |-> Offset(ring, s)]
  IN held \o [i \in DOMAIN ring |-> [ring[i] EXCEPT !.dts = @ - offset[ring[i].stream]]]

GoesBefore(all, old, i, j) ==
  \/ all[i].dts < all[j].dts
  \/ /\ all[i].dts = all[j].dts
     /\ IF i <= old /\ j <= old THEN i < j ELSE i > j

(* Faulty variant: the packets stay in the order in which they arrived. *)
ArrivalPlace(all, old, j) == j

Place(all, old, j) == 1 + Cardinality({i \in DOMAIN all : GoesBefore(all, old, i, j)})

Clip(held, ring) ==
  LET all == Rebased(held, ring)
      place == [j \in DOMAIN all |-> Place(all, Len(held), j)]
  IN [k \in DOMAIN all |-> all[CHOOSE j \in DOMAIN all : place[j] = k]]
=============================================================================
