---------------------------- MODULE Interleaver ----------------------------
(***************************************************************************)
(* interleave_packets() of libobs/obs-output.c: the packets of one video   *)
(* encoder and of several audio encoders become one sequence in timestamp  *)
(* order.                                                                  *)
(*                                                                         *)
(* Until every stream has been received the packets are collected.  Then   *)
(* a starting point is chosen, what lies before it is dropped, and every   *)
(* stream is given an offset so that the output begins at zero.  From then *)
(* on each packet that arrives lets out one packet, or two.                *)
(*                                                                         *)
(* Times are integers in one unit; at is when the content of a packet was  *)
(* captured, dts its timestamp on the clock of its encoder, ts the         *)
(* dts_usec by which packets are compared: first the time of the system,   *)
(* later the rebased dts.                                                  *)
(***************************************************************************)
EXTENDS Integers, Sequences, FiniteSetsExt

CONSTANTS NumTracks,               \* audio encoders of the output
          VideoFrame, AudioFrame,  \* duration of a packet
          PtsLag,                  \* pts - dts of video (B-frames)
          Priming,                 \* delay an audio encoder puts in front
          MaxGop,                  \* a keyframe at least every MaxGop frames
          Boot,                    \* clock of the system at time 0
          VideoLatency, AudioLatency,  \* from capture to the encoded packet
          Jitter,                  \* by which a packet may come late
          MaxAge,                  \* bound: age of the encoders at the start
          Horizon,                 \* bound: length of a session
          MaxSessions              \* bound: starts of the output

ASSUME FramesAssumption ==
  /\ NumTracks \in Nat \ {0} /\ VideoFrame \in Nat \ {0} /\ AudioFrame \in Nat \ {0}
  /\ PtsLag \in Nat /\ Priming \in Nat /\ MaxGop \in Nat \ {0}
ASSUME TimesAssumption ==
  /\ VideoLatency \in Nat /\ AudioLatency \in Nat /\ Jitter \in Nat
  /\ MaxAge \in Nat /\ Horizon \in Nat /\ MaxSessions \in Nat
  /\ Boot \in Nat /\ Boot > PtsLag + Priming

Video == 0
Tracks == 1 .. NumTracks
Streams == {Video} \cup Tracks
Frame(s) == IF s = Video THEN VideoFrame ELSE AudioFrame
Latency(s) == IF s = Video THEN VideoLatency ELSE AudioLatency

VARIABLES
  packets,                          \* interleaved_packets
  received_video, received_audio,   \* a packet of the kind has come
  video_offset, audio_offsets,
  highest_video_ts, highest_audio_ts,
  max_batch,                        \* interleaver_max_batch_size
  next, gop,                        \* encoders: next packet, frames since a keyframe
  origin,                           \* encoders: when they were started
  session,                          \* starts of the output so far
  sent                              \* what the output was given in this session

flags == <<received_video, received_audio>>
offsets == <<video_offset, audio_offsets>>
highest == <<highest_video_ts, highest_audio_ts>>
vars == <<packets, received_video, received_audio, video_offset, audio_offsets,
          highest_video_ts, highest_audio_ts, max_batch, next, gop, origin, session, sent>>

Distance(a, b) == IF a < b THEN b - a ELSE a - b

(* was_started of the code *)
Started == received_video /\ received_audio

-----------------------------------------------------------------------------
(* The list of packets *)

(* insert_interleaved_packet(): the scan stops at a later packet, that of a *)
(* video packet at an equal one.                                            *)
StopsAt(p, q) == IF p.stream = Video THEN p.ts <= q.ts ELSE p.ts < q.ts

(* Faulty variant: video goes behind its equals, too. *)
StopsAtLater(p, q) == p.ts < q.ts

Insert(seq, p) ==
  LET behind == {i \in DOMAIN seq : StopsAt(p, seq[i])}
      at == IF behind = {} THEN Len(seq) + 1 ELSE Min(behind)
  IN SubSeq(seq, 1, at - 1) \o <<p>> \o SubSeq(seq, at, Len(seq))

(* resort_interleaved_packets() *)
Resort(seq) ==
  LET sorted[i \in 0 .. Len(seq)] == IF i = 0 THEN << >> ELSE Insert(sorted[i - 1], seq[i])
  IN sorted[Len(seq)]

From(seq, i) == SubSeq(seq, i, Len(seq))

IndicesOf(seq, s) == {i \in DOMAIN seq : seq[i].stream = s}
AudioIndices(seq) == {i \in DOMAIN seq : seq[i].stream # Video}
Has(seq, s) == IndicesOf(seq, s) # {}
FirstIndex(seq, s) == Min(IndicesOf(seq, s))
LastIndex(seq, s) == Max(IndicesOf(seq, s))
FirstOf(seq, s) == seq[FirstIndex(seq, s)]

(* get_audio_and_video_packets() *)
Complete(seq) == \A s \in Streams : Has(seq, s)

-----------------------------------------------------------------------------
(* The starting point *)

Pts(p) == IF p.stream = Video THEN p.dts + PtsLag ELSE p.dts

ClosestAudio(seq) ==
  LET off(i) == Distance(seq[i].ts, FirstOf(seq, Video).ts)
      least == Min({off(i) : i \in AudioIndices(seq)})
  IN Min({i \in AudioIndices(seq) : off(i) = least})

(* Faulty variant: the audio alone decides. *)
StartAtAudio(seq) == ClosestAudio(seq)

(* get_interleaved_start_idx() *)
StartIndex(seq) ==
  LET near == Min({FirstIndex(seq, Video), ClosestAudio(seq)})
      audio == Min({i \in AudioIndices(seq) : i >= near})
  IN IF Pts(seq[audio]) > 0 THEN near
     ELSE Min({near} \cup {FirstIndex(seq, t) : t \in {u \in Tracks : Has(seq, u)}})

(* prune_premature_packets(): of the audio encoders the last one counts. *)
SyncLimit == IF NumTracks > 1 /\ VideoFrame < AudioFrame THEN AudioFrame ELSE VideoFrame

(* Faulty variant: the difference is taken the wrong way round. *)
VideoTooLate(seq) == FirstOf(seq, Video).ts - FirstOf(seq, NumTracks).ts > SyncLimit

TooFarApart(seq) == FirstOf(seq, NumTracks).ts - FirstOf(seq, Video).ts > SyncLimit

(* prune_interleaved_packets() *)
Prune(seq) ==
  From(seq, IF TooFarApart(seq) THEN 1 + Max({FirstIndex(seq, s) : s \in Streams})
            ELSE StartIndex(seq))

(* "ensure that there is audio past the first video packet" *)
Ready(seq) ==
  /\ Complete(seq)
  /\ \A t \in Tracks : seq[LastIndex(seq, t)].ts >= FirstOf(seq, Video).ts

-----------------------------------------------------------------------------
(* hook_data_capture() with reset_packet_data() and calculate_batch_size(). *)
(* The encoders are new, or another output has been using them for a while; *)
(* the audio encoders are fed by one thread, track by track.                *)

BatchSize ==
  LET largest == Max({VideoFrame, AudioFrame})
  IN (2 * largest) \div VideoFrame + NumTracks * ((2 * largest) \div AudioFrame)

(* What each encoder hands over first when the output is attached to        *)
(* encoders of a certain age: what is due then, and video waits for a       *)
(* keyframe.  New encoders are paired and start together.                   *)
Begins ==
  {[s \in Streams |-> 0]} \cup
  {b \in [Streams -> 0 .. MaxAge + MaxGop * VideoFrame + AudioFrame] :
     /\ \A s \in Streams : b[s] % Frame(s) = 0
     /\ \A t, u \in Tracks : b[t] - b[u] \in {-AudioFrame, 0, AudioFrame}
     /\ \E age \in 1 .. MaxAge :
          /\ \A s \in Streams : b[s] + Latency(s) + Jitter >= age
          /\ \A t \in Tracks : b[t] + Latency(t) < age + AudioFrame
          /\ b[Video] + Latency(Video) < age + MaxGop * VideoFrame}

Init ==
  /\ packets = << >> /\ received_video = FALSE /\ received_audio = FALSE
  /\ video_offset = 0 /\ audio_offsets = [t \in Tracks |-> 0]
  /\ highest_video_ts = -Boot /\ highest_audio_ts = 0
  /\ max_batch = BatchSize
  /\ next \in Begins /\ gop = 0 /\ origin = 0
  /\ session = 1 /\ sent = << >>

(* Faulty variant: the packets of the last session are kept. *)
ResetFlagsOnly ==
  /\ UNCHANGED <<packets, offsets, highest>>
  /\ received_video' = FALSE /\ received_audio' = FALSE

(* reset_packet_data() *)
ResetPackets ==
  /\ packets' = << >> /\ received_video' = FALSE /\ received_audio' = FALSE
  /\ video_offset' = 0 /\ audio_offsets' = [t \in Tracks |-> 0]
  /\ highest_video_ts' = -Boot /\ highest_audio_ts' = 0

(* The output is stopped and started again: its packets are dropped and the *)
(* encoders are started anew or have run on for another output.  The batch  *)
(* size is added to the one there is.                                       *)
Restart ==
  /\ session < MaxSessions
  /\ session' = session + 1
  /\ ResetPackets
  /\ max_batch' = max_batch + BatchSize
  /\ origin' = Max({next[s] : s \in Streams})
  /\ \E b \in Begins : next' = [s \in Streams |-> origin' + b[s]]
  /\ gop' = 0 /\ sent' = << >>

-----------------------------------------------------------------------------
(* The encoders: packets come in the order in which they are due, or late   *)
(* by up to Jitter; the audio thread feeds one track after the other.       *)

Arrives(s, key) ==
  /\ next[s] <= origin + Horizon
  /\ \A t \in Streams : next[s] + Latency(s) <= next[t] + Latency(t) + Jitter
  /\ s # Video =>
       \A t \in Tracks : next[s] <= next[t] /\ (t < s => next[s] < next[t])
  /\ key => s = Video
  /\ (s = Video /\ gop \in {0, MaxGop}) => key
  /\ next' = [next EXCEPT ![s] = @ + Frame(s)]
  /\ gop' = IF s # Video THEN gop ELSE IF key THEN 1 ELSE gop + 1

Arrived(s, key) ==
  [stream |-> s, key |-> key, at |-> next[s], ts |-> Boot + next[s],
   dts |-> next[s] - origin - (IF s = Video THEN PtsLag ELSE Priming)]

(* "if first video frame is not a keyframe, discard until received", and    *)
(* the audio before it with it                                              *)
Discard ==
  /\ ~received_video
  /\ Arrives(Video, FALSE)
  /\ LET p == Arrived(Video, FALSE)
         kept == {i \in DOMAIN packets : packets[i].ts >= p.ts}
     IN packets' = IF kept = {} THEN << >> ELSE From(packets, Min(kept))
  /\ UNCHANGED <<flags, offsets, highest, max_batch, origin, session, sent>>

(* Faulty variant: one track is enough to have received the audio. *)
WaitForgettingTracks(seq, video, audio) ==
  /\ packets' = seq /\ received_video' = video
  /\ received_audio' = (audio \/ AudioIndices(seq) # {})
  /\ UNCHANGED <<offsets, highest, sent>>

(* check_received() and, once audio and video have come, the search for a   *)
(* starting point: nothing is sent as long as it fails.  Each failure takes *)
(* back one of the flags.                                                   *)
Wait(seq, video, audio) ==
  /\ packets' = seq /\ received_video' = video /\ received_audio' = audio
  /\ UNCHANGED <<offsets, highest, sent>>

(* apply_interleaved_packet_offset() *)
Apply(video, audio, p) ==
  LET dts == p.dts - (IF p.stream = Video THEN video ELSE audio[p.stream])
  IN [p EXCEPT !.dts = dts, !.ts = dts]

(* Faulty variant: the offset of audio is taken as it is. *)
AnyAudioOffset(seq, t) == FirstOf(seq, t).dts

AudioOffset(seq, t) ==
  IF FirstOf(seq, t).dts > 0 THEN FirstOf(seq, t).dts ELSE 0

HighestOf(seq, S, before) == Max({before} \cup {seq[i].ts : i \in {j \in DOMAIN seq : seq[j].stream \in S}})

(* initialize_interleaved_packets(), resort, send_interleaved() *)
Begin(kept) ==
  LET video == Pts(FirstOf(kept, Video))
      audio == [t \in Tracks |-> AudioOffset(kept, t)]
      sorted == Resort([i \in DOMAIN kept |-> Apply(video, audio, kept[i])])
  IN /\ received_video' = TRUE /\ received_audio' = TRUE
     /\ video_offset' = video /\ audio_offsets' = audio
     /\ highest_video_ts' = HighestOf(sorted, {Video}, highest_video_ts)
     /\ highest_audio_ts' = HighestOf(sorted, Tracks, highest_audio_ts - FirstOf(kept, 1).ts)
     /\ packets' = Tail(sorted) /\ sent' = Append(sent, Head(sorted))

Collect(s, key) ==
  /\ ~Started
  /\ s = Video /\ ~received_video => key
  /\ Arrives(s, key)
  /\ LET seq == Insert(packets, Arrived(s, key))
         video == received_video \/ s = Video
         audio == received_audio \/ s # Video
         pruned == Prune(seq)
         kept == IF Ready(pruned) THEN From(pruned, StartIndex(pruned)) ELSE pruned
     IN \/ ~(video /\ audio) /\ Wait(seq, video, audio)
        \/ video /\ audio /\ ~Complete(seq) /\ Wait(seq, TRUE, ~Has(seq, Video))
        \/ /\ video /\ audio /\ Complete(seq) /\ ~Complete(kept)
           /\ Wait(kept, Has(kept, Video), ~Has(kept, Video))
        \/ /\ video /\ audio /\ Complete(seq) /\ Complete(kept) /\ ~Ready(pruned)
           /\ Wait(kept, TRUE, FALSE)
        \/ /\ video /\ audio /\ Complete(seq) /\ Complete(kept) /\ Ready(pruned)
           /\ Begin(kept)
  /\ UNCHANGED <<max_batch, origin, session>>

(* Faulty variant: audio waits for nothing. *)
HasHigherAudio(p, video, audio) == p.stream # Video \/ audio > p.ts

(* has_higher_opposing_ts() *)
HasHigherOpposing(p, video, audio) == IF p.stream = Video THEN audio > p.ts ELSE video > p.ts

(* count_streamable_frames() *)
Streamable(seq, video, audio) ==
  LET stuck == {i \in DOMAIN seq : ~HasHigherOpposing(seq[i], video, audio)}
  IN IF stuck = {} THEN Len(seq) ELSE Min(stuck) - 1

(* send_interleaved(): one packet, another one if too many are queued *)
Send(seq, streamable) ==
  LET n == IF streamable = 0 THEN 0 ELSE IF streamable - 1 > max_batch THEN 2 ELSE 1
  IN packets' = From(seq, n + 1) /\ sent' = sent \o SubSeq(seq, 1, n)

Interleave(s, key) ==
  /\ Started
  /\ Arrives(s, key)
  /\ LET p == Apply(video_offset, audio_offsets, Arrived(s, key))
         seq == Insert(packets, p)
         video == HighestOf(<<p>>, {Video}, highest_video_ts)
         audio == HighestOf(<<p>>, Tracks, highest_audio_ts)
     IN /\ highest_video_ts' = video /\ highest_audio_ts' = audio
        /\ Send(seq, Streamable(seq, video, audio))
  /\ UNCHANGED <<flags, offsets, max_batch, origin, session>>

Next ==
  \/ Restart
  \/ Discard
  \/ \E s \in Streams, key \in BOOLEAN : Collect(s, key)
  \/ \E s \in Streams, key \in BOOLEAN : Interleave(s, key)

Spec == Init /\ [][Next]_vars

-----------------------------------------------------------------------------
(* Properties *)

Packet == [stream : Streams, key : BOOLEAN, at : Nat, dts : Int, ts : Int]

(* The types of the list, of the offsets and of the clocks. *)
TypeOK ==
  /\ packets \in Seq(Packet) /\ sent \in Seq(Packet)
  /\ received_video \in BOOLEAN /\ received_audio \in BOOLEAN
  /\ video_offset \in Int /\ audio_offsets \in [Tracks -> Nat]
  /\ highest_video_ts \in Int /\ highest_audio_ts \in Int
  /\ max_batch \in Nat /\ next \in [Streams -> Nat] /\ gop \in 0 .. MaxGop
  /\ origin \in Nat /\ session \in Nat

(* "This ensures that the timestamps are monotonic." *)
SentInOrder == \A i \in 1 .. Len(sent) - 1 : sent[i].ts <= sent[i + 1].ts

(* The packets of a stream follow each other up to the one received last. *)
Unbroken(seq, s) ==
  LET own == IndicesOf(seq, s)
      following(i, j) == i < j /\ ~ \E k \in own : i < k /\ k < j
  IN /\ own # {} /\ seq[Max(own)].at = next[s] - Frame(s)
     /\ \A i, j \in own : following(i, j) => seq[j].at = seq[i].at + Frame(s)

(* From its first packet on, a stream is sent or queued without a gap, a    *)
(* repetition or a change of order; and as every failure of the search      *)
(* takes back a flag, packets are rebased one by one only after all the     *)
(* offsets have been set.                                                   *)
StreamsWhole ==
  /\ Started <=> sent # << >>
  /\ Started => \A s \in Streams : Unbroken(sent \o packets, s)

(* What is sent of the video begins with a keyframe. *)
StartsOnKeyframe ==
  \A i \in DOMAIN sent :
    (sent[i].stream = Video /\ \A j \in 1 .. i - 1 : sent[j].stream # Video) => sent[i].key

(* Sound and picture begin together as far as prune_premature_packets()     *)
(* sees to it: the track it compares last begins within a packet of the     *)
(* video, however old the encoders are and however long the search took.    *)
LargestFrame == Max({VideoFrame, AudioFrame})
InSync(t) == Distance(video_offset, audio_offsets[t]) <= Priming + LargestFrame
LastTrackInSync == Started => InSync(NumTracks)

-----------------------------------------------------------------------------
(* What the comments say and the code does not do *)

(* "the first audio packet may not be quite perfectly synced up [...] but   *)
(* it will always at least be within a 23ish millisecond threshold (at      *)
(* least for AAC)" (obs-output.c:1459-1464): so every track begins within a *)
(* packet of the video.  The largest difference is computed for that        *)
(* (max_diff) and the one of the last track compared.                       *)
EveryTrackInSync == Started => \A t \in Tracks : InSync(t)
=============================================================================
