---------------------------- MODULE ReplayBuffer ----------------------------
(***************************************************************************)
(* One replay_buffer output of obs-lite: plugins/obs-ffmpeg/               *)
(* obs-ffmpeg-mux.c with the part of frontend/recorder.cpp that drives it. *)
(*                                                                         *)
(* Four threads act on it.                                                 *)
(*   data  an encoder thread inside replay_buffer_data(), one at a time:   *)
(*         libobs holds interleaved_mutex around the callback              *)
(*   mux   replay_buffer_mux_thread(), one per save                        *)
(*   end   end_data_capture_thread() of libobs/obs-output.c                *)
(*   ui    the frontend: start, stop, save, shut down                      *)
(*                                                                         *)
(* The libobs side (obs_output) is reduced to what the callbacks read and  *)
(* write of it: capture is active and data_active together, stop_pending   *)
(* is a reset stopping_event.                                              *)
(***************************************************************************)
EXTENDS ReplayClip

CONSTANTS KeySizes, DeltaSizes, AudioSizes,  \* packet sizes, by kind
          MaxTime, MaxSize,     \* max_time_sec and max_size_mb (0: no cap)
          MaxGop,               \* a keyframe at least every MaxGop frames
          Latency,              \* packets in flight when a request is made
          HorizonTs,            \* bound: timestamps of a behaviour
          MaxStarts,            \* bound: starts of this output object
          MaxSaves,             \* bound: requests for a save
          GuardedSaves,         \* only Recorder::SaveReplay() asks for saves
          EncoderMayFail,       \* an encoder may report an error
          MuxMayFail,           \* the helper process may refuse data
          ThreadMayFail         \* pthread_create() may fail

ASSUME SizesAssumption ==
  /\ KeySizes \subseteq Nat \ {0} /\ DeltaSizes \subseteq Nat \ {0}
  /\ AudioSizes \subseteq Nat \ {0}
ASSUME BoundsAssumption ==
  /\ MaxTime \in Nat /\ MaxSize \in Nat /\ MaxGop \in Nat \ {0}
  /\ Latency \in Nat /\ HorizonTs \in Nat /\ MaxStarts \in Nat
  /\ MaxSaves \in Nat
ASSUME SwitchesAssumption ==
  /\ GuardedSaves \in BOOLEAN /\ EncoderMayFail \in BOOLEAN
  /\ MuxMayFail \in BOOLEAN /\ ThreadMayFail \in BOOLEAN

VARIABLES
  packets, keyframes, cur_size, cur_time,     \* the ring and its counters
  max_size, max_time,                         \* its limits
  active, capturing, stopping, stop_ts,       \* the flags of ffmpeg_muxer
  save_ts, muxing, mux_joinable, mux_packets, \* the save in progress
  data, pkt, failing,         \* data thread: where it is, its packet, its code
  mux, written,               \* mux thread: where it is, packets written
  capture, stop_pending,      \* the obs_output underneath
  next, base, gop,            \* encoders: next timestamp per stream, start
                              \* of the session, frames since a keyframe
  enc_error,                  \* encoder failure: none, forced, reported
  starts, saves, ui,          \* frontend: sessions and requests so far, shutdown
  replaySaving,               \* Recorder::replaySaving
  clip_source, clip_end,      \* auxiliary: ring and time of the last save
  asked_ts, refs              \* auxiliary: last request, packet references

ring == <<packets, keyframes, cur_size, cur_time>>
limits == <<max_size, max_time>>
flags == <<active, capturing, stopping, stop_ts>>
save == <<save_ts, muxing, mux_joinable, mux_packets, clip_source, clip_end>>
dataThread == <<data, pkt, failing>>
muxThread == <<mux, written>>
output == <<capture, stop_pending>>
encoders == <<next, base, gop, enc_error>>
frontend == <<starts, saves, ui, replaySaving, asked_ts>>

vars == <<packets, keyframes, cur_size, cur_time, max_size, max_time,
          active, capturing, stopping, stop_ts,
          save_ts, muxing, mux_joinable, mux_packets, data, pkt, failing,
          mux, written, capture, stop_pending, next, base, gop, enc_error,
          starts, saves, ui, replaySaving, clip_source, clip_end, asked_ts, refs>>

NoPacket == [stream |-> Video, key |-> FALSE, dts |-> 0, size |-> 0]

-----------------------------------------------------------------------------
(* Timestamps.  sys_dts of a packet is its dts plus the session's start.    *)

SysDts(p) == p.dts + base
LastSys == LET newest == CHOOSE s \in Streams : \A t \in Streams : next[s] >= next[t]
           IN next[newest]
(* os_gettime_ns() when a request is made: ahead of every delivered packet. *)
(* Bound: nothing is asked for that no packet before the horizon can serve. *)
Now == {ts \in LastSys .. LastSys + Latency : ts <= HorizonTs}

Init ==
  /\ packets = << >> /\ keyframes = 0 /\ cur_size = 0 /\ cur_time = 0
  /\ max_size = 0 /\ max_time = 0
  /\ active = FALSE /\ capturing = FALSE /\ stopping = FALSE /\ stop_ts = 0
  /\ save_ts = 0 /\ muxing = FALSE /\ mux_joinable = FALSE /\ mux_packets = << >>
  /\ data = "idle" /\ pkt = NoPacket /\ failing = FALSE
  /\ mux = "none" /\ written = 0
  /\ capture = "idle" /\ stop_pending = FALSE
  /\ next = [s \in Streams |-> 1] /\ base = 1 /\ gop = 0 /\ enc_error = "none"
  /\ starts = 0 /\ saves = 0 /\ ui = "running" /\ replaySaving = FALSE
  /\ clip_source = << >> /\ clip_end = 0 /\ asked_ts = 0 /\ refs = 0

(* The purge touches nothing but the ring, which only the data thread sees: *)
(* no step of another thread is interleaved with its loops.                 *)
Purging == data \in {"purge", "size", "size to keyframe", "time", "time to keyframe"}

-----------------------------------------------------------------------------
(* libobs underneath: obs_output_end_data_capture(), also reached through   *)
(* obs_output_signal_stop(), and its end thread.                            *)

EndDataCapture ==
  /\ capture' = IF capture = "active" THEN "ending" ELSE capture
  /\ stop_pending' = (stop_pending /\ capture = "active")

(* obs_encoder_stop() takes callbacks_mutex, which a packet callback holds; *)
(* full_stop() reports an encoder error without it.                         *)
EndThread ==
  /\ capture = "ending"
  /\ data = "idle" \/ failing
  /\ capture' = "idle" /\ stop_pending' = FALSE
  /\ UNCHANGED <<ring, limits, flags, save, dataThread, muxThread, encoders, frontend, refs>>

(* ffmpeg_mux_stop(), the stop callback of the output *)
MuxStop(ts) ==
  IF capturing \/ ts = 0
  THEN stop_ts' = ts /\ stopping' = TRUE /\ capturing' = FALSE /\ UNCHANGED active
  ELSE UNCHANGED flags

-----------------------------------------------------------------------------
(* The frontend *)

(* Recorder::StartReplayBuffer() down to replay_buffer_start(): neither the *)
(* ring nor stopping is reset here.  The frontend makes an output for every *)
(* start; a second start of this one is that of another user of the API.    *)
StartReplayBuffer ==
  /\ ui = "running" /\ ~Purging /\ starts < MaxStarts
  /\ capture = "idle" /\ ~stop_pending
  /\ starts' = starts + 1
  /\ max_time' = MaxTime /\ max_size' = MaxSize
  /\ active' = TRUE /\ capturing' = TRUE
  /\ capture' = "active"
  /\ base' = LastSys /\ next' = [s \in Streams |-> LastSys]
  /\ gop' = 0 /\ enc_error' = "none"
  /\ UNCHANGED <<ring, stopping, stop_ts, save, dataThread, muxThread, stop_pending,
                 saves, ui, replaySaving, asked_ts, refs>>

(* Recorder::StopReplayBuffer() and obs_output_stop() *)
StopReplayBuffer ==
  /\ ui = "running" /\ ~Purging
  /\ capture # "idle" /\ ~stop_pending
  /\ stop_pending' = TRUE
  /\ \E ts \in Now : MuxStop(ts)
  /\ UNCHANGED <<ring, limits, save, dataThread, muxThread, capture, encoders, frontend, refs>>

(* replay_buffer_hotkey(), behind the "save" procedure *)
RequestSave ==
  /\ saves < MaxSaves
  /\ saves' = saves + 1
  /\ IF active THEN \E ts \in Now : save_ts' = ts /\ asked_ts' = ts
               ELSE UNCHANGED <<save_ts, asked_ts>>

(* Faulty variant: a second click is not refused. *)
AnyClickSaves == capture # "idle"

MaySave == capture # "idle" /\ ~replaySaving

SaveReplay ==
  /\ ui = "running" /\ ~Purging /\ MaySave
  /\ replaySaving' = TRUE
  /\ RequestSave
  /\ UNCHANGED <<ring, limits, flags, muxing, mux_joinable, mux_packets, clip_source, clip_end,
                 dataThread, muxThread, output, encoders, starts, ui, refs>>

(* The libobs hotkey "ReplayBuffer.Save", which asks without the guard *)
SaveHotkey ==
  /\ ~GuardedSaves /\ ui = "running" /\ ~Purging
  /\ RequestSave
  /\ UNCHANGED <<ring, limits, flags, muxing, mux_joinable, mux_packets, clip_source, clip_end,
                 dataThread, muxThread, output, encoders, starts, ui, replaySaving, refs>>

(* Recorder::DestroyOutputs(): obs_output_force_stop(), then the release *)
Shutdown ==
  /\ ui = "running" /\ ~Purging /\ starts > 0
  /\ capture = "idle" \/ Now # {}
  /\ ui' = "releasing" /\ replaySaving' = FALSE
  /\ stop_pending' = TRUE
  /\ MuxStop(0)
  /\ UNCHANGED <<ring, limits, save, dataThread, muxThread, capture, encoders, starts, saves, asked_ts, refs>>

(* Faulty variant: the deque is freed, its packets are not released. *)
ClearRingLeaks ==
  /\ packets' = << >> /\ keyframes' = 0 /\ cur_size' = 0 /\ cur_time' = 0
  /\ max_size' = 0 /\ max_time' = 0 /\ save_ts' = 0
  /\ UNCHANGED refs

(* replay_buffer_clear() *)
ClearRing ==
  /\ packets' = << >> /\ keyframes' = 0 /\ cur_size' = 0 /\ cur_time' = 0
  /\ max_size' = 0 /\ max_time' = 0 /\ save_ts' = 0
  /\ refs' = refs - Len(packets)

(* obs_output_destroy(): wait for stopping_event and for the end thread,    *)
(* then replay_buffer_destroy()                                             *)
Destroy ==
  /\ ui = "releasing" /\ ~Purging /\ ~stop_pending /\ capture = "idle"
  /\ ClearRing
  /\ ui' = "joining"
  /\ UNCHANGED <<flags, muxing, mux_joinable, mux_packets, clip_source, clip_end, dataThread,
                 muxThread, output, encoders, starts, saves, replaySaving, asked_ts>>

DestroyJoin ==
  /\ ui = "joining" /\ ~Purging /\ (mux_joinable => mux = "exited")
  /\ ui' = "destroyed"
  /\ mux' = "none" /\ mux_joinable' = FALSE
  /\ mux_packets' = << >>
  /\ refs' = refs - Len(mux_packets)
  /\ UNCHANGED <<ring, limits, flags, save_ts, muxing, clip_source, clip_end, dataThread, written,
                 output, encoders, starts, saves, replaySaving, asked_ts>>

-----------------------------------------------------------------------------
(* The data thread: replay_buffer_data() on one packet.                     *)

SizesOf(s, key) == IF s # Video THEN AudioSizes ELSE IF key THEN KeySizes ELSE DeltaSizes

(* The interleaver delivers in timestamp order; the first frame of a        *)
(* session is a keyframe.                                                   *)
Deliver(s, key, size) ==
  /\ data = "idle" /\ capture # "idle"
  /\ next[s] <= HorizonTs
  /\ \A t \in Streams : next[s] <= next[t]
  /\ size \in SizesOf(s, key)
  /\ key => s = Video
  /\ (s = Video /\ gop \in {0, MaxGop}) => key
  /\ next' = [next EXCEPT ![s] = @ + 1]
  /\ gop' = IF s # Video THEN gop ELSE IF key THEN 1 ELSE gop + 1
  /\ LET p == [stream |-> s, key |-> key, dts |-> next[s] - base, size |-> size]
         last == stopping /\ SysDts(p) >= stop_ts
     IN \/ ~active /\ UNCHANGED <<dataThread, refs>>
        \/ active /\ last /\ data' = "end capture" /\ pkt' = p /\ UNCHANGED <<failing, refs>>
        \/ active /\ ~last /\ data' = "purge" /\ pkt' = p /\ refs' = refs + 1 /\ UNCHANGED failing
  /\ UNCHANGED <<ring, limits, flags, save, muxThread, output, base, enc_error, frontend>>

DeliverPacket == \E s \in Streams, key \in BOOLEAN, size \in KeySizes \cup DeltaSizes \cup AudioSizes :
                    Deliver(s, key, size)

(* full_stop() of libobs/obs-encoder.c: force the output to stop, then hand *)
(* it no packet                                                             *)
EncoderFails ==
  /\ EncoderMayFail /\ ~Purging /\ enc_error = "none" /\ capture = "active"
  /\ enc_error' = "forced"
  /\ stop_pending' = TRUE
  /\ MuxStop(0)
  /\ UNCHANGED <<ring, limits, save, dataThread, muxThread, capture, next, base, gop, frontend, refs>>

DeliverError ==
  /\ enc_error = "forced" /\ data = "idle"
  /\ enc_error' = "reported"
  /\ IF active THEN data' = "end capture" /\ failing' = TRUE ELSE UNCHANGED <<data, failing>>
  /\ UNCHANGED <<ring, limits, flags, save, pkt, muxThread, output, next, base, gop, frontend, refs>>

(* Faulty variant: a stop that was asked for does not end the capture. *)
EndsOnErrorOnly == failing

EndsCapture == failing \/ stopping

(* deactivate_replay_buffer(): the output first, the own state after it *)
EndCapture ==
  /\ data = "end capture"
  /\ data' = "deactivate"
  /\ IF EndsCapture THEN EndDataCapture ELSE UNCHANGED output
  /\ UNCHANGED <<ring, limits, flags, save, pkt, failing, muxThread, encoders, frontend, refs>>

Deactivate ==
  /\ data = "deactivate"
  /\ data' = "idle" /\ failing' = FALSE
  /\ active' = FALSE /\ stopping' = FALSE
  /\ ClearRing
  /\ UNCHANGED <<capturing, stop_ts, muxing, mux_joinable, mux_packets, clip_source, clip_end,
                 pkt, muxThread, output, encoders, frontend>>

(* Faulty variant: one group of pictures more is kept. *)
FourKeyframesToPurge == packets = << >> \/ keyframes <= 3

(* replay_buffer_purge(): a loop for the size and a loop for the time, each *)
(* iteration a call of purge(), which goes on to the next keyframe when it  *)
(* has removed one                                                          *)
TooFewToPurge == packets = << >> \/ keyframes <= 2

(* Faulty variants: any video frame passes for a keyframe, or any packet. *)
FrontIsVideo == packets # << >> /\ Head(packets).stream = Video
FrontIsAny == packets # << >>

FrontIsKeyframe == packets # << >> /\ IsKeyframe(Head(packets))

Freed == Head(packets).size

(* Faulty variants: a packet exactly max_time old is purged; the age is     *)
(* taken from the start of the session.                                     *)
TooOldOrEqual == pkt.dts - cur_time >= max_time
TooOldSinceStart == pkt.dts > max_time

TooOld == pkt.dts - cur_time > max_time
TooBig == cur_size + pkt.size > max_size

Purge ==
  /\ data = "purge"
  /\ data' = IF TooFewToPurge THEN "push" ELSE IF max_size # 0 THEN "size" ELSE "time"
  /\ UNCHANGED <<ring, limits, flags, save, pkt, failing, muxThread, output, encoders, frontend, refs>>

PurgeFront ==
  IF packets = << >> THEN UNCHANGED <<ring, refs>>
  ELSE /\ packets' = Tail(packets)
       /\ keyframes' = keyframes - (IF FrontIsKeyframe THEN 1 ELSE 0)
       /\ IF Len(packets) = 1 THEN cur_size' = 0 /\ cur_time' = 0
          ELSE /\ cur_size' = cur_size - Freed
               /\ cur_time' = packets[2].dts
       /\ refs' = refs - 1

PurgeForSize ==
  /\ data = "size"
  /\ IF TooBig
     THEN PurgeFront /\ data' = IF FrontIsKeyframe THEN "size to keyframe" ELSE "size"
     ELSE /\ UNCHANGED <<ring, refs>>
          /\ data' = IF TooFewToPurge THEN "push" ELSE "time"
  /\ UNCHANGED <<limits, flags, save, pkt, failing, muxThread, output, encoders, frontend>>

PurgeForTime ==
  /\ data = "time"
  /\ IF TooOld
     THEN PurgeFront /\ data' = IF FrontIsKeyframe THEN "time to keyframe" ELSE "time"
     ELSE UNCHANGED <<ring, refs>> /\ data' = "push"
  /\ UNCHANGED <<limits, flags, save, pkt, failing, muxThread, output, encoders, frontend>>

PurgeToKeyframe ==
  /\ data \in {"size to keyframe", "time to keyframe"}
  /\ IF packets = << >> \/ FrontIsKeyframe
     THEN /\ data' = IF data = "size to keyframe" THEN "size" ELSE "time"
          /\ UNCHANGED <<ring, refs>>
     ELSE PurgeFront /\ UNCHANGED data
  /\ UNCHANGED <<limits, flags, save, pkt, failing, muxThread, output, encoders, frontend>>

(* Faulty variant: the session-relative timestamp against a system time. *)
SaveDueByDts == save_ts # 0 /\ pkt.dts >= save_ts

SaveDue == save_ts # 0 /\ SysDts(pkt) >= save_ts

(* Faulty variant: the mux thread of the last save is not joined. *)
SaveWithoutJoin == IF ~SaveDue \/ muxing THEN "idle" ELSE "save"

AfterPush == IF ~SaveDue \/ muxing THEN "idle" ELSE IF mux_joinable THEN "join" ELSE "save"

Push ==
  /\ data = "push"
  /\ packets' = Append(packets, pkt)
  /\ cur_time' = IF packets = << >> THEN pkt.dts ELSE cur_time
  /\ cur_size' = cur_size + pkt.size
  /\ keyframes' = keyframes + (IF IsKeyframe(pkt) THEN 1 ELSE 0)
  /\ data' = AfterPush
  /\ UNCHANGED <<limits, flags, save, pkt, failing, muxThread, output, encoders, frontend, refs>>

Join ==
  /\ data = "join" /\ mux = "exited"
  /\ data' = "save" /\ mux' = "none" /\ mux_joinable' = FALSE
  /\ UNCHANGED <<ring, limits, flags, save_ts, muxing, mux_packets, clip_source, clip_end,
                 pkt, failing, written, output, encoders, frontend, refs>>

(* replay_buffer_save() *)
Save ==
  /\ data = "save"
  /\ data' = "idle"
  /\ save_ts' = 0
  /\ mux_packets' = Clip(mux_packets, packets)
  /\ clip_source' = packets /\ clip_end' = SysDts(pkt)
  /\ refs' = refs + Len(packets)
  /\ written' = 0
  /\ \/ muxing' = TRUE /\ mux_joinable' = TRUE /\ mux' = "open"
     \/ ThreadMayFail /\ muxing' = FALSE /\ mux_joinable' = FALSE /\ UNCHANGED mux
  /\ UNCHANGED <<ring, limits, flags, pkt, failing, output, encoders, frontend>>

-----------------------------------------------------------------------------
(* The mux thread: replay_buffer_mux_thread() *)

(* start_pipe() fails, or send_headers() finds no extra data.  A header the  *)
(* helper refuses counts as the first packet it refuses.                    *)
MuxOpen ==
  /\ mux = "open" /\ ~Purging
  /\ mux' = "write" \/ (MuxMayFail /\ mux' = "drop")
  /\ UNCHANGED <<ring, limits, flags, save, dataThread, written, output, encoders, frontend, refs>>

(* The loop over mux_packets: packets go through the pipe and are released, *)
(* until the pipe refuses one.  Nobody else sees these packets.             *)
MuxWrite ==
  /\ mux = "write" /\ ~Purging
  /\ \E n \in (IF MuxMayFail THEN 0 .. Len(mux_packets) ELSE {Len(mux_packets)}) :
       /\ written' = n /\ refs' = refs - n
       /\ mux' = IF n = Len(mux_packets) THEN "free" ELSE "fail"
  /\ UNCHANGED <<ring, limits, flags, save, dataThread, output, encoders, frontend>>

(* signal_failure(): deactivate(), obs_output_signal_stop(), capturing *)
MuxFail ==
  /\ mux = "fail" /\ ~Purging
  /\ mux' = "fail: end"
  /\ active' = FALSE
  /\ UNCHANGED <<ring, limits, capturing, stopping, stop_ts, save, dataThread, written, output,
                 encoders, frontend, refs>>

MuxFailEnd ==
  /\ mux = "fail: end" /\ ~Purging
  /\ mux' = "fail: stopping"
  /\ IF stopping THEN EndDataCapture ELSE UNCHANGED output
  /\ UNCHANGED <<ring, limits, flags, save, dataThread, written, encoders, frontend, refs>>

MuxFailStopping ==
  /\ mux = "fail: stopping" /\ ~Purging
  /\ mux' = "fail: signal"
  /\ stopping' = FALSE
  /\ UNCHANGED <<ring, limits, active, capturing, stop_ts, save, dataThread, written, output,
                 encoders, frontend, refs>>

MuxFailSignal ==
  /\ mux = "fail: signal" /\ ~Purging
  /\ mux' = "fail: capturing"
  /\ EndDataCapture
  /\ UNCHANGED <<ring, limits, flags, save, dataThread, written, encoders, frontend, refs>>

MuxFailCapturing ==
  /\ mux = "fail: capturing" /\ ~Purging
  /\ mux' = "drop"
  /\ capturing' = FALSE
  /\ UNCHANGED <<ring, limits, active, stopping, stop_ts, save, dataThread, written, output,
                 encoders, frontend, refs>>

(* The auxiliary record of a save ends with its thread. *)
ForgetClip == written' = 0 /\ clip_source' = << >> /\ clip_end' = 0

(* Faulty variant: the packets already written are released once more. *)
EveryPacket == Len(mux_packets)

Unwritten == Len(mux_packets) - written

(* The label "error": what was not written is released, mux_packets freed;  *)
(* "saved" is signalled only without an error.                              *)
MuxFree ==
  /\ mux \in {"free", "drop"} /\ ~Purging
  /\ mux' = IF mux = "free" THEN "signal" ELSE "exited"
  /\ refs' = refs - Unwritten
  /\ mux_packets' = << >> /\ muxing' = FALSE
  /\ IF mux = "free" THEN UNCHANGED <<written, clip_source, clip_end>> ELSE ForgetClip
  /\ UNCHANGED <<ring, limits, flags, save_ts, mux_joinable, dataThread, output, encoders,
                 frontend>>

(* The "saved" signal, received by Recorder::OnReplaySaved() *)
MuxSignalSaved ==
  /\ mux = "signal" /\ ~Purging
  /\ mux' = "exited"
  /\ replaySaving' = FALSE
  /\ ForgetClip
  /\ UNCHANGED <<ring, limits, flags, save_ts, muxing, mux_joinable, mux_packets, dataThread,
                 output, encoders, starts, saves, ui, asked_ts, refs>>

-----------------------------------------------------------------------------
UiNext == \/ StartReplayBuffer \/ StopReplayBuffer \/ SaveReplay \/ SaveHotkey
          \/ Shutdown \/ Destroy \/ DestroyJoin

DataNext == \/ EndCapture \/ Deactivate \/ Purge \/ PurgeForSize \/ PurgeForTime
            \/ PurgeToKeyframe \/ Push \/ Join \/ Save

EncoderNext == DeliverPacket \/ EncoderFails \/ DeliverError

MuxNext == \/ MuxOpen \/ MuxWrite \/ MuxFail \/ MuxFailEnd \/ MuxFailStopping
           \/ MuxFailSignal \/ MuxFailCapturing \/ MuxFree \/ MuxSignalSaved

Next == UiNext \/ EncoderNext \/ DataNext \/ MuxNext \/ EndThread

(* Every thread that is not waiting runs on, the encoders keep delivering,  *)
(* and a release of the output goes through to its end.  The user does what *)
(* he likes.                                                                *)
Fairness ==
  /\ WF_vars(DeliverPacket) /\ WF_vars(DeliverError)
  /\ WF_vars(DataNext) /\ WF_vars(MuxNext) /\ WF_vars(EndThread)
  /\ WF_vars(Destroy) /\ WF_vars(DestroyJoin)

Spec == Init /\ [][Next]_vars /\ Fairness

-----------------------------------------------------------------------------
(* Properties *)

DataStates == {"idle", "end capture", "deactivate", "purge", "size", "size to keyframe",
               "time", "time to keyframe", "push", "join", "save"}
MuxStates == {"none", "open", "write", "fail", "fail: end", "fail: stopping", "fail: signal",
              "fail: capturing", "drop", "free", "signal", "exited"}

RingTypeOK ==
  /\ packets \in Seq(Packet) /\ keyframes \in Nat /\ cur_size \in Int /\ cur_time \in Nat
  /\ max_size \in Nat /\ max_time \in Nat

FlagsTypeOK ==
  /\ active \in BOOLEAN /\ capturing \in BOOLEAN /\ stopping \in BOOLEAN /\ stop_ts \in Nat
  /\ capture \in {"idle", "active", "ending"} /\ stop_pending \in BOOLEAN

SaveTypeOK ==
  /\ save_ts \in Nat /\ muxing \in BOOLEAN /\ mux_joinable \in BOOLEAN
  /\ mux_packets \in Seq(ClipPacket) /\ mux \in MuxStates /\ written \in Nat
  /\ clip_source \in Seq(Packet) /\ clip_end \in Nat /\ asked_ts \in Nat

DataTypeOK ==
  /\ data \in DataStates /\ pkt \in Packet /\ failing \in BOOLEAN
  /\ next \in [Streams -> Nat] /\ base \in Nat /\ gop \in Nat
  /\ enc_error \in {"none", "forced", "reported"}

FrontendTypeOK ==
  /\ starts \in Nat /\ saves \in Nat /\ replaySaving \in BOOLEAN
  /\ ui \in {"running", "releasing", "joining", "destroyed"}

(* The types of the ring, its counters and the state of every thread. *)
TypeOK ==
  /\ RingTypeOK /\ FlagsTypeOK /\ SaveTypeOK /\ DataTypeOK /\ FrontendTypeOK
  /\ refs \in Int

(* keyframes and cur_time are maintained packet by packet by push,         *)
(* purge_front() and clear; they always say what the ring holds: how many   *)
(* keyframes, and how old its first packet is.                              *)
RingCounters ==
  /\ keyframes = Cardinality({i \in DOMAIN packets : IsKeyframe(packets[i])})
  /\ packets # << >> => cur_time = Head(packets).dts

(* Every reference taken on a packet is held by exactly one of the ring,    *)
(* the packet in hand and the unwritten rest of mux_packets, whichever way  *)
(* the save, the purge or the shutdown goes.                                *)
InHand == IF Purging \/ data = "push" THEN 1 ELSE 0
InClip == IF mux_packets = << >> THEN 0 ELSE Len(mux_packets) - written

PacketRefs == refs = Len(packets) + InHand + InClip

(* A new save starts only when the mux thread of the last one is gone and   *)
(* has freed mux_packets: "A save that is already in progress is not        *)
(* started a second time."                                                  *)
SaveExclusive ==
  data = "save" => /\ mux = "none" /\ ~muxing /\ ~mux_joinable
                   /\ ~ThreadMayFail => mux_packets = << >>

(* "The hard max_size_mb cap guarantees the buffer cannot grow without      *)
(* bound" (docs/replay-buffer.md:29-30).  replay_buffer_purge() leaves the  *)
(* last two keyframes and all that came after them, so what it guarantees   *)
(* is this: between two packets the packets in memory are within the cap,   *)
(* or they hold no more than the two and the one that has just come.        *)
CapKept == (data = "idle" /\ max_size # 0) => SizeSum(packets) <= max_size \/ keyframes <= 3

(* Saved clips begin, for the video, with a keyframe: the ring is purged by *)
(* whole groups of pictures.                                                *)
ClipDecodable ==
  \A i \in DOMAIN clip_source :
    (/\ clip_source[i].stream = Video
     /\ \A j \in 1 .. i - 1 : clip_source[j].stream # Video) => clip_source[i].key

(* While only the duration limits the ring, it keeps what was promised and  *)
(* no more: a clip reaches back over MaxTime less one group of pictures, or *)
(* to the start of the session; between two packets the ring spans at most  *)
(* MaxTime or, as it is not purged before its third keyframe, two groups.   *)
RingKeepsWindow ==
  /\ clip_source # << >> =>
       LET first == Head(clip_source).dts
           last == clip_source[Len(clip_source)].dts
       IN first = 0 \/ last - first > MaxTime - MaxGop
  /\ (data = "idle" /\ active /\ packets # << >>) =>
       LET span == packets[Len(packets)].dts - cur_time
       IN span <= MaxTime \/ span <= 2 * MaxGop

(* The sorted list is what insert_packet() builds packet by packet. *)
ClipIsInsertion ==
  data = "save" => Clip(mux_packets, packets) = ClipByInsertion(mux_packets, packets)

(* Which packet of its stream the i-th of a list is *)
InStream(seq, i) == Cardinality({j \in 1 .. i : seq[j].stream = seq[i].stream})

(* Interleaving by rebased dts never reorders a stream, and the list the    *)
(* mux thread writes is sorted; the streams are rebased each by its own     *)
(* offset, yet sound and picture of a clip drift apart by no more than one  *)
(* packet and the reordering lag.                                           *)
ClipOrdered ==
  /\ mux_packets # << >> =>
       /\ \A i \in 1 .. Len(mux_packets) - 1 : mux_packets[i].dts <= mux_packets[i + 1].dts
       /\ Len(mux_packets) = Len(clip_source)
       /\ \A i \in DOMAIN clip_source : \E k \in DOMAIN mux_packets :
            /\ mux_packets[k] = Rebase(clip_source, clip_source[i])
            /\ InStream(mux_packets, k) = InStream(clip_source, i)
  /\ clip_source # << >> =>
       \A s, t \in {p.stream : p \in {clip_source[i] : i \in DOMAIN clip_source}} :
         Offset(clip_source, s) - Offset(clip_source, t) <= PtsLag + 1

(* When the frontend hears "saved" and re-arms the button, every packet of  *)
(* the clip is in the file and the clip reaches the moment the user asked   *)
(* for it.                                                                  *)
SavedMeansSaved ==
  [][mux = "signal" /\ mux' = "exited" =>
       written = Len(clip_source) /\ clip_end >= asked_ts]_vars

(* Destroying the output finds no thread left inside it and leaks nothing.  *)
DestroyedQuiet == ui = "destroyed" => data = "idle" /\ mux = "none" /\ refs = 0

(* The purge loops of replay_buffer_purge() end: the encoder thread comes   *)
(* back from every packet, also when it joins a mux thread on the way.      *)
HandlerReturns == data # "idle" ~> data = "idle"

(* A save that was asked for is taken by a later packet, unless the session *)
(* ends first.                                                              *)
SaveServed == save_ts # 0 ~> (save_ts = 0 \/ ~active)

(* A stop that was asked for while the buffer runs ends the capture. *)
StopCompletes == (stop_pending /\ capture # "idle") ~> capture = "idle"

-----------------------------------------------------------------------------
(* What the documentation says and the code does not do *)

(* docs/replay-buffer.md: "If the disk is full or unwritable, the save      *)
(* fails with an error message and the buffer keeps running."  Only a stop  *)
(* that was asked for may deactivate the buffer.                            *)
DiskFailureKeepsRunning == [][active /\ ~active' => stop_pending]_vars

(* Recorder::SaveReplay(): "OnReplaySaved clears replaySaving when muxing   *)
(* completes"                                                               *)
SaveRearms == replaySaving ~> ~replaySaving

(* docs/sphinx/reference-outputs.rst, obs_output_release(): "When the last  *)
(* reference is released, the output is destroyed."                         *)
ReleaseDestroys == ui = "releasing" ~> ui = "destroyed"
=============================================================================
