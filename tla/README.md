# A TLA+ specification of obs-light

obs-light (obs-lite) is a small recording program: a Qt frontend on top of the
capture, encoding and output layers of OBS Studio. Its main feature is the
*replay buffer*: the last minute of encoded audio and video is kept in memory,
and one click writes it to a file. This directory specifies the concurrent core
of that program in TLA+, checks it with TLC on small instances and proves the
most important results with TLAPS.

## The system

| component | state | operations | modelled by |
| --- | --- | --- | --- |
| replay buffer output (`plugins/obs-ffmpeg/obs-ffmpeg-mux.c`) | ring of packets and its counters, flags `active`, `capturing`, `stopping`, `muxing`, `save_ts`, the list `mux_packets`, the mux thread | create, start, stop, packet, save, mux thread, encoder error, destroy | `ReplayClip`, `ReplayBuffer` |
| output life cycle (`libobs/obs-output.c`) | `active`, `data_active`, `stopping_event`, `end_data_capture_thread`, stop code, reconnect and delay state | start, stop, force stop, begin and end of data capture, signal stop, release; reconnect | `OutputLife` write by write, a coarser view inside `ReplayBuffer` |
| packet interleaver (`libobs/obs-output.c`) | `interleaved_packets`, per-stream offsets and highest timestamps | collect, prune, start, rebase, send | `Interleaver` |
| output delay (`libobs/obs-output-delay.c`) | `delay_data`, `delay_active`, `delay_capturing` | start, stop, push, pop | no; obs-lite sets no delay |
| encoders (`libobs/obs-encoder.c`) | callback list, `first_received`, start time, pause state | start, stop, encode, full stop, pause | stop and full stop in `OutputLife`, frame rate divisors in `FrameCache` and `GpuQueue`, failures in all |
| graphics thread (`libobs/obs-video.c`) | queues of times, stages for the download, which consumers were active | a turn: update, render, download, hand over, sleep | `VideoMix` |
| frame cache (`libobs/media-io/video-io.c`) | ring of frames with counts of repeats and skips, inputs, semaphore | lock, unlock, output a frame, connect, disconnect, stop | `FrameCache`, promised by `FrameFeed` |
| GPU encode queue (`libobs/obs-video-gpu-encode.c`, `obs.c`) | two queues of textures with keyed mutexes, semaphore, event, encoders | queue a frame, encode it, start and stop an encoder | `GpuQueue` |
| recorder (`frontend/recorder.cpp`) and main window | `recordOutput`, `replayOutput`, `replaySaving`, `recordingActive` | start, stop, save, signals, shutdown | recording: `Recorder`; replay: inside `ReplayBuffer` |
| file muxer (`obs-ffmpeg-mux.c`) | `active`, `capturing`, `stopping`, the pipe; split files | start, packet, stop, failure; split | `OutputLife`; splitting is not modelled |
| sources, scenes, audio mixing, devices, graphics, codecs, UI widgets | | | not modelled |

How they interact. The frontend calls `obs_output_start/stop` and, for a save,
the procedure `save` of the output. Encoder threads call
`send_off_encoder_packet()`, which calls `interleave_packets()` of every output
they feed; that takes `interleaved_mutex`, sorts, and calls the packet callback
`replay_buffer_data()`. That callback purges the ring, appends the packet and,
if a save is due, copies the ring and starts a *mux thread*. The mux thread
writes the copy through a pipe to the helper process `ffmpeg-mux` and emits
`saved`, which the frontend receives on that thread. A stop sets flags only: the
first packet at or after the stop time ends the capture, which starts an *end
thread* that detaches the encoders, clears `active` and signals
`stopping_event`. Destruction waits for that event, for the end thread and for
the mux thread.

Before that, the graphics thread draws a picture a tick and hands it on twice:
downloaded, through the frame cache, to the video thread, which gives it to the
encoders that want pixels; and as a texture, through the texture queue, to the
GPU encode thread, which gives it to the encoders that read textures (NVENC). A
recording is a second output with encoders of its own; its signals "start" and
"stop" reach the main window, the latter through the event queue of Qt.

What makes it hard: four threads share one structure with a handful of flags,
written in different orders by each of them; the save passes a list from one
thread to another without a lock; the mux thread can fail and then takes the
output down from the side; requests carry a clock time and wait for a packet of
that time, which may never come; counters are maintained incrementally; packets
are counted references.

### What should be true

* ring: the counters describe the ring; purging ends; it keeps the promised
  window and not much more; it starts with a keyframe; memory is bounded;
* save: at most one at a time; what is written is complete, sorted, in sync,
  decodable and reaches the moment of the click; the button becomes live again;
* life cycle: a stop completes; destruction finds no thread inside; every packet
  reference is released exactly once;
* recording: outputs that follow each other never overlap; every end is told,
  a failed write as an error; the window shows what is;
* video: the graphics thread never waits for an encoder, yet no tick is lost,
  shown twice or out of order, every skip is counted, pictures carry the time
  they were drawn at, textures are never read while they are drawn to, and an
  encoder can be stopped at any moment;
* interleaver: packets leave in timestamp order, without a gap in any stream,
  from a keyframe on, with audio and video rebased by offsets that keep them in
  sync.

## The modules

`ReplayClip` is the pure part of a save: the offset of each stream, the rebased
packets, and the list built by `replay_buffer_save()`. It has two definitions of
that list: `ClipByInsertion`, the loop with `insert_packet()` as written, and
`Clip`, which says that the list is sorted by dts, later ones first among
equals. TLC checks that they agree (`ClipIsInsertion`) and the proofs use `Clip`.

`ReplayBuffer` is the output as a state machine. Its variables carry the names
of the fields. Each thread has a program counter: `data` (an encoder thread in
`replay_buffer_data()`, one at a time because libobs holds `interleaved_mutex`
around it), `mux` (the mux thread), `capture` (`idle`, `active` or `ending`: the
output underneath and its end thread) and `ui` (the frontend). Actions:

| action | code |
| --- | --- |
| `StartReplayBuffer` | `Recorder::StartReplayBuffer`, `obs_output_start`, `replay_buffer_start` |
| `StopReplayBuffer` | `Recorder::StopReplayBuffer`, `obs_output_stop`, `ffmpeg_mux_stop` |
| `SaveReplay`, `SaveHotkey` | `Recorder::SaveReplay`, `replay_buffer_hotkey` |
| `Shutdown`, `Destroy`, `DestroyJoin` | `Recorder::DestroyOutputs`, `obs_output_destroy`, `ffmpeg_mux_destroy` |
| `Deliver`, `Purge`, `PurgeForSize`, `PurgeForTime`, `PurgeToKeyframe`, `Push`, `Join`, `Save` | `replay_buffer_data` and what it calls, one action per loop iteration |
| `EncoderFails`, `DeliverError`, `EndCapture`, `Deactivate` | `full_stop`, `deactivate_replay_buffer` |
| `EndThread` | `end_data_capture_thread` |
| `MuxOpen` ... `MuxSignalSaved` | `replay_buffer_mux_thread`, `signal_failure`, `deactivate` |

The steps of the mux thread's failure path are separate actions because each is
a separate write that other threads may see in between.

Abstractions of `ReplayBuffer`. Payloads are left out; a packet is its stream, keyframe flag, dts
and size. One time unit is one packet of each stream; pts of a video packet is
its dts plus `PtsLag`. Data the interleaver delivers is in timestamp order and a
session begins with a keyframe. `MuxWrite` writes any number of packets in one
step, as nobody else looks at them; a refusal of the headers is the refusal of
the first packet. While the purge loops run, no other step is interleaved: they
touch only the ring, which only this thread sees (`Purging`). Pausing is left
out: obs-lite never pauses. `obs_output` steps that only matter for several
sessions of one object (two writers of the end thread, the two writes at its
end) are one step; see the hazards in `PROJECT.json`.

`Interleaver` is what runs between the encoders and that output:
`interleave_packets()` with one video encoder and `NumTracks` audio encoders.

| action | code |
| --- | --- |
| `Restart` | `hook_data_capture`, `reset_packet_data`, `calculate_batch_size` |
| `Discard` | a video packet before the first keyframe, `discard_unused_audio_packets` |
| `Collect` | a packet before the start: `insert_interleaved_packet`, `prune_interleaved_packets`, `initialize_interleaved_packets`, the first `send_interleaved` |
| `Interleave` | a packet after it: rebase, insert, `count_streamable_frames`, one or two `send_interleaved` |

Every handler runs under `interleaved_mutex` and is one step; what varies is the
order in which the packets of the encoders come. Two threads bring them: the
audio thread feeds the tracks in a fixed order (`Arrives`), the video encoder
has a thread of its own. Content captured at time `at` reaches the interleaver
`Latency` later and up to `Jitter` late. `Begins` are the first packets an
output may see: new encoders are paired and begin together; encoders that
another output already uses are joined anywhere, each by its own callback, so
that tracks may begin a packet apart and video begins at the next keyframe. The
timestamp `ts` is that of the system until the start, and the rebased dts
afterwards, as `dts_usec` is. Captions, packet callbacks and the timing
statistics of frames have no influence on order and are left out.

The frontend makes a new output for every start, so it starts an object once
(`MaxStarts = 1` in the runs). More starts stand for any other user of the
`obs_output` API; the theorems without a hypothesis on `MaxStarts` cover them.
`SaveHotkey` is the hotkey of the output, which has no guard; `rb_window` has it.

`FrameFeed`, `FrameCache`, `GpuQueue` and `VideoMix` are the way of a picture
from the graphics thread to the encoders. `FrameFeed` is what the frame cache
promises: ticks are composed, at any distance ahead, and each is shown once and
in order. `FrameCache` is the ring with its two threads and the list of inputs;
`PendingTicks` is the refinement mapping, the ticks in the ring that were not
shown yet. `CacheSpec` lets any graphics thread use the ring that locks one
frame at a time and stamps in order; `VideoMix` is the real graphics thread, and
`UsesCache` says that it keeps to that contract, so what is proved of
`CacheSpec` holds in the composition.

| action | code |
| --- | --- |
| `LockFrame`, `UnlockFrame` | `video_output_lock_frame`, `video_output_unlock_frame` |
| `Wake`, `ShowFrame`, `RepeatFrame`, `FreeSlot`, `LeaveFrame` | `video_thread`, `video_output_cur_frame`: one action per critical section |
| `Connect`, `Disconnect`, `StopOutput` | `video_output_connect2`, `video_output_disconnect2`, `video_output_stop` |
| `EncodeGpu` | `output_gpu_encoders`, `queue_frame` as often as the frame counts |
| `GpuWake`, `GpuLook`, `GpuBusy`, `PopTexture`, `PassOver`, `Encode`, `EncodeFails`, `EndTexture` | `gpu_encode_thread` |
| `StartGpuEncode`, `StopGpuEncode`, `StopWaited`, `StopJoined`, `StopFreed` | `start_gpu_encode`, `stop_gpu_encode` and the functions they call |
| `UpdateActiveState`, `Render`, `Output`, `NoOutput`, `Unlock`, `Sleep` | a turn of `obs_graphics_thread_loop` |

Time is in frame intervals: a frame is the tick it was drawn at and the number
of ticks it stands for, which `video_sleep()` only knows afterwards. Pictures
are the tick they show. The keyed mutex of a texture is the key it was released
with; `ByGraphics` is a texture the graphics thread holds. Left out: the counts
of total frames, several mixes, inputs whose scaling fails, encoder groups and
paired audio, a start while the last stop waits or joins the thread, an error in an
encoder that is being stopped. Taking the semaphore, looking at the stop flag
and resetting the event are three steps of the encode thread (`GpuWake`,
`GpuLook`, `GpuBusy`), because a stop may come between them. `Overlap` says
whether starts and stops of texture encoders may overlap; see below.

`OutputLife` and `Recorder` are a recording from the button to the file. Here
the steps are single writes, because no lock covers the threads: the user's
thread (`api`), the packet callback (`callback`, one at a time under
`interleaved_mutex`), an encoder that gives up (`full_stop`) and the thread that
ends the capture (`end_thread`).

| action | code |
| --- | --- |
| `Start`, `HookDataCapture`, `Activate`, `StartFails` | `ffmpeg_mux_start_internal`, `obs_output_begin_data_capture` |
| `Stop`, `ForceStop`, `ResetEvent`, `MuxStop` | `obs_output_stop`, `obs_output_force_stop`, `obs_output_actual_stop`, `ffmpeg_mux_stop` |
| `PacketStops`, `WriteFails`, `Leave` | `ffmpeg_mux_data`, `deactivate`, `signal_failure` |
| `EncoderFails`, `FullStop...` | `send_off_encoder_packet`, `full_stop` |
| `EndNothing`, `EndDataCapture`, `CreateEndThread`, `SignalEnd` | `obs_output_end_data_capture_internal`, `signal_stop` |
| `StopEncoders`, `ClearActive`, `SignalEvent`, `ClearEnding` | `end_data_capture_thread`, `obs_encoder_stop` |
| `Release`, `WaitStopped`, `Destroy` | `obs_output_destroy` |
| `StartRecording`, `Started`, `StopRecording`, `RecordingStopped`, `Exit`, `ShutDown` | `recorder.cpp`, the slots of `main-window.cpp`, `obs_free_data` |

`errored`, `early` and `overtaken` are histories that name what the properties
leave out, each of it a weakness of the code that TLC shows when the exception
is dropped: an encoder that fails calls back without `callbacks_mutex`, so a
release may overtake it, and a packet of another encoder may end the file with
success before the error is delivered; a failure before `active` is set signals
"stop" and leaves the output half started; a start served before the queued
"stop" of the recording before it leaves a window that says Ready and records;
and a release may wait for ever for an event that a force stop has reset after
the end thread signalled it (`Stranded`), also when the recording was running as
the window was closed.

## The runs

The bounds are constants in the `.cfg` files. Deadlock is not checked: beyond the
horizon no packet is delivered and a destroyed output does nothing, so behaviours
do end.

| run | bounds | shows |
| --- | --- | --- |
| `rb_window` | video and one track, 3 units of window, a keyframe at least every 2nd frame, one save from button or hotkey without a guard, encoder errors, failing thread creation, 6 timestamps | `RingKeepsWindow`, `PacketRefs`, `ClipIsInsertion`, `ClipOrdered`, `TypeOK` |
| `rb_threads` | video only, both limits, two clicks, up to one unit of latency, refusing helper, stop, shutdown, 5 timestamps | `RingCounters`, `ClipDecodable`, `CapKept`, `SaveExclusive`, `DestroyedQuiet`, `SavedMeansSaved` and, under fairness, `HandlerReturns`, `SaveServed`, `StopCompletes` |
| `rb_disk`, `rb_rearm`, `rb_release` | small | three of the disagreements below |
| `il_order` | video frames of 2, audio frames of 3, two tracks, keyframes at least every 2nd frame, video 4 slower than audio, jitter 4, two sessions of 12 | `SentInOrder`, `StreamsWhole`, `StartsOnKeyframe`, `LastTrackInSync`, `TypeOK` |
| `il_phase` | the same with a quicker video encoder | `SentInOrder` violated |
| `il_sync` | the same as `il_order` | `EveryTrackInSync` violated |
| `video` | two inputs and two texture encoders, one of each at half the frame rate, two of the four used; a cache and a texture pool of 2, frames up to 2 ticks late, one failing download, 5 ticks (`MaxTick`; 3, `MaxMixed`, when both kinds are used) | `RingSound`, `SkipsCounted`, `InputsKeepPace`, `TexturesOnce`, `KeysHandedOver`, `SemaphoreMatches`, `TicksInOrder`, `StoppedIdle`, `PictureStamped`, `GpuStampsClose`, the contract `UsesCache`, the refinement `ImplementsFeed` and, under fairness, `FramesShown`, `StopReturns`, `TicksEncoded` |
| `gpu_error` | the same | `KeepsEncoding` violated |
| `gpu_overlap` | the same, starts and stops of texture encoders overlap (`Overlap`), no encoder fails | `QueueExists` violated |
| `recorder` | two recordings, a failing start, one failing write or encoder, commands from hotkeys, exit at any moment | `OutputsApart`, `StopsTold`, `StatusRight`, `TypeOK` and, under fairness, `StopEnds` |

The window run needs more timestamps than the window has so that purging removes
whole groups several times; the others need just enough packets to have a save,
its mux thread and a second request overlap, and 5 timestamps to make both purge
loops run. Sizes 2 (keyframe) and 1 make the size limit bite after
four packets.

The two frame lengths of `il_order` have no common divisor, as 33 ms of video
and 21 ms of audio have none, so all phases between the streams occur; a video
encoder with look-ahead is the slower one. A session of 12 lets every stream pass
several keyframes, including a search for the start that fails and is repeated.
That bound on the delays matters: when audio can be late by more than a packet
relative to a *quick* video encoder, TLC finds `SentInOrder` violated
(`il_phase`) and also `StartsOnKeyframe`: `prune_premature_packets()` drops the
keyframe while delta frames behind the late audio stay queued (with keyframes
rarer than in `il_order`). Both need encoders
that are shared with another output (constant `MaxAge` above 0); obs-lite gives
each output its own encoders. The late audio that loses a keyframe is therefore
not in `il_order`, whose video encoder is the slower one; the theorem about
`StartsOnKeyframe` names the condition. `LastTrackInSync` is what pruning sees
to: the one track whose difference it compares begins within a packet of the
video. That every track does, as the code says, is `EveryTrackInSync`, which
`il_sync` refutes after three packets.

In `video`, cache and pool of 2 are full after three frames and the ring wraps
around; 5 ticks with late frames reach overflow, repeats of repeated textures
and an encoder at half rate passing a frame over. With both kinds in use the
copy of the drawn texture replaces the swap; 3 ticks reach both. `WaitFrames` is
1, as in the code. The code has 10 textures and a cache of 6 frames: what
matters is full, empty and once round.

Two recordings are enough for one that is left behind and one that runs, and
the exit then destroys both. With `MaxFailures = 2` the run also passes
(867,384 states) and takes much longer.

Fairness: every thread that can run does (`DataNext`, `MuxNext`, `EndThread`),
encoders keep delivering (`DeliverPacket`), and a destruction that can go on
does. Nothing is assumed of the user. The operating system schedules threads and
the graphics thread feeds the encoders at a fixed rate, which is what these
conditions say. The request times are bounded by the horizon, so that a request
is never later than the last packet of the bounded model. In `VideoMix` the three
threads run and a stop under way goes on, in `Recorder` the threads and the
event queue of the window; packets come as long as an encoder is connected.

### Where documents and code disagree

* `rb_disk`: a clip that cannot be written stops the whole buffer.
* `rb_rearm`: a save cut off by a stop leaves the save button refused for good.
* `il_phase`: with two tracks that begin a packet apart, what is sent is not
  monotonic: the tracks share one highest timestamp.
* `rb_release`: shutting down after a stopped buffer waits for ever on
  `stopping_event`, which force-stop has reset and nobody signals.
* `gpu_error`: an encoder that reads textures and fails stops the thread all
  such encoders share: on that thread, the error path waits for the event that
  the thread signals at the end of the frame.

* `il_sync`: the difference of every audio track to the video is computed, that
  of the last one compared; with two tracks the first may begin more than a
  packet away from the video.
* `gpu_overlap`: the last stop of a texture encoder frees the queue after waits
  without the lock, while another stop waits for its event or a start has just
  created a new one.

Some more that no run of their own shows. The memory cap of
`docs/replay-buffer.md` is not hard: up to two keyframes and what follows them
are kept whatever they weigh, and `CapKept`, checked and proved, says what does
hold. And the three races of `OutputLife` named above: a failing encoder told as
a success, the overtaken status, and the release that waits for an event already
signalled and reset.

## The proofs

Every theorem holds for all values of the constants that satisfy the named
assumptions of the modules; a further hypothesis stands in the theorem itself
and is explained here. The invariants the proofs add were checked with TLC on
the bounds of the runs before they were proved.

`Sums_proof` holds what several proofs need: induction over an interval of
natural numbers (`IntervalInduction`, from the library's well-founded minimum)
and sums over functions with their laws (`SumChange`, `SumShift`). With it,
recursive functions of the model are unfolded: a function that satisfies the
recursion is shown to exist, and then to have the property at every index.

### The clip: `ReplayClip_proof`

`ClipSortsRing`: for rings of every length, `Clip` is a permutation of what was
held and the rebased ring, of the same length, sorted by dts. `Place` counts the
packets that go before one; `GoesBefore` is a strict total order, so places are
all different (`PlaceOrder`) and fill `1 .. n` (`PlaceIsPosition`).

`InsertionSorts`: the loop with `insert_packet()` builds just that list. After
each packet the list is `Arranged`: it holds the packets so far in the order of
`GoesBefore`. A packet is inserted behind the last smaller dts
(`InsertPositionFound`), which keeps that (`InsertArranged`), and a list of all
packets that is arranged is `Clip` (`ArrangedIsClip`: the packets in front of
the k-th are the k - 1 before it).

### The replay buffer: `ReplayBuffer_proof`

| theorem | property | hypotheses | invariant |
| --- | --- | --- | --- |
| `TypeCorrect`, `CountersCorrect`, `RefsCorrect`, `SavesExclude` | `TypeOK`, `RingCounters`, `PacketRefs`, `SaveExclusive` | none | `Inv` |
| `SizeCorrect` | (`SizeCounter`) | none | itself, with `Inv` |
| `InsertionCorrect` | `ClipIsInsertion` | none | `ListInv` |
| `DestroyCorrect` | `DestroyedQuiet` | `EncoderMayFail = FALSE` | `QuietInv` |
| `SavedCorrect` | `SavedMeansSaved` | `GuardedSaves = TRUE`, `ThreadMayFail = FALSE` | `SaveInv` |
| `ClipsDecodable` | `ClipDecodable` | `MaxStarts <= 1`, `GroupsKept` | `SessionInv`, `RingInv`, `ClipInv` |
| `WindowKept` | `RingKeepsWindow` | `MaxStarts <= 1`, `MaxSize = 0`, `MaxGop <= MaxTime` | these and `WindowInv` |
| `ClipsOrdered` | `ClipOrdered` | `MaxStarts <= 1`, `ThreadMayFail = FALSE` | `SessionInv`, `OrderInv` |
| `CapKeptOrFewGroups` | `CapKept` | none | `CapInv` |
| `PurgeEnds` | (`PurgeAdvances`) | `MaxStarts <= 1`, `GroupsKept` | `SessionInv`, `RingInv`, `PurgeInv` |

`Inv` is the types, the counters, the references, and three parts that say where
the threads may be: `Lockstep` of the streams; `MuxInv` ties `mux`, `muxing` and
`mux_joinable` and says when the list is non-empty and how much of it is
written; `DataInv` is what holds at each point of the data thread. The keyframe
counter only stays a natural number because it counts the keyframes that are
there, so `TypeOK` needs `RingCounters`; `PacketRefs` needs `MuxInv` because a
second save would otherwise overwrite `written`. There is a lemma for every
operation on the ring and one for each group of actions; `RingMoves` and
`ListMoves` say that the ring and the list change in no other way.

Why the hypotheses. `full_stop()` calls the output back without the mutex that
`obs_encoder_stop()` takes, so with a failing encoder the callback may be inside
a destroyed output; with `EncoderMayFail` TLC shows it. A save whose thread
could not be created leaves packets in `mux_packets`, and the unguarded hotkey
overwrites the moment asked for: `SavedMeansSaved` is about the button, whose
guard is `SaveReplay`'s. `StartReplayBuffer` makes a new output each time
(`recorder.cpp:327`), so in the program an output is started once. A group of
pictures must fit the window (`MaxGop <= MaxTime`: the settings dialog allows 15
seconds at least and a keyframe every 10 at most) and, if there is a cap, the cap
(`CapHoldsGroup`): otherwise purging to the next keyframe may find none. The
smallest cap, 64 MB, holds ten seconds of 50 Mbit/s; with the largest bitrate and
the rarest keyframes the dialog offers, the hypothesis fails and so may the
property.
`WindowKept` is about the time limit, so it has no cap.

The argument for a session: all packets in memory (`InMemory`, the ring and the
one in hand) are in the order of the interleaver (`Sorted`) and come in groups
(`Grouped`); a video keyframe is first but for sound before it (`Anchored`), or
there is no video yet (`Unbegun`). The purge loops break this only between
dropping a packet and reaching the next keyframe (`ToKeyframe`), when one is
still there. Every step of the data thread either keeps, takes, misses, drops or
clears (`Stays`, `Takes`, `Misses`, `Drops`, `Clears`), and each of these
preserves it. `WindowInv` adds how far back memory reaches.

Order and sync of a clip. `OrderInv` needs no limit and no keyframe: memory is
`Sorted` and `Dense`, that is, a packet more than one timestamp ahead of another
has a packet of its own stream in between. That is the lockstep of the streams
seen in the ring: a stream due that late has already delivered (`Reaching`).
The first packets of two streams of a clip are therefore at most one timestamp
apart (`FirstClose`), and their offsets no more than that and the reordering lag
(`OffsetsClose`). The list is the clip sorted by rebased timestamps, which is a
bijection that keeps the order within each stream, so the n-th packet of a
stream in the ring is the n-th of it in the list (`InStreamKept`,
`ClipKeepsStreams`). The two hypotheses: a second start after a failed mux
appends timestamps that begin at zero again to a ring nobody cleared, and with
two starts TLC finds `ClipOrdered` violated; a save whose thread could not be
created leaves its packets in `mux_packets`, to which the next clip is added.

The cap. The ring may exceed `max_size`; what holds is `CapKept`: between two packets the ring is within the cap or has no more than three
keyframes, as `replay_buffer_purge()` does nothing up to two and the packet
pushed may be a third. `CapInv` follows the room for the packet in hand through
the loops: the loop for the size makes it, the loop for the time only removes
(`FrontFrees`, from `SizeCounter`), and a start sets the limits of an empty ring
or those it had (`Vacant`).

The loops end. `PurgeAdvances`: while `replay_buffer_purge()` runs nothing else
moves, and each step lowers `Left`, twice the packets of the ring and a `Phase`
for the look at the next keyframe. A loop on an empty ring would not end, as
`purge()` then does nothing; `PurgeInv` excludes it. What is dropped for size or
time is a group of pictures behind the packet in hand (`DropsFar`), so the
keyframe that replaces it is still in the ring (`DropsLeave`). This is the safety
part of `HandlerReturns`: the rest is that the data thread goes on and that the
mux thread it may have to join exits.

### The video pipeline: `FrameCache_proof`, `GpuQueue_proof`, `VideoMix_proof`

Of the frame cache under any graphics thread that keeps its contract:
`RingCorrect`, `CacheTypeCorrect`, `SkipsCorrect` (`SkipsCounted`), `PaceKept`
(`InputsKeepPace`) and `CacheImplementsFeed`, the refinement of `FrameFeed`.
`RingSound` and the types together are inductive. The proof measures slots by
`Behind`, their distance from the oldest frame: it is one to one (`Distance`),
taking a slot goes one further and freeing one brings all others one nearer.
The semaphore is part of the invariant because it is what keeps the video
thread from looking at an empty ring. For the refinement, a step of the graphics
thread composes the ticks of the frame, or of the frame it drops, behind all
that are pending; showing the oldest frame takes the least of them; freeing and
repeating a frame leave them as they are. `Pending` is a sum over slots, of
which a step changes one term. An input is stepped over only because the one
before it has just gone (`SteppedOver`), which is the failure it is charged to;
`PacedOn` is the arithmetic of a divisor.

`MixUsesCache`: the real graphics thread keeps that contract, so `MixRing`,
`MixSkips`, `MixPace` and `MixFeed` carry the results over to the composition.
Its invariant `TurnInv` ties the queue of times, the stages and `failures` to
the point of the turn, and gives `StampsCorrect` (`PictureStamped`). None of
these has a hypothesis.

`StoppedCorrect` (`StoppedIdle`): an encoder whose stop has returned is not
called any more. It has no hypothesis: it covers every overlap of starts and
stops that the model has, of which `VideoMix.cfg` has none, and is about the code
up to the free that `gpu_overlap` shows. The thread
reads the list of encoders only between the reset of the event and its next
signal, a stop takes its encoder off the list before it waits, and the last one
joins the thread (`StopInv`: `CallsListed`, `ThreadNeeded`).

`MixTypeCorrect`, `TexturesKept`, `KeysMatch`, `SemaphoreCorrect`,
`EveryTickOnce` and `GpuStampsCorrect` (the properties `TypeOK`, `TexturesOnce`,
`KeysHandedOver`, `SemaphoreMatches`, `TicksInOrder`, `GpuStampsClose`) suppose
`Overlap = FALSE`. That is a restriction and not a fact of the code: when starts
and stops overlap the queue may be freed while it is used, which is the run
`gpu_overlap` (`QueueExists`), and none of them means anything then. `GpuInv`
says which textures are in which queue, with which key, who holds the thread and
what the semaphore stands for; `Line` that the ticks from the one encoded last to
the next of the graphics thread have no gap; `Served` ties both to the turn.

### The interleaver: `Interleaver_proof`

| theorem | property | hypotheses | invariant |
| --- | --- | --- | --- |
| `TypeCorrect`, `WholeStreams` | `TypeOK`, `StreamsWhole` | none | `Inv` |
| `OrderInPhase` | `SentInOrder` | `[]InPhase` | `Recent`, `Clocks`, `InOrder` |
| `OrderTogether` | `SentInOrder` | `[]EqualOffsets` | these and `Even` |
| `OrderOneTrack` | `SentInOrder` | `NumTracks = 1` | the same |
| `BeginSync` | `LastTrackInSync` | none | `Recent`, `Even`, `Queued`, `BeginsInSync` |
| `OneTrackSync` | (`EveryTrackInSync`) | `NumTracks = 1` | the same |
| `KeyframeFirst` | `StartsOnKeyframe` | `VideoSlower` | `Keyed` |
| `OrderNew` | `SentInOrder` | `NewEncoders` | `Anew` and those of `OrderTogether` |
| `KeyframeNew` | `StartsOnKeyframe` | `NewEncoders` | `Anew` |

`Inv`: the list is in order of timestamps (`Ordered`), which are those of the
system before the start and rebased ones afterwards (`Stamped`); of each stream,
what was sent and is queued is a `Line`, whose packets follow each other up to the
one received last; the flags say what has come (`Flagged`). Inserting, cutting the
front, resorting (`ResortSorts`, a bijection onto what was there) and sending keep
a `Line`; that the timestamps of a stream grow makes the insertion, which
compares timestamps only, keep its order.

Order. `Due` is the timestamp the next packet of a stream will have. The highest
timestamps stay one packet behind what is due (`Clocks`), and all that was sent is
before all that is queued or due (`InOrder`). A video packet leaves when *some*
track is past it, and this is harmless only if no other track is due more than an
audio packet behind: `InPhase`. That is not a fact of the code: `il_phase` is the
counterexample. It follows from equal offsets, because the audio thread keeps
the tracks within one packet of each other (`Even`), and so from a single track.
New encoders have equal offsets (below).

Begin. Of a queued packet of one track, every other track has a packet queued or
due no more than one packet later (`Together`), and cutting the list anywhere
keeps this. With what pruning compares, it bounds how long after the video a
track begins (`PruneBound`); that audio reaches up to the video, and that the
start is not behind the closest audio, bounds how long before (`StartBound`).
`BeginsInSync` holds both for every track, with one audio packet more for those
that are not compared; for the last, or only, track it gives the theorems.

Keyframe. `VideoSlower` is `VideoLatency >= AudioLatency + Jitter`: no queued
frame is ahead of what is due of the audio. It is a condition on the encoders,
not a fact of the code; without it `prune_premature_packets()` may drop a
keyframe and keep frames that depend on it. Then, a list to which the first packet
of the last missing stream is added has all of its video before it, so pruning
takes all of it (`FarCut`); and a list that is kept with all streams is
not one a second pruning would cut (`FarKept`, the second part of `Keyed`).

New encoders. `NewEncoders` is `MaxAge = 0`, what the front end does: it makes
encoders for each output it makes (`src/frontend/recorder.cpp`). Then both
conditions go. Every stream begins at `origin`, so a list that has all streams has their
first packets, is never pruned, and is not cut behind any of them (`WholeCut`,
`WholeKept`): the tracks are given the offset 0, and the first keyframe stays in
front of the video. `Anew` says so of every state. The runs with `MaxAge > 0`
are for encoders shared with an output that was started before, which libobs
allows.

### Recordings: `Recorder_proof`

`TypeCorrect`, `SessionsApart` (`OutputsApart`), `EachEndTold` (`StopsTold`) and
`StatusShown` (`StatusRight`), for any number of recordings and failures. One
invariant: `ApiInv` says what the user's thread may be doing to which output;
for each output, `Created`, `Fresh` and `Only` say that none but the newest is
active, `Begin`, `Once`, `Ending`, `Leaving`, `Event` and `Telling` follow its
session from the start to the signal; `Shown` ties the window, the queue of
signals and the outputs. The exceptions are those of the properties.

### Only model-checked

* All liveness: `HandlerReturns`, `SaveServed`, `StopCompletes`, `FramesShown`,
  `StopReturns`, `TicksEncoded`, `StopEnds`. TLAPS has no rule for `ENABLED`.
* The violations: each is one behaviour that TLC shows.

## Not modelled

Sources, scenes, audio mixing, devices, graphics back ends and codecs: upstream
code that obs-lite configures and whose effect here is that frames and samples
come. The pixels of a frame, the bytes of a file and the text of messages.
Split files, output delay, reconnecting and pausing: no path of the frontend
turns them on. Encoder groups: obs-lite has one video encoder per output.

## Plan

1. `PacketFeed`: what `Deliver` of `ReplayBuffer` assumes, as the abstract
   specification `Interleaver` implements; the backlog over many restarts;
   several video tracks.
2. `OutputLife` under `ReplayBuffer`, in place of its coarser `capture`.
3. `SplitMuxer`: files that begin on keyframes with offsets from zero;
   reconnecting and delay in `OutputLife`.
