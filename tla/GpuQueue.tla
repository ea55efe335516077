------------------------------ MODULE GpuQueue ------------------------------
(***************************************************************************)
(* The texture queue between the graphics thread and the encoders that     *)
(* read textures (libobs/obs-video.c, queue_frame(), and                   *)
(* libobs/obs-video-gpu-encode.c).                                         *)
(*                                                                         *)
(* Textures go round: from avail they are filled by the graphics thread,   *)
(* wait in queue, are read by every encoder in turn on the GPU encode      *)
(* thread and come back.  A texture stands for count ticks.  Who may touch *)
(* it is settled by its keyed mutex: it is released with a key and         *)
(* acquired with the same one.                                             *)
(***************************************************************************)
EXTENDS Integers, Sequences, FiniteSets

CONSTANTS Encoders,     \* texture encoders of the mix
          GpuDivisor,   \* their frame_rate_divisor
          NumTextures,  \* NUM_ENCODE_TEXTURES
          WaitFrames,   \* NUM_ENCODE_TEXTURE_FRAMES_TO_WAIT
          Overlap,      \* starts and stops of encoders overlap
          MayFail       \* an encoder may fail

ASSUME GpuAssumption ==
  /\ GpuDivisor \in [Encoders -> Nat \ {0}]
  /\ NumTextures \in Nat /\ NumTextures > 1 /\ WaitFrames \in Nat
  /\ Overlap \in BOOLEAN /\ MayFail \in BOOLEAN

Textures == 0 .. NumTextures
ByGraphics == -1        \* the key of a texture the graphics thread holds

VARIABLES
  avail, queue,                \* gpu_encoder_avail_queue, gpu_encoder_queue
  convert_texture,             \* convert_textures_encode: what is drawn to
  keys,                        \* keyed mutex of each texture
  gpu_semaphore, gpu_inactive, \* gpu_encode_semaphore, gpu_encode_inactive
  gpu_exists,                  \* init_gpu_encoding done, not freed
  gpu_stop,                    \* gpu_encode_stop
  gpu_thread,                  \* "none", "wait", "woken", "reset", "pop", "encode", "blocked", "left"
  wait_frames,
  tf,                          \* the texture in the thread, count 0: none
  encoders,                    \* encoders it has still to pass through
  lock_count, lock_key, next_key, num_encoders,
  gpu_encoders, gpu_encoder_active,
  start_ts,                    \* encoders that have begun
  gpu_counter,                 \* their frame_rate_divisor_counter
  stopping,                    \* stop_gpu_encode: "no", "wait", "last", "join", "free"
  failed,                      \* history: encoders that have failed
  gpu_tick                     \* history: last tick that left the thread

textures == <<avail, queue, convert_texture, keys>>
threadVars == <<tf, encoders, lock_count, lock_key, next_key, num_encoders>>
syncVars == <<gpu_semaphore, gpu_inactive, gpu_exists, gpu_stop>>
userVars == <<gpu_encoders, gpu_encoder_active, stopping>>
encoderVars == <<start_ts, gpu_counter, failed>>
gpuVars == <<textures, threadVars, syncVars, gpu_thread, wait_frames, userVars, encoderVars,
             gpu_tick>>

NoTexture == [tex |-> 0, lock_key |-> 0, released |-> FALSE, count |-> 0, timestamp |-> 0, tick |-> 0]

GpuInit ==
  /\ avail = << >> /\ queue = << >> /\ convert_texture = 0
  /\ keys = [t \in Textures |-> ByGraphics]
  /\ gpu_semaphore = 0 /\ gpu_inactive = TRUE /\ gpu_exists = FALSE /\ gpu_stop = FALSE
  /\ gpu_thread = "none" /\ wait_frames = 0
  /\ tf = NoTexture /\ encoders = << >>
  /\ lock_count = 0 /\ lock_key = 0 /\ next_key = 0 /\ num_encoders = 0
  /\ gpu_encoders = << >> /\ gpu_encoder_active = 0
  /\ start_ts = {} /\ gpu_counter = [e \in Encoders |-> 0] /\ failed = {}
  /\ stopping = [e \in Encoders |-> "no"]
  /\ gpu_tick = 0

-----------------------------------------------------------------------------
(* The graphics thread, under gpu_encoder_mutex *)

Last(s) == s[Len(s)]

(* queue_frame(): whether a tick repeats the newest texture *)
Duplicate(q, left) == q.avail = << >> \/ (q.queue # << >> /\ left > 1)

(* Faulty variant: the tick is dropped. *)
RepeatDrop(q) == q

(* Faulty variant: the thread is not told of it. *)
RepeatQuietly(q) ==
  IF q.queue = << >> THEN q
  ELSE [q EXCEPT !.queue[Len(q.queue)].count = @ + 1]

Repeat(q) ==
  IF q.queue = << >> THEN q     \* "texture-based encoding is stopping"
  ELSE [q EXCEPT !.queue[Len(q.queue)].count = @ + 1, !.posts = @ + 1]

(* Faulty variant: the texture drawn keeps its place. *)
FillNoSwap(q, info, left, raw_active) ==
  LET free == Head(q.avail)
      new == [tex |-> q.convert, lock_key |-> free.lock_key + 1, released |-> TRUE,
              count |-> 1, timestamp |-> info.timestamp,
              tick |-> info.timestamp + info.count - left]
  IN [q EXCEPT !.avail = Tail(@),
               !.queue = Append(@, new),
               !.keys = [[@ EXCEPT ![free.tex] = ByGraphics] EXCEPT ![new.tex] = new.lock_key],
               !.posts = @ + 1]

(* A free texture is acquired; its content is copied into it, or it changes *)
(* places with the one that has been drawn.                                 *)
Fill(q, info, left, raw_active) ==
  LET free == Head(q.avail)
      copy == raw_active \/ left > 1
      new == [tex |-> IF copy THEN free.tex ELSE q.convert,
              lock_key |-> free.lock_key + 1, released |-> TRUE,
              count |-> 1, timestamp |-> info.timestamp,
              tick |-> info.timestamp + info.count - left]
  IN [q EXCEPT !.avail = Tail(@),
               !.queue = Append(@, new),
               !.convert = IF copy THEN @ ELSE free.tex,
               !.keys = [[@ EXCEPT ![free.tex] = ByGraphics] EXCEPT ![new.tex] = new.lock_key],
               !.posts = @ + 1]

(* Where gs_texture_acquire_sync() of a texture would wait for ever *)
CanAcquire(t) == t.released => keys[t.tex] = t.lock_key

QueueFrame(q, info, left, raw_active) ==
  IF Duplicate(q, left) THEN Repeat(q) ELSE Fill(q, info, left, raw_active)

(* encode_gpu(): info.count times queue_frame() *)
EncodeGpu(info, raw_active) ==
  LET start == [avail |-> avail, queue |-> queue, convert |-> convert_texture,
                keys |-> keys, posts |-> 0]
      after[i \in 0 .. info.count] ==
        IF i = 0 THEN start
        ELSE QueueFrame(after[i - 1], info, info.count - i + 1, raw_active)
      q == after[info.count]
  IN /\ avail' = q.avail /\ queue' = q.queue /\ convert_texture' = q.convert /\ keys' = q.keys
     /\ gpu_semaphore' = gpu_semaphore + q.posts
     /\ UNCHANGED <<threadVars, gpu_inactive, gpu_exists, gpu_stop, gpu_thread, wait_frames,
                    userVars, encoderVars, gpu_tick>>

-----------------------------------------------------------------------------
(* gpu_encode_thread() *)

(* os_sem_wait() of the loop *)
GpuWake ==
  /\ gpu_thread = "wait" /\ gpu_semaphore > 0
  /\ gpu_semaphore' = gpu_semaphore - 1
  /\ gpu_thread' = "woken"
  /\ UNCHANGED <<textures, threadVars, gpu_inactive, gpu_exists, gpu_stop, wait_frames, userVars,
                 encoderVars, gpu_tick>>

(* The tests of gpu_encode_stop and of wait_frames *)
GpuLook ==
  /\ gpu_thread = "woken"
  /\ \/ gpu_stop /\ gpu_thread' = "left" /\ UNCHANGED wait_frames
     \/ /\ ~gpu_stop /\ wait_frames > 0
        /\ wait_frames' = wait_frames - 1 /\ gpu_thread' = "wait"
     \/ ~gpu_stop /\ wait_frames = 0 /\ gpu_thread' = "reset" /\ UNCHANGED wait_frames
  /\ UNCHANGED <<textures, threadVars, syncVars, userVars, encoderVars, gpu_tick>>

(* Faulty variant: the event is not reset. *)
GpuBusyNoReset ==
  /\ gpu_thread = "reset" /\ gpu_thread' = "pop"
  /\ UNCHANGED <<textures, threadVars, syncVars, wait_frames, userVars, encoderVars, gpu_tick>>

(* os_event_reset() of gpu_encode_inactive.  A stop that found the event    *)
(* signalled may have gone by since the semaphore was taken: the texture is *)
(* then encoded without its encoder, by a thread that has been told to end. *)
GpuBusy ==
  /\ gpu_thread = "reset" /\ gpu_thread' = "pop"
  /\ gpu_inactive' = FALSE
  /\ UNCHANGED <<textures, threadVars, gpu_semaphore, gpu_exists, gpu_stop, wait_frames, userVars,
                 encoderVars, gpu_tick>>

PopTexture ==
  /\ gpu_thread = "pop"
  /\ tf' = Head(queue) /\ queue' = Tail(queue)
  /\ lock_key' = tf'.lock_key /\ next_key' = tf'.lock_key /\ lock_count' = 0
  /\ encoders' = gpu_encoders /\ num_encoders' = Len(gpu_encoders)
  /\ gpu_thread' = "encode"
  /\ UNCHANGED <<avail, convert_texture, keys, syncVars, wait_frames, userVars, encoderVars,
                 gpu_tick>>

(* The encoder waits for its group or for audio, or it skips this frame. *)
PassOver ==
  /\ gpu_thread = "encode" /\ encoders # << >>
  /\ LET e == Head(encoders)
     IN \/ e \notin start_ts /\ UNCHANGED gpu_counter
        \/ /\ gpu_counter[e] > 0
           /\ gpu_counter' = [gpu_counter EXCEPT ![e] = (@ + 1) % GpuDivisor[e]]
  /\ encoders' = Tail(encoders)
  /\ UNCHANGED <<textures, tf, lock_count, lock_key, next_key, num_encoders, syncVars,
                 gpu_thread, wait_frames, userVars, start_ts, failed, gpu_tick>>

(* The key the encoder is to release the texture with *)
KeyAfter == IF lock_count + 1 = num_encoders THEN 0 ELSE next_key + 1

(* Faulty variant: every encoder is given the key of the texture. *)
EncodeSameKey ==
  /\ gpu_thread = "encode" /\ encoders # << >>
  /\ LET e == Head(encoders)
     IN /\ gpu_counter[e] = 0
        /\ gpu_counter' = [gpu_counter EXCEPT ![e] = (@ + 1) % GpuDivisor[e]]
        /\ start_ts' = start_ts \cup {e}
  /\ keys[tf.tex] = lock_key
  /\ keys' = [keys EXCEPT ![tf.tex] = KeyAfter]
  /\ lock_count' = lock_count + 1 /\ next_key' = KeyAfter
  /\ encoders' = Tail(encoders)
  /\ UNCHANGED <<avail, queue, convert_texture, tf, lock_key, num_encoders, syncVars, gpu_thread,
                 wait_frames, userVars, failed, gpu_tick>>

Encode ==
  /\ gpu_thread = "encode" /\ encoders # << >>
  /\ LET e == Head(encoders)
     IN /\ gpu_counter[e] = 0
        /\ gpu_counter' = [gpu_counter EXCEPT ![e] = (@ + 1) % GpuDivisor[e]]
        /\ start_ts' = start_ts \cup {e}
  /\ keys[tf.tex] = lock_key                  \* AcquireSync() of the encoder
  /\ keys' = [keys EXCEPT ![tf.tex] = KeyAfter]
  /\ lock_count' = lock_count + 1 /\ next_key' = KeyAfter /\ lock_key' = KeyAfter
  /\ encoders' = Tail(encoders)
  /\ UNCHANGED <<avail, queue, convert_texture, tf, num_encoders, syncVars, gpu_thread,
                 wait_frames, userVars, failed, gpu_tick>>

(* stop_gpu_encode() up to the wait *)
BeginStop(e) ==
  \E i \in DOMAIN gpu_encoders :
    /\ gpu_encoders[i] = e
    /\ gpu_encoder_active' = gpu_encoder_active - 1
    /\ gpu_encoders' = SubSeq(gpu_encoders, 1, i - 1)
                         \o SubSeq(gpu_encoders, i + 1, Len(gpu_encoders))
    /\ stopping' = [stopping EXCEPT ![e] = IF gpu_encoders' = << >> THEN "last" ELSE "wait"]

(* The encoder reports an error: send_off_encoder_packet(), full_stop() and *)
(* stop_gpu_encode() on this thread.  It goes on when that stop returns,    *)
(* which waits for the event only this thread signals, at the end of the    *)
(* frame: nothing follows "blocked".  An error in an encoder that is being  *)
(* stopped is left out.                                                     *)
EncodeFails ==
  /\ MayFail /\ gpu_thread = "encode" /\ encoders # << >>
  /\ LET e == Head(encoders)
     IN /\ gpu_counter[e] = 0 /\ e \notin failed /\ stopping[e] = "no"
        /\ gpu_counter' = [gpu_counter EXCEPT ![e] = (@ + 1) % GpuDivisor[e]]
        /\ start_ts' = start_ts \cup {e}
        /\ failed' = failed \cup {e}
        /\ BeginStop(e)
  /\ next_key' = lock_key /\ lock_count' = lock_count + 1
  /\ gpu_thread' = "blocked"
  /\ UNCHANGED <<textures, tf, encoders, lock_key, num_encoders, syncVars, wait_frames, gpu_tick>>

(* Faulty variant: to the back. *)
GiveBackLate ==
  LET done == [tf EXCEPT !.lock_key = next_key, !.count = @ - 1]
  IN IF done.count > 0
     THEN /\ queue' = Append(queue, [done EXCEPT !.timestamp = @ + 1, !.tick = @ + 1])
          /\ UNCHANGED avail
     ELSE avail' = Append(avail, done) /\ UNCHANGED queue

(* Faulty variant: the timestamp of a texture that stays is not moved on. *)
GiveBackStill ==
  LET done == [tf EXCEPT !.lock_key = next_key, !.count = @ - 1]
  IN IF done.count > 0
     THEN queue' = <<[done EXCEPT !.tick = @ + 1]>> \o queue /\ UNCHANGED avail
     ELSE avail' = Append(avail, done) /\ UNCHANGED queue

(* The texture goes back, or to the front for its next tick. *)
GiveBack ==
  LET done == [tf EXCEPT !.lock_key = next_key, !.count = @ - 1]
  IN IF done.count > 0
     THEN /\ queue' = <<[done EXCEPT !.timestamp = @ + 1, !.tick = @ + 1]>> \o queue
          /\ UNCHANGED avail
     ELSE avail' = Append(avail, done) /\ UNCHANGED queue

EndTexture ==
  /\ gpu_thread = "encode" /\ encoders = << >>
  /\ GiveBack
  /\ tf' = NoTexture
  /\ gpu_tick' = tf.tick
  /\ lock_key' = 0 /\ next_key' = 0 /\ lock_count' = 0 /\ num_encoders' = 0
  /\ gpu_thread' = "wait" /\ gpu_inactive' = TRUE
  /\ UNCHANGED <<convert_texture, keys, encoders, gpu_semaphore, gpu_exists, gpu_stop, wait_frames,
                 userVars, encoderVars>>

GpuThread == GpuWake \/ GpuLook \/ GpuBusy \/ PopTexture \/ PassOver \/ Encode \/ EncodeFails \/ EndTexture

-----------------------------------------------------------------------------
(* Starting and stopping encoders, from any thread *)

Quiet == \A e \in Encoders : stopping[e] = "no"

(* init_gpu_encoding() *)
Create ==
  LET new == [i \in 1 .. NumTextures |->
               [NoTexture EXCEPT !.tex = IF i > convert_texture THEN i ELSE i - 1]]
  IN /\ avail' = avail \o new
     /\ keys' = [t \in Textures |-> ByGraphics]
     /\ gpu_semaphore' = 0 /\ gpu_inactive' = TRUE /\ gpu_exists' = TRUE /\ gpu_stop' = FALSE
     /\ gpu_thread' = "wait" /\ wait_frames' = WaitFrames
     /\ UNCHANGED <<queue, convert_texture>>

(* start_gpu_encode().  With Overlap it may come while another stop waits    *)
(* or between the join of the last stop and its release.  A start while the *)
(* last stop waits or joins is left out: it would make a second thread.     *)
StartGpuEncode(e) ==
  /\ stopping[e] = "no" /\ e \notin failed /\ \A i \in DOMAIN gpu_encoders : gpu_encoders[i] # e
  /\ Quiet \/ (Overlap /\ \A x \in Encoders : stopping[x] \in {"no", "wait", "free"})
  /\ gpu_thread # "blocked"
  /\ IF gpu_encoders = << >> THEN Create
     ELSE UNCHANGED <<textures, syncVars, gpu_thread, wait_frames>>
  /\ gpu_encoders' = Append(gpu_encoders, e)
  /\ gpu_encoder_active' = gpu_encoder_active + 1
  /\ start_ts' = start_ts \ {e} /\ gpu_counter' = [gpu_counter EXCEPT ![e] = 0]
  /\ UNCHANGED <<threadVars, stopping, failed, gpu_tick>>

StopGpuEncode(e) ==
  /\ Quiet \/ Overlap
  /\ BeginStop(e)
  /\ UNCHANGED <<textures, threadVars, syncVars, gpu_thread, wait_frames, encoderVars, gpu_tick>>

(* Faulty variant: the thread is not woken. *)
StopWaitedNoPost(e) ==
  /\ gpu_inactive
  /\ \/ stopping[e] = "wait" /\ stopping' = [stopping EXCEPT ![e] = "no"] /\ UNCHANGED gpu_stop
     \/ stopping[e] = "last" /\ stopping' = [stopping EXCEPT ![e] = "join"] /\ gpu_stop' = TRUE
  /\ UNCHANGED <<textures, threadVars, gpu_semaphore, gpu_inactive, gpu_exists, gpu_thread,
                 wait_frames, gpu_encoders, gpu_encoder_active, encoderVars, gpu_tick>>

(* os_event_wait(), then stop_gpu_encoding_thread() for the last one *)
StopWaited(e) ==
  /\ gpu_inactive
  /\ \/ /\ stopping[e] = "wait"
        /\ stopping' = [stopping EXCEPT ![e] = "no"]
        /\ UNCHANGED <<gpu_stop, gpu_semaphore>>
     \/ /\ stopping[e] = "last"
        /\ stopping' = [stopping EXCEPT ![e] = "join"]
        /\ gpu_stop' = TRUE /\ gpu_semaphore' = gpu_semaphore + 1
  /\ UNCHANGED <<textures, threadVars, gpu_inactive, gpu_exists, gpu_thread, wait_frames,
                 gpu_encoders, gpu_encoder_active, encoderVars, gpu_tick>>

StopJoined(e) ==
  /\ stopping[e] = "join" /\ gpu_thread = "left"
  /\ stopping' = [stopping EXCEPT ![e] = "free"]
  /\ gpu_thread' = "none"
  /\ UNCHANGED <<textures, threadVars, syncVars, wait_frames, gpu_encoders, gpu_encoder_active,
                 encoderVars, gpu_tick>>

(* free_gpu_encoding() *)
StopFreed(e) ==
  /\ stopping[e] = "free"
  /\ stopping' = [stopping EXCEPT ![e] = "no"]
  /\ avail' = << >> /\ queue' = << >> /\ gpu_exists' = FALSE
  /\ gpu_semaphore' = 0 /\ gpu_tick' = 0
  /\ UNCHANGED <<convert_texture, keys, gpu_inactive, gpu_stop, threadVars, gpu_thread,
                 wait_frames, gpu_encoders, gpu_encoder_active, encoderVars>>

StopSteps(e) == StopWaited(e) \/ StopJoined(e) \/ StopFreed(e)

-----------------------------------------------------------------------------
(* Properties *)

Frames(s) == {s[i] : i \in DOMAIN s}
InThread == IF tf.count = 0 THEN << >> ELSE <<tf>>
AllTextures == avail \o queue \o InThread

GpuTypeOK ==
  LET Frame == [tex : Textures, lock_key : Nat, released : BOOLEAN, count : Nat,
                timestamp : Nat, tick : Nat]
  IN /\ Frames(AllTextures) \subseteq Frame /\ convert_texture \in Textures
     /\ keys \in [Textures -> Nat \cup {ByGraphics}]
     /\ gpu_semaphore \in Nat /\ wait_frames \in 0 .. WaitFrames /\ gpu_tick \in Nat
     /\ gpu_thread \in {"none", "wait", "woken", "reset", "pop", "encode", "blocked", "left"}
     /\ Frames(encoders) \cup Frames(gpu_encoders) \cup start_ts \cup failed \subseteq Encoders
     /\ stopping \in [Encoders -> {"no", "wait", "last", "join", "free"}]

(* No texture is lost or in two places, through swaps, repeats and returns  *)
(* to the front: what is drawn to is never what an encoder reads.           *)
TexturesOnce ==
  gpu_exists =>
    /\ Len(AllTextures) = NumTextures
    /\ Cardinality({f.tex : f \in Frames(AllTextures)} \cup {convert_texture}) = NumTextures + 1

(* The key a texture was last released with is the one it will be acquired  *)
(* with, by the graphics thread and by every encoder in turn: the GPU waits *)
(* for no key that never comes.                                             *)
KeysHandedOver ==
  /\ \A f \in Frames(avail \o queue) : CanAcquire(f)
  /\ tf.count > 0 => keys[tf.tex] = lock_key
  /\ keys[convert_texture] = ByGraphics

(* The semaphore stands for the ticks in the queue, but for those the       *)
(* thread holds back at its start (WaitFrames): the thread finds a texture  *)
(* whenever it wakes.                                                       *)
Ticks(s) == LET sum[i \in 0 .. Len(s)] == IF i = 0 THEN 0 ELSE sum[i - 1] + s[i].count
            IN sum[Len(s)]
SemaphoreMatches ==
  gpu_thread \in {"wait", "woken", "reset", "pop", "encode", "blocked"} /\ ~gpu_stop =>
    Ticks(queue) + tf.count = gpu_semaphore + (IF gpu_thread = "wait" THEN 0 ELSE 1)
                              + WaitFrames - wait_frames

(* When stop_gpu_encode() has returned, the thread does not call the encoder *)
(* any more, which may then be destroyed; also when other encoders are      *)
(* started and stopped meanwhile.                                          *)
StoppedIdle ==
  \A e \in Encoders :
    e \in Frames(encoders) => e \in Frames(gpu_encoders) \/ stopping[e] # "no" \/ e \in failed

(* stop_gpu_encode() returns, whatever the thread is at, if no encoder has   *)
(* failed.                                                                 *)
StopReturns == ~Quiet ~> Quiet \/ failed # {}

(* The thread goes on as long as ticks wait that it does not hold back.      *)
Waiting == gpu_exists /\ ~gpu_stop /\ Ticks(queue) + tf.count > WaitFrames
KeepsEncoding == []<>~Waiting \/ []<><<gpu_tick' # gpu_tick>>_gpu_tick

(* It does unless an encoder fails. *)
TicksEncoded == KeepsEncoding \/ <>(failed # {})

-----------------------------------------------------------------------------
(* What the documentation says and the code does not do *)

(* "Recording and replay buffering can run simultaneously"                  *)
(* (docs/replay-buffer.md:48-50): each has encoders and an end thread of    *)
(* its own, so stop_gpu_encode() may run twice at a time, and who uses the  *)
(* semaphore and the event must still find them there.  The last one to     *)
(* come frees the queue whether or not another still waits on the event.    *)
QueueExists ==
  /\ gpu_thread \notin {"none", "left"} => gpu_exists
  /\ \A e \in Encoders : stopping[e] \in {"wait", "last"} => gpu_exists

=============================================================================
