------------------------------ MODULE VideoMix ------------------------------
(***************************************************************************)
(* The graphics thread of libobs/obs-video.c between its two consumers:    *)
(* the frame cache (FrameCache) for encoders that want pixels, and the     *)
(* texture queue (GpuQueue) for those that read textures.                  *)
(*                                                                         *)
(* A turn of obs_graphics_thread_loop() draws a picture.  How many ticks   *)
(* it stands for is only known when the thread has slept until the next    *)
(* one, so time and count follow the picture through a queue of their own, *)
(* while the picture is downloaded one turn later (NUM_TEXTURES).          *)
(***************************************************************************)
EXTENDS FrameCache, GpuQueue

CONSTANTS NumStages,    \* NUM_TEXTURES
          MaxFailures,  \* bound: downloads that fail
          MaxUses,      \* bound: encoders that are started
          MaxMixed      \* bound: last tick when there are encoders of both kinds

ASSUME MixAssumption ==
  /\ NumStages \in Nat /\ NumStages > 1 /\ MaxFailures \in Nat
  /\ MaxUses \in Nat /\ MaxMixed \in 0 .. MaxTick

VARIABLES
  video_time,                     \* of the picture that is drawn
  graphics,                       \* "update", "render", "output", "locked", "sleep", "ended"
  raw_was_active, gpu_was_active,
  vframe_info_buffer, vframe_info_buffer_gpu,
  staged, cur_texture,            \* textures_copied with their pictures, 0: none
  failures,                       \* history: downloads that failed in this session
  uses                            \* history: encoders started so far

infos == <<vframe_info_buffer, vframe_info_buffer_gpu>>
stages == <<staged, cur_texture, failures>>
graphicsVars == <<video_time, graphics, raw_was_active, gpu_was_active, infos, stages>>
vars == <<cacheVars, gpuVars, graphicsVars, uses>>

Stages == 0 .. NumStages - 1

Init ==
  /\ CacheInit /\ GpuInit
  /\ video_time = 1 /\ graphics = "update"
  /\ raw_was_active = FALSE /\ gpu_was_active = FALSE
  /\ vframe_info_buffer = << >> /\ vframe_info_buffer_gpu = << >>
  /\ staged = [s \in Stages |-> 0] /\ cur_texture = 0 /\ failures = 0
  /\ uses = {}

-----------------------------------------------------------------------------
(* A turn of the graphics thread *)

(* The bound on time *)
HorizonOf(used) == IF used \cap Inputs # {} /\ used \cap Encoders # {} THEN MaxMixed ELSE MaxTick
Horizon == HorizonOf(uses)

(* update_active_state() *)
UpdateActiveState ==
  LET gpu_active == gpu_encoder_active > 0
      starts == ~raw_was_active /\ ~gpu_was_active /\ (raw_active \/ gpu_active)
      raw_starts == ~raw_was_active /\ raw_active
  IN /\ graphics = "update" /\ video_time <= Horizon
     /\ graphics' = "render"
     /\ raw_was_active' = raw_active /\ gpu_was_active' = gpu_active
     /\ cur_texture' = IF starts THEN 0 ELSE cur_texture
     /\ vframe_info_buffer' = IF starts \/ raw_starts THEN << >> ELSE vframe_info_buffer
     /\ vframe_info_buffer_gpu' =
          IF ~gpu_was_active /\ gpu_active THEN << >> ELSE vframe_info_buffer_gpu
     /\ staged' = IF raw_starts THEN [s \in Stages |-> 0] ELSE staged
     /\ failures' = IF raw_starts THEN 0 ELSE failures
     /\ UNCHANGED <<cacheVars, gpuVars, video_time, uses>>

(* render_video(): textures for the GPU encoders, then a copy of the picture *)
(* into a stage                                                             *)
Render ==
  /\ graphics = "render"
  /\ graphics' = "output"
  /\ IF gpu_was_active /\ vframe_info_buffer_gpu # << >>
     THEN /\ EncodeGpu(Head(vframe_info_buffer_gpu), raw_was_active)
          /\ vframe_info_buffer_gpu' = Tail(vframe_info_buffer_gpu)
     ELSE UNCHANGED <<gpuVars, vframe_info_buffer_gpu>>
  /\ staged' = IF raw_was_active THEN [staged EXCEPT ![cur_texture] = video_time] ELSE staged
  /\ UNCHANGED <<cacheVars, video_time, raw_was_active, gpu_was_active, vframe_info_buffer,
                 cur_texture, failures, uses>>

(* Faulty variant: the picture of this turn is downloaded. *)
PrevTextureCurrent == cur_texture

PrevTexture == IF cur_texture = 0 THEN NumStages - 1 ELSE cur_texture - 1
NextTexture == IF cur_texture + 1 = NumStages THEN 0 ELSE cur_texture + 1

(* textures_copied of the stage to be downloaded *)
Downloads == raw_was_active /\ staged[PrevTexture] # 0

(* download_frame() and video_output_lock_frame() *)
Output ==
  LET info == Head(vframe_info_buffer)
  IN /\ graphics = "output" /\ Downloads
     /\ vframe_info_buffer' = Tail(vframe_info_buffer)
     /\ LockFrame(info.timestamp, info.count)
     /\ graphics' = IF locked' THEN "locked" ELSE "sleep"
     /\ cur_texture' = NextTexture
     /\ UNCHANGED <<gpuVars, video_time, raw_was_active, gpu_was_active, vframe_info_buffer_gpu,
                    staged, failures, uses>>

(* Nothing to download, or the stage cannot be mapped *)
NoOutput ==
  /\ graphics = "output"
  /\ \/ ~Downloads /\ UNCHANGED failures
     \/ Downloads /\ failures < MaxFailures /\ failures' = failures + 1
  /\ graphics' = "sleep"
  /\ cur_texture' = NextTexture
  /\ UNCHANGED <<cacheVars, gpuVars, video_time, raw_was_active, gpu_was_active, infos, staged,
                 uses>>

(* video_output_unlock_frame() *)
Unlock ==
  /\ graphics = "locked" /\ UnlockFrame
  /\ graphics' = "sleep"
  /\ UNCHANGED <<gpuVars, video_time, raw_was_active, gpu_was_active, infos, stages, uses>>

(* Faulty variant: the clock moves by one frame, however late it is. *)
SleepOne ==
  /\ graphics = "sleep"
  /\ \E count \in 1 .. MaxCount :
       LET info == [timestamp |-> video_time, count |-> count]
       IN /\ video_time + count <= Horizon + 1
          /\ video_time' = video_time + 1
          /\ vframe_info_buffer' = IF raw_was_active THEN Append(vframe_info_buffer, info)
                                   ELSE vframe_info_buffer
          /\ vframe_info_buffer_gpu' = IF gpu_was_active THEN Append(vframe_info_buffer_gpu, info)
                                       ELSE vframe_info_buffer_gpu
  /\ graphics' = IF stop THEN "ended" ELSE "update"
  /\ UNCHANGED <<cacheVars, gpuVars, raw_was_active, gpu_was_active, stages, uses>>

(* video_sleep(): the picture drawn stands for count ticks *)
Sleep ==
  /\ graphics = "sleep"
  /\ \E count \in 1 .. MaxCount :
       LET info == [timestamp |-> video_time, count |-> count]
       IN /\ video_time + count <= Horizon + 1
          /\ video_time' = video_time + count
          /\ vframe_info_buffer' = IF raw_was_active THEN Append(vframe_info_buffer, info)
                                   ELSE vframe_info_buffer
          /\ vframe_info_buffer_gpu' = IF gpu_was_active THEN Append(vframe_info_buffer_gpu, info)
                                       ELSE vframe_info_buffer_gpu
  /\ graphics' = IF stop THEN "ended" ELSE "update"
  /\ UNCHANGED <<cacheVars, gpuVars, raw_was_active, gpu_was_active, stages, uses>>

GraphicsThread == UpdateActiveState \/ Render \/ Output \/ NoOutput \/ Unlock \/ Sleep

-----------------------------------------------------------------------------
(* The consumers and their users *)

CacheThread == VideoThread /\ UNCHANGED <<gpuVars, graphicsVars, uses>>

(* The GPU encode thread counts its frames in the statistics of the cache, *)
(* and a failing encoder is taken off there.                               *)
GpuThreadStep ==
  /\ UNCHANGED <<graphicsVars, uses>>
  /\ \/ (GpuWake \/ GpuLook \/ GpuBusy \/ PopTexture \/ PassOver \/ Encode) /\ UNCHANGED cacheVars
     \/ EndTexture /\ CountTextureSkips(IF tf.count > 1 THEN 1 ELSE 0)
     \/ EncodeFails /\ DecTextureEncoders

Started(e) ==
  /\ e \notin uses /\ Cardinality(uses) < MaxUses
  /\ uses' = uses \cup {e}
  /\ video_time <= HorizonOf(uses')

UserSteps ==
  /\ UNCHANGED graphicsVars
  /\ \/ \E e \in Inputs : Started(e) /\ Connect(e) /\ UNCHANGED gpuVars
     \/ \E e \in Encoders : Started(e) /\ StartGpuEncode(e) /\ IncTextureEncoders
     \/ /\ UNCHANGED uses
        /\ \/ \E e \in Inputs : Disconnect(e) /\ UNCHANGED gpuVars
           \/ \E e \in Encoders : StopGpuEncode(e) /\ DecTextureEncoders
           \/ \E e \in Encoders : StopSteps(e) /\ UNCHANGED cacheVars
           \/ inputs = << >> /\ gpu_encoders = << >> /\ Quiet /\ uses # {}
              /\ StopOutput /\ UNCHANGED gpuVars

Next == GraphicsThread \/ CacheThread \/ GpuThreadStep \/ UserSteps

(* Threads run; a stop under way goes on. *)
Fairness ==
  /\ WF_vars(GraphicsThread) /\ WF_vars(CacheThread) /\ WF_vars(GpuThreadStep)
  /\ WF_vars(\E e \in Encoders : StopSteps(e) /\ UNCHANGED <<cacheVars, graphicsVars, uses>>)

Spec == Init /\ [][Next]_vars
FairSpec == Spec /\ Fairness

-----------------------------------------------------------------------------
(* Properties *)

TypeOK ==
  /\ CacheTypeOK /\ GpuTypeOK
  /\ video_time \in Nat /\ cur_texture \in Stages /\ staged \in [Stages -> Nat]
  /\ graphics \in {"update", "render", "output", "locked", "sleep", "ended"}

(* The graphics thread uses the cache as its contract says: one frame at a  *)
(* time, stamped in order, also across sessions, failed downloads and      *)
(* switches between raw and texture encoders.                               *)
UsesCache == CacheSpec

(* A picture is stamped with the tick it was drawn at; each download that   *)
(* failed in this session delays the stamps by one picture, for good.       *)
PictureStamped ==
  graphics = "output" /\ Downloads =>
    /\ Len(vframe_info_buffer) = failures + 1
    /\ vframe_info_buffer[1].timestamp <= staged[PrevTexture]
    /\ vframe_info_buffer[failures + 1].timestamp = staged[PrevTexture]

(* A texture is stamped with a tick no later than the one it is encoded as, *)
(* and less than one frame of ticks behind: a frame that comes after a      *)
(* repeated one carries the stamp of the first repeat.                      *)
GpuStampsClose ==
  \A f \in Frames(InThread \o queue) : f.tick - f.timestamp \in 0 .. MaxCount - 1

(* Texture encoders get every tick once and in order: repeats, returns to   *)
(* the front and frames that arrive meanwhile leave no gap, and what the   *)
(* graphics thread hands over next follows what is queued.                 *)
TicksInOrder ==
  LET line == InThread \o queue
  IN line # << >> =>
       /\ \A i \in 1 .. Len(line) - 1 : line[i + 1].tick = line[i].tick + line[i].count
       /\ gpu_tick > 0 => line[1].tick = gpu_tick + 1
       /\ gpu_was_active /\ vframe_info_buffer_gpu # << >> =>
            Head(vframe_info_buffer_gpu).timestamp = Last(line).tick + Last(line).count

=============================================================================
