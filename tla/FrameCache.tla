----------------------------- MODULE FrameCache -----------------------------
(***************************************************************************)
(* The frame cache of libobs/media-io/video-io.c: a ring of frames between *)
(* the graphics thread, which never waits, and the video thread, which     *)
(* gives every frame to the inputs (raw outputs and encoders).             *)
(*                                                                         *)
(* A frame stands for count ticks from its timestamp on: the graphics      *)
(* thread may have been late, and when the ring is full a new frame is     *)
(* dropped and its ticks are added to the newest one.                      *)
(*                                                                         *)
(* One action is one critical section of data_mutex or input_mutex.  Time  *)
(* is in frame intervals; pictures are left out.                           *)
(***************************************************************************)
EXTENDS Integers, Sequences, FiniteSets

CONSTANTS CacheSize,   \* info.cache_size
          Inputs,      \* who may connect
          Divisor,     \* frame_rate_divisor of each input
          MaxCount,    \* bound: ticks a frame is late for
          MaxTick      \* bound: last tick composed

ASSUME CacheAssumption ==
  /\ CacheSize \in Nat \ {0} /\ MaxCount \in Nat \ {0} /\ MaxTick \in Nat
ASSUME InputsAssumption == Divisor \in [Inputs -> Nat \ {0}]

Slots == 0 .. CacheSize - 1

VARIABLES
  cache,                          \* timestamp, count and skipped of each slot
  available_frames, first_added, last_added,
  locked,                         \* between lock_frame and unlock_frame
  update_semaphore,
  thread,                         \* video_thread: "wait", "frame", "shown", "ended"
  stop,
  inputs, raw_active,
  gpu_refs,                       \* texture encoders, for the statistics
  skipped_frames,
  stamped,                        \* history: first tick not given to the cache
  shown,                          \* history: last tick given to the inputs
  overflowed                      \* history: ticks of dropped frames

ring == <<cache, available_frames, first_added, last_added, locked>>
counters == <<skipped_frames, overflowed>>
connections == <<inputs, raw_active, gpu_refs>>
cacheVars == <<ring, update_semaphore, thread, stop, connections, counters, stamped, shown>>

(* Slots are taken round the ring. *)
After(s) == IF s + 1 = CacheSize THEN 0 ELSE s + 1

Used == CacheSize - available_frames
Held == Used + (IF locked THEN 1 ELSE 0)

(* How far a slot is behind the oldest frame *)
Behind(s) == IF s >= first_added THEN s - first_added ELSE s + CacheSize - first_added
InUse(s) == Behind(s) < Held

CacheInit ==
  /\ cache = [s \in Slots |-> [timestamp |-> 0, count |-> 0, skipped |-> 0]]
  /\ available_frames = CacheSize /\ first_added = 0 /\ last_added = 0
  /\ locked = FALSE /\ update_semaphore = 0 /\ thread = "wait" /\ stop = FALSE
  /\ inputs = << >> /\ raw_active = FALSE /\ gpu_refs = 0
  /\ skipped_frames = 0 /\ overflowed = 0
  /\ stamped = 1 /\ shown = 0

-----------------------------------------------------------------------------
(* The graphics thread *)

(* Faulty variant: no way round the ring. *)
NextSlotStraight == IF available_frames # CacheSize THEN last_added + 1 ELSE last_added

(* Where lock_frame puts the next frame *)
NextSlot == IF available_frames # CacheSize THEN After(last_added) ELSE last_added

(* Faulty variant: the oldest frame is repeated. *)
OverflowOldest(n) ==
  /\ available_frames = 0
  /\ cache' = [cache EXCEPT ![first_added].count = @ + n, ![first_added].skipped = @ + n]
  /\ overflowed' = overflowed + n
  /\ UNCHANGED <<available_frames, first_added, last_added, locked, skipped_frames>>

(* Faulty variant: a dropped frame counts once. *)
OverflowOnce(n) ==
  /\ available_frames = 0
  /\ cache' = [cache EXCEPT ![last_added].count = @ + n, ![last_added].skipped = @ + 1]
  /\ overflowed' = overflowed + n
  /\ UNCHANGED <<available_frames, first_added, last_added, locked, skipped_frames>>

(* video_output_lock_frame(), nothing free: the newest frame is repeated *)
Overflow(n) ==
  /\ available_frames = 0
  /\ cache' = [cache EXCEPT ![last_added].count = @ + n, ![last_added].skipped = @ + n]
  /\ overflowed' = overflowed + n
  /\ UNCHANGED <<available_frames, first_added, last_added, locked, skipped_frames>>

(* video_output_lock_frame(), a slot is free *)
TakeSlot(ts, n) ==
  /\ available_frames > 0
  /\ last_added' = NextSlot
  /\ cache' = [cache EXCEPT ![NextSlot] = [timestamp |-> ts, count |-> n, skipped |-> 0]]
  /\ locked' = TRUE
  /\ UNCHANGED <<available_frames, first_added, counters>>

LockFrame(ts, n) ==
  /\ ~locked
  /\ Overflow(n) \/ TakeSlot(ts, n)
  /\ stamped' = ts + n
  /\ UNCHANGED <<update_semaphore, thread, stop, connections, shown>>

(* Faulty variant: the video thread is only told of the first frame. *)
UnlockQuietly ==
  /\ locked
  /\ locked' = FALSE
  /\ available_frames' = available_frames - 1
  /\ update_semaphore' = IF Used = 0 THEN update_semaphore + 1 ELSE update_semaphore
  /\ UNCHANGED <<cache, first_added, last_added, thread, stop, connections, counters,
                 stamped, shown>>

(* video_output_unlock_frame() *)
UnlockFrame ==
  /\ locked
  /\ locked' = FALSE
  /\ available_frames' = available_frames - 1
  /\ update_semaphore' = update_semaphore + 1
  /\ UNCHANGED <<cache, first_added, last_added, thread, stop, connections, counters,
                 stamped, shown>>

-----------------------------------------------------------------------------
(* The video thread *)

(* os_sem_wait() of video_thread() *)
Wake ==
  /\ thread = "wait" /\ update_semaphore > 0
  /\ update_semaphore' = update_semaphore - 1
  /\ thread' = IF stop THEN "ended" ELSE "frame"
  /\ UNCHANGED <<ring, stop, connections, counters, stamped, shown>>

(* The callback of inputs[i] fails: its encoder is among the failing ones *)
Fails(i, failing) == inputs[i].counter = 0 /\ inputs[i].enc \in failing

(* The loop of video_output_cur_frame() walks inputs by index.  An encoder *)
(* that fails disconnects itself in its callback: the entries behind move  *)
(* up, and the loop steps over the next one.                               *)
Visited(failing) ==
  LET visited[i \in 1 .. Len(inputs)] ==
        i = 1 \/ ~(visited[i - 1] /\ Fails(i - 1, failing))
  IN visited

(* Faulty variant: the counter runs one too far. *)
CountUpLate(x) == (x.counter + 1) % (Divisor[x.enc] + 1)

(* frame_rate_divisor_counter *)
CountUp(x) == (x.counter + 1) % Divisor[x.enc]

(* da_erase() of the entries of encoders in gone *)
Without(gone, s) ==
  LET kept[n \in 0 .. Len(s)] ==
        IF n = 0 THEN << >>
        ELSE IF s[n].enc \in gone THEN kept[n - 1] ELSE Append(kept[n - 1], s[n])
  IN kept[Len(s)]

(* What an entry is after a frame; age, given and errors are its history: *)
(* ticks since it connected, frames it got, encoders that failed.         *)
Counted(x, visited, failed) ==
  [x EXCEPT !.counter = IF visited THEN CountUp(x) ELSE @,
            !.age = @ + 1,
            !.given = @ + (IF visited /\ x.counter = 0 THEN 1 ELSE 0),
            !.errors = @ + failed]

ShowInputs(failing) ==
  LET visited == Visited(failing)
      gone == {inputs[i].enc : i \in {j \in DOMAIN inputs : visited[j] /\ Fails(j, failing)}}
      counted == [i \in DOMAIN inputs |-> Counted(inputs[i], visited[i], Cardinality(gone))]
  IN /\ inputs' = Without(gone, counted)
     /\ raw_active' = (raw_active /\ inputs' # << >>)
     /\ UNCHANGED gpu_refs

(* The middle section of video_output_cur_frame() *)
ShowFrame ==
  /\ thread = "frame" /\ ~stop
  /\ thread' = "shown"
  /\ shown' = cache[first_added].timestamp
  /\ \E failing \in SUBSET {inputs[i].enc : i \in DOMAIN inputs} : ShowInputs(failing)
  /\ UNCHANGED <<ring, update_semaphore, stop, counters, stamped>>

(* Faulty variant: a frame is shown once, whatever it stands for. *)
CompleteAlways == TRUE

(* The last section: one tick less, and maybe the slot is free *)
Complete == cache[first_added].count = 1

(* Faulty variant: last_added stays when the ring runs empty. *)
FreeSlotOnly ==
  /\ Complete
  /\ cache' = [cache EXCEPT ![first_added].timestamp = @ + 1, ![first_added].count = @ - 1]
  /\ first_added' = After(first_added)
  /\ available_frames' = available_frames + 1
  /\ thread' = "wait"
  /\ UNCHANGED <<last_added, locked, skipped_frames, overflowed>>

FreeSlot ==
  /\ Complete
  /\ cache' = [cache EXCEPT ![first_added].timestamp = @ + 1, ![first_added].count = @ - 1]
  /\ first_added' = After(first_added)
  /\ available_frames' = available_frames + 1
  /\ last_added' = IF available_frames' = CacheSize THEN first_added' ELSE last_added
  /\ thread' = "wait"
  /\ UNCHANGED <<locked, skipped_frames, overflowed>>

RepeatFrame ==
  LET skipped == IF cache[first_added].skipped > 0 THEN 1 ELSE 0
  IN /\ ~Complete
     /\ cache' = [cache EXCEPT ![first_added].timestamp = @ + 1, ![first_added].count = @ - 1,
                               ![first_added].skipped = @ - skipped]
     /\ skipped_frames' = skipped_frames + skipped
     /\ thread' = IF stop THEN "wait" ELSE "frame"
     /\ UNCHANGED <<available_frames, first_added, last_added, locked, overflowed>>

EndFrame ==
  /\ thread = "shown"
  /\ FreeSlot \/ RepeatFrame
  /\ UNCHANGED <<update_semaphore, stop, connections, stamped, shown>>

(* The loop of video_thread() left because of stop before a frame *)
LeaveFrame ==
  /\ thread = "frame" /\ stop
  /\ thread' = "wait"
  /\ UNCHANGED <<ring, update_semaphore, stop, connections, skipped_frames, overflowed,
                 stamped, shown>>

VideoThread == Wake \/ ShowFrame \/ EndFrame \/ LeaveFrame

-----------------------------------------------------------------------------
(* Other threads *)

Connected(e) == \E i \in DOMAIN inputs : inputs[i].enc = e

(* Skipped ticks that the video thread has still to count *)
Pending == LET sum[n \in 0 .. CacheSize] ==
                 IF n = 0 THEN 0
                 ELSE sum[n - 1] + (IF InUse(n - 1) THEN cache[n - 1].skipped ELSE 0)
           IN sum[CacheSize]

(* reset_frames(); total_frames, which nothing depends on, is left out. *)
ResetFrames ==
  /\ skipped_frames' = 0
  /\ overflowed' = Pending

(* video_output_connect2() *)
Connect(e) ==
  /\ ~Connected(e)
  /\ inputs' = Append(inputs, [enc |-> e, counter |-> 0, age |-> 0, given |-> 0, errors |-> 0])
  /\ raw_active' = TRUE
  /\ IF inputs = << >> /\ gpu_refs = 0 THEN ResetFrames ELSE UNCHANGED counters
  /\ UNCHANGED <<ring, update_semaphore, thread, stop, gpu_refs, stamped, shown>>

(* video_output_disconnect2() *)
Disconnect(e) ==
  /\ Connected(e)
  /\ inputs' = Without({e}, inputs)
  /\ raw_active' = (inputs' # << >>)
  /\ UNCHANGED <<ring, update_semaphore, thread, stop, gpu_refs, counters, stamped, shown>>

(* video_output_stop(), up to the join *)
StopOutput ==
  /\ ~stop
  /\ stop' = TRUE
  /\ update_semaphore' = update_semaphore + 1
  /\ UNCHANGED <<ring, thread, connections, counters, stamped, shown>>

(* video_output_inc_texture_encoders(), video_output_dec_texture_encoders() *)
IncTextureEncoders ==
  /\ gpu_refs' = gpu_refs + 1
  /\ IF gpu_refs = 0 /\ ~raw_active THEN ResetFrames ELSE UNCHANGED counters
  /\ UNCHANGED <<ring, update_semaphore, thread, stop, inputs, raw_active, stamped, shown>>

DecTextureEncoders ==
  /\ gpu_refs > 0
  /\ gpu_refs' = gpu_refs - 1
  /\ UNCHANGED <<ring, update_semaphore, thread, stop, inputs, raw_active, counters,
                 stamped, shown>>

(* video_output_inc_texture_skipped_frames() *)
CountTextureSkips(skipped) ==
  /\ skipped_frames' = skipped_frames + skipped
  /\ overflowed' = overflowed + skipped
  /\ UNCHANGED <<ring, update_semaphore, thread, stop, connections, stamped, shown>>

Users ==
  \/ \E e \in Inputs : Connect(e) \/ Disconnect(e)
  \/ StopOutput
  \/ IncTextureEncoders \/ DecTextureEncoders
  \/ \E n \in 0 .. 1 : CountTextureSkips(n)

-----------------------------------------------------------------------------
(* The cache under any graphics thread that stamps its frames in order and *)
(* locks one frame at a time                                               *)
Graphics ==
  \/ \E ts \in stamped .. MaxTick, n \in 1 .. MaxCount : LockFrame(ts, n)
  \/ UnlockFrame

CacheNext == Graphics \/ VideoThread \/ Users

CacheSpec == CacheInit /\ [][CacheNext]_cacheVars

-----------------------------------------------------------------------------
(* Properties *)

CacheTypeOK ==
  /\ cache \in [Slots -> [timestamp : Nat, count : Nat, skipped : Nat]]
  /\ available_frames \in 0 .. CacheSize /\ first_added \in Slots /\ last_added \in Slots
  /\ locked \in BOOLEAN /\ update_semaphore \in Nat
  /\ thread \in {"wait", "frame", "shown", "ended"} /\ stop \in BOOLEAN
  /\ stamped \in Nat \ {0} /\ shown \in Nat

(* The ring is what the two threads take it for: last_added is the newest   *)
(* frame from any interleaving of lock, unlock and output, even when the   *)
(* ring runs empty between lock and unlock; frames are in the order of     *)
(* their ticks and do not overlap; every frame has ticks left, one of them *)
(* its own, and what was shown is before all of them; the semaphore counts *)
(* the frames nobody is at.                                                *)
Busy == thread \in {"frame", "shown"}

LastIsNewest == IF Held = 0 THEN last_added = first_added ELSE Behind(last_added) = Held - 1

End(s) == cache[s].timestamp + cache[s].count

FramesOrdered ==
  /\ \A s \in Slots : InUse(s) => cache[s].skipped < cache[s].count /\ End(s) <= stamped
  /\ \A s, t \in Slots :
       InUse(s) /\ InUse(t) /\ Behind(s) < Behind(t) => End(s) <= cache[t].timestamp

ShownFirst ==
  /\ shown < stamped
  /\ thread = "shown" => cache[first_added].timestamp = shown
  /\ \A s \in Slots : InUse(s) => cache[s].timestamp > shown \/ (thread = "shown" /\ s = first_added)

SemaphoreCounts ==
  /\ ~stop => update_semaphore + (IF Busy THEN 1 ELSE 0) = Used
  /\ Busy => Used > 0

RingSound == Held <= CacheSize /\ LastIsNewest /\ FramesOrdered /\ ShownFirst /\ SemaphoreCounts

(* Every tick of a dropped frame is counted as skipped once, after all of   *)
(* it has been shown, whenever the statistics are reset: the percentage of *)
(* "skipped frames due to encoding lag" is of what was skipped.            *)
SkipsCounted == skipped_frames + Pending = overflowed

(* An input gets every Divisor-th tick from its first on, so encoders that  *)
(* start together stay on the same frames; it loses at most one tick for   *)
(* each other encoder that failed in its time, never more.                 *)
InputsKeepPace ==
  \A i \in DOMAIN inputs :
    LET x == inputs[i] d == Divisor[x.enc]
    IN \E lost \in 0 .. x.errors :
         /\ x.given = (x.age - lost + d - 1) \div d
         /\ x.counter = (x.age - lost) % d

(* The ticks in the ring that have not been shown *)
TicksOf(s) == cache[s].timestamp .. End(s) - 1
PendingTicks == {t \in UNION {TicksOf(s) : s \in {u \in Slots : InUse(u)}} :
                   ~(thread = "shown" /\ t = cache[first_added].timestamp)}

(* The cache implements the feed: whatever the lag, no tick is lost, shown  *)
(* twice or out of order.                                                  *)
Feed == INSTANCE FrameFeed WITH pending <- PendingTicks, shown <- shown
ImplementsFeed == Feed!Spec

(* The video thread never stays behind a frame: as long as something waits  *)
(* it goes on to show ticks, which with the order of ImplementsFeed means   *)
(* that every tick is shown, unless the output is stopped.                  *)
FramesShown ==
  []<>(PendingTicks = {} \/ stop) \/ []<><<shown' # shown>>_shown

(* The video thread runs, and the graphics thread returns from copying a    *)
(* frame.                                                                  *)
CacheFairness == WF_cacheVars(VideoThread) /\ WF_cacheVars(UnlockFrame)

=============================================================================
