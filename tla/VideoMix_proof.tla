--------------------------- MODULE VideoMix_proof ---------------------------
(***************************************************************************)
(* Proofs about the graphics thread with both of its consumers.            *)
(*                                                                         *)
(* TurnInv follows a picture through a turn, from the stage it is copied   *)
(* to to the frame cache; with it every step is one FrameCache allows, so  *)
(* what is proved of the cache holds here.  Served ties the pictures for   *)
(* the texture encoders to the texture queue, whose invariant is GpuInv;   *)
(* what depends on it supposes Overlap = FALSE: with starts and stops of   *)
(* encoders that overlap it does not hold.  StopInv does hold then, and    *)
(* keeps the thread away from encoders that have been stopped.             *)
(***************************************************************************)
EXTENDS VideoMix, FrameCache_proof, GpuQueue_proof

(* What follows a picture to the cache *)
Info == [timestamp : Nat, count : 1 .. MaxCount]

(* A frame is locked while the graphics thread copies it. *)
LockedTurn == locked <=> graphics = "locked"

(* The buffer holds pictures in their order, none of them before what the   *)
(* cache has been given, all before the one being drawn.                    *)
Buffered ==
  /\ vframe_info_buffer \in Seq(Info)
  /\ video_time \in Nat /\ stamped \in Nat \ {0}
  /\ stamped <= video_time /\ video_time <= MaxTick + 1
  /\ \A i \in 1 .. Len(vframe_info_buffer) :
       /\ vframe_info_buffer[i].timestamp >= stamped
       /\ vframe_info_buffer[i].timestamp + vframe_info_buffer[i].count <= video_time
  /\ \A i, j \in 1 .. Len(vframe_info_buffer) :
       i < j => vframe_info_buffer[i].timestamp + vframe_info_buffer[i].count
                  <= vframe_info_buffer[j].timestamp

(* The stage downloaded next is the picture that entered the buffer last,   *)
(* behind one older entry for each failed download.                         *)
LastStaged ==
  /\ staged[PrevTexture] # 0
  /\ Len(vframe_info_buffer) = failures + 1
  /\ vframe_info_buffer[failures + 1].timestamp = staged[PrevTexture]

(* The same over a turn: nothing has been staged in the first one; between  *)
(* the download and the end of the turn the entry is missing.               *)
Staged ==
  /\ staged \in [Stages -> Nat] /\ cur_texture \in Stages /\ failures \in Nat
  /\ graphics \in {"update", "render", "output", "locked", "sleep", "ended"}
  /\ raw_was_active \in BOOLEAN
  /\ raw_was_active /\ graphics \in {"render", "output"} =>
       LastStaged \/ (staged[PrevTexture] = 0 /\ Len(vframe_info_buffer) = 0 /\ failures = 0)
  /\ raw_was_active /\ graphics = "output" => staged[cur_texture] = video_time
  /\ raw_was_active /\ graphics \in {"locked", "sleep"} =>
       staged[PrevTexture] = video_time /\ Len(vframe_info_buffer) = failures
  /\ raw_was_active /\ graphics \in {"update", "ended"} => LastStaged

TurnInv == LockedTurn /\ Buffered /\ Staged

-----------------------------------------------------------------------------
(* The stages round the ring *)
LEMMA PrevStage ==
  ASSUME cur_texture \in Stages
  PROVE  /\ PrevTexture \in Stages /\ PrevTexture # cur_texture
         /\ NextTexture \in Stages
         /\ cur_texture' = NextTexture => PrevTexture' = cur_texture
         /\ cur_texture' = cur_texture => PrevTexture' = PrevTexture
  BY MixAssumption DEF Stages, PrevTexture, NextTexture

LEMMA TurnInit == Init => TurnInv
<1> SUFFICES ASSUME Init PROVE TurnInv
  OBVIOUS
<1> USE CacheAssumption, MixAssumption
<1>1. vframe_info_buffer = << >> /\ Len(vframe_info_buffer) = 0 /\ vframe_info_buffer \in Seq(Info)
  BY DEF Init
<1>2. LockedTurn
  BY DEF Init, CacheInit, LockedTurn
<1>3. Buffered
  BY <1>1 DEF Init, CacheInit, Buffered
<1>4. Staged
  BY DEF Init, Staged, Stages
<1> QED BY <1>2, <1>3, <1>4 DEF TurnInv

(* Steps of other threads leave the turn alone. *)
LEMMA TurnKept ==
  ASSUME TurnInv, UNCHANGED <<graphicsVars, locked, stamped>>
  PROVE  TurnInv'
<1>1. /\ UNCHANGED <<video_time, graphics, raw_was_active, vframe_info_buffer, staged,
                     cur_texture, failures>>
      /\ UNCHANGED <<locked, stamped>>
  BY DEF graphicsVars, infos, stages
<1>2. PrevTexture' = PrevTexture
  BY <1>1 DEF PrevTexture
<1>3. LockedTurn'
  BY <1>1 DEF TurnInv, LockedTurn
<1>4. Buffered'
  BY <1>1 DEF TurnInv, Buffered
<1>5. Staged'
  BY <1>1, <1>2 DEF TurnInv, Staged, LastStaged
<1> QED BY <1>3, <1>4, <1>5 DEF TurnInv

LEMMA UpdateTurn ==
  ASSUME TurnInv, UpdateActiveState, raw_active \in BOOLEAN
  PROVE  TurnInv'
<1> USE MixAssumption
<1>1. /\ graphics = "update" /\ graphics' = "render" /\ raw_was_active' = raw_active
      /\ UNCHANGED <<locked, stamped, video_time>>
  BY DEF UpdateActiveState, cacheVars, ring
<1>2. LockedTurn'
  BY <1>1 DEF TurnInv, LockedTurn
<1>3. vframe_info_buffer' = vframe_info_buffer \/ vframe_info_buffer' = << >>
  BY DEF UpdateActiveState
<1>4. Buffered'
  <2>1. CASE vframe_info_buffer' = vframe_info_buffer
    BY <2>1, <1>1 DEF TurnInv, Buffered
  <2>2. CASE vframe_info_buffer' = << >>
    <3>1. vframe_info_buffer' \in Seq(Info) /\ Len(vframe_info_buffer') = 0
      BY <2>2
    <3> QED BY <3>1, <1>1 DEF TurnInv, Buffered
  <2> QED BY <1>3, <2>1, <2>2
<1>5. /\ staged' \in [Stages -> Nat] /\ cur_texture' \in Stages /\ failures' \in Nat
      /\ raw_was_active \in BOOLEAN
  BY DEF TurnInv, Staged, UpdateActiveState, Stages
<1>6. ASSUME raw_active, raw_was_active
      PROVE  LastStaged'
  <2>1. UNCHANGED <<vframe_info_buffer, staged, failures, cur_texture>>
    BY <1>6 DEF UpdateActiveState
  <2>2. LastStaged /\ PrevTexture' = PrevTexture
    BY <2>1, <1>1, <1>6 DEF TurnInv, Staged, PrevTexture
  <2> QED BY <2>1, <2>2 DEF LastStaged
<1>7. ASSUME raw_active, ~raw_was_active
      PROVE  staged'[PrevTexture'] = 0 /\ Len(vframe_info_buffer') = 0 /\ failures' = 0
  <2>1. vframe_info_buffer' = << >> /\ staged' = [s \in Stages |-> 0] /\ failures' = 0
    BY <1>7 DEF UpdateActiveState
  <2>2. \A c \in Stages : (IF c = 0 THEN NumStages - 1 ELSE c - 1) \in Stages
    BY DEF Stages
  <2>3. PrevTexture' \in Stages
    BY <1>5, <2>2 DEF PrevTexture
  <2>4. staged'[PrevTexture'] = 0
    BY <2>1, <2>3
  <2> QED BY <2>1, <2>4
<1>8. Staged'
  BY <1>1, <1>5, <1>6, <1>7 DEF Staged
<1> QED BY <1>2, <1>4, <1>8 DEF TurnInv

LEMMA RenderTurn ==
  ASSUME TurnInv, Render
  PROVE  TurnInv'
<1>1. /\ graphics = "render" /\ graphics' = "output"
      /\ UNCHANGED <<locked, stamped, video_time, raw_was_active, vframe_info_buffer, cur_texture,
                     failures>>
      /\ staged' = IF raw_was_active THEN [staged EXCEPT ![cur_texture] = video_time] ELSE staged
  BY DEF Render, cacheVars, ring
<1>2. LockedTurn' /\ Buffered'
  BY <1>1 DEF TurnInv, LockedTurn, Buffered
<1>3. /\ PrevTexture' = PrevTexture /\ PrevTexture \in Stages /\ PrevTexture # cur_texture
      /\ cur_texture \in Stages /\ staged \in [Stages -> Nat] /\ video_time \in Nat
  BY <1>1, PrevStage DEF TurnInv, Staged, Buffered
<1>4. /\ staged' \in [Stages -> Nat] /\ staged'[PrevTexture] = staged[PrevTexture]
      /\ raw_was_active => staged'[cur_texture] = video_time
  BY <1>1, <1>3
<1>5. LastStaged => LastStaged'
  BY <1>1, <1>3, <1>4 DEF LastStaged
<1>6. Staged'
  BY <1>1, <1>3, <1>4, <1>5 DEF TurnInv, Staged
<1> QED BY <1>2, <1>6 DEF TurnInv

(* The head of the buffer goes to the cache, whether the frame is kept or   *)
(* dropped there.                                                           *)
LEMMA OutputTurn ==
  ASSUME TurnInv, Output
  PROVE  /\ TurnInv'
         /\ \E ts \in stamped .. MaxTick, n \in 1 .. MaxCount : LockFrame(ts, n)
<1> DEFINE b == vframe_info_buffer
<1>1. /\ graphics = "output" /\ raw_was_active /\ staged[PrevTexture] # 0
      /\ b' = Tail(b) /\ LockFrame(Head(b).timestamp, Head(b).count)
      /\ UNCHANGED <<video_time, raw_was_active, staged, failures>>
      /\ cur_texture' = NextTexture
      /\ graphics' = IF locked' THEN "locked" ELSE "sleep"
  BY DEF Output, Downloads
<1>2. LastStaged /\ Len(b) = failures + 1 /\ failures \in Nat /\ b \in Seq(Info)
      /\ staged[cur_texture] = video_time /\ cur_texture \in Stages
  BY <1>1 DEF TurnInv, Staged, Buffered, LastStaged
<1>3. /\ b # << >> /\ Head(b) = b[1] /\ b[1] \in Info /\ Tail(b) \in Seq(Info)
      /\ Len(Tail(b)) = failures
      /\ \A i \in 1 .. failures : Tail(b)[i] = b[i + 1] /\ i + 1 \in 1 .. Len(b)
  <2>1. b # << >> /\ 1 \in DOMAIN b
    BY <1>2
  <2> QED BY <2>1, <1>2, HeadTailProperties, ElementOfSeq
<1>4. /\ b[1].timestamp \in Nat /\ b[1].count \in 1 .. MaxCount /\ video_time \in Nat
      /\ b[1].timestamp >= stamped /\ b[1].timestamp + b[1].count <= video_time
      /\ stamped \in Nat /\ video_time <= MaxTick + 1 /\ MaxTick \in Nat /\ MaxCount \in Nat
  BY <1>2, <1>3, CacheAssumption DEF TurnInv, Buffered, Info
<1>5. b[1].timestamp \in stamped .. MaxTick
  BY <1>4
<1>6. stamped' = b[1].timestamp + b[1].count
  BY <1>1, <1>3 DEF LockFrame
<1>7. LockedTurn'
  <2>1. CASE locked'
    BY <2>1, <1>1 DEF LockedTurn
  <2>2. CASE ~locked'
    BY <2>2, <1>1 DEF LockedTurn
  <2> QED BY <2>1, <2>2
<1>8. Buffered'
  <2>1. /\ b' \in Seq(Info) /\ video_time' \in Nat /\ stamped' \in Nat \ {0}
        /\ stamped' <= video_time' /\ video_time' <= MaxTick + 1
    BY <1>1, <1>3, <1>4, <1>6
  <2>2. \A i \in 1 .. Len(b') : /\ b'[i].timestamp >= stamped'
                                /\ b'[i].timestamp + b'[i].count <= video_time'
    <3> SUFFICES ASSUME NEW i \in 1 .. failures
                 PROVE  b[i + 1].timestamp >= stamped' /\ b[i + 1].timestamp + b[i + 1].count <= video_time
      BY <1>1, <1>3
    <3>1. 1 \in 1 .. Len(b) /\ i + 1 \in 1 .. Len(b) /\ 1 < i + 1
      BY <1>2
    <3> QED BY <3>1, <1>6 DEF TurnInv, Buffered
  <2>3. \A i, j \in 1 .. Len(b') : i < j => b'[i].timestamp + b'[i].count <= b'[j].timestamp
    <3> SUFFICES ASSUME NEW i \in 1 .. failures, NEW j \in 1 .. failures, i < j
                 PROVE  b[i + 1].timestamp + b[i + 1].count <= b[j + 1].timestamp
      BY <1>1, <1>3
    <3>1. i + 1 \in 1 .. Len(b) /\ j + 1 \in 1 .. Len(b) /\ i + 1 < j + 1
      BY <1>2
    <3> QED BY <3>1 DEF TurnInv, Buffered
  <2> HIDE DEF b
  <2> QED BY <2>1, <2>2, <2>3 DEF Buffered, b
<1>9. Staged'
  <2>1. PrevTexture' = cur_texture /\ cur_texture' \in Stages
    BY <1>1, <1>2, PrevStage
  <2>2. staged'[PrevTexture'] = video_time' /\ Len(b') = failures' /\ graphics' \in {"locked", "sleep"}
    BY <2>1, <1>1, <1>2, <1>3
  <2> QED BY <2>1, <2>2, <1>1 DEF TurnInv, Staged
<1> QED BY <1>1, <1>3, <1>4, <1>5, <1>7, <1>8, <1>9 DEF TurnInv

LEMMA NoOutputTurn ==
  ASSUME TurnInv, NoOutput
  PROVE  TurnInv'
<1>1. /\ graphics = "output" /\ graphics' = "sleep" /\ cur_texture' = NextTexture
      /\ UNCHANGED <<locked, stamped, video_time, raw_was_active, staged, vframe_info_buffer>>
  BY DEF NoOutput, cacheVars, ring, infos
<1>2. LockedTurn' /\ Buffered'
  BY <1>1 DEF TurnInv, LockedTurn, Buffered
<1>3. PrevTexture' = cur_texture /\ cur_texture' \in Stages
  BY <1>1, PrevStage DEF TurnInv, Staged
<1>4. /\ failures' \in Nat
      /\ raw_was_active => Len(vframe_info_buffer) = failures'
  <2>1. CASE ~Downloads /\ UNCHANGED failures
    BY <2>1, <1>1 DEF TurnInv, Staged, LastStaged, Downloads
  <2>2. CASE Downloads /\ failures' = failures + 1
    BY <2>2, <1>1 DEF TurnInv, Staged, LastStaged, Downloads
  <2> QED BY <2>1, <2>2 DEF NoOutput
<1>5. Staged'
  BY <1>1, <1>3, <1>4 DEF TurnInv, Staged
<1> QED BY <1>2, <1>5 DEF TurnInv

LEMMA UnlockTurn ==
  ASSUME TurnInv, Unlock
  PROVE  TurnInv'
<1>1. /\ graphics = "locked" /\ graphics' = "sleep" /\ locked' = FALSE
      /\ UNCHANGED <<stamped, video_time, raw_was_active, staged, vframe_info_buffer, cur_texture,
                     failures>>
  BY DEF Unlock, UnlockFrame, infos, stages
<1>2. LockedTurn' /\ Buffered'
  BY <1>1 DEF TurnInv, LockedTurn, Buffered
<1>3. PrevTexture' = PrevTexture
  BY <1>1 DEF PrevTexture
<1>4. Staged'
  BY <1>1, <1>3 DEF TurnInv, Staged
<1> QED BY <1>2, <1>4 DEF TurnInv

(* The picture enters the buffer behind all others. *)
LEMMA SleepTurn ==
  ASSUME TurnInv, Sleep
  PROVE  TurnInv'
<1> DEFINE b == vframe_info_buffer
<1>1. PICK count \in 1 .. MaxCount :
        LET info == [timestamp |-> video_time, count |-> count]
        IN /\ video_time + count <= Horizon + 1
           /\ video_time' = video_time + count
           /\ b' = IF raw_was_active THEN Append(b, info) ELSE b
  BY DEF Sleep
<1>2. /\ graphics = "sleep" /\ graphics' \in {"update", "ended"}
      /\ UNCHANGED <<locked, stamped, raw_was_active, staged, cur_texture, failures>>
  BY DEF Sleep, cacheVars, ring, stages
<1>3. /\ b \in Seq(Info) /\ video_time \in Nat /\ stamped \in Nat \ {0} /\ count \in Nat /\ count > 0
      /\ stamped <= video_time /\ failures \in Nat /\ Len(b) \in Nat
  BY CacheAssumption DEF TurnInv, Buffered, Staged
<1>4. video_time' <= MaxTick + 1
  <2>1. Horizon \in Nat /\ Horizon <= MaxTick
    BY MixAssumption, CacheAssumption DEF Horizon, HorizonOf
  <2> QED BY <2>1, <1>1, <1>3, CacheAssumption
<1> DEFINE info == [timestamp |-> video_time, count |-> count]
<1>5. /\ info \in Info /\ Append(b, info) \in Seq(Info) /\ Len(Append(b, info)) = Len(b) + 1
      /\ Append(b, info)[Len(b) + 1] = info
      /\ \A i \in 1 .. Len(b) : Append(b, info)[i] = b[i]
  <2>1. info \in Info
    BY <1>3 DEF Info
  <2> HIDE DEF info
  <2> QED BY <2>1, <1>3, AppendProperties
<1>6. LockedTurn'
  BY <1>2 DEF TurnInv, LockedTurn
<1>7. \A i \in 1 .. Len(b) : b[i] \in Info /\ b[i].timestamp \in Nat /\ b[i].count \in Nat
  <2>1. \A i \in 1 .. Len(b) : b[i] \in Info
    BY <1>3, ElementOfSeq
  <2> QED BY <2>1, CacheAssumption DEF Info
<1>8. Buffered'
  <2>1. CASE ~raw_was_active
    <3>1. b' = b /\ video_time' \in Nat /\ video_time' >= video_time
      BY <2>1, <1>1, <1>3
    <3>2. \A i \in 1 .. Len(b) : b[i].timestamp + b[i].count \in Nat
      BY <1>7
    <3>3. \A i \in 1 .. Len(b) : b[i].timestamp + b[i].count <= video_time'
      BY <3>1, <3>2, <1>3 DEF TurnInv, Buffered
    <3> QED BY <3>1, <3>3, <1>2, <1>3, <1>4 DEF TurnInv, Buffered
  <2>2. CASE raw_was_active
    <3>1. b' = Append(b, info)
      BY <2>2, <1>1
    <3>2. Len(b') = Len(b) + 1 /\ b'[Len(b) + 1].timestamp = video_time /\ b'[Len(b) + 1].count = count
      BY <3>1, <1>5
    <3>3. \A i \in 1 .. Len(b) : b'[i] = b[i]
      BY <3>1, <1>5
    <3>4. \A i \in 1 .. Len(b') : i \in 1 .. Len(b) \/ i = Len(b) + 1
      BY <3>2, <1>3
    <3>5. \A i \in 1 .. Len(b') : /\ b'[i].timestamp >= stamped'
                                  /\ b'[i].timestamp + b'[i].count <= video_time'
      BY <3>2, <3>3, <3>4, <1>1, <1>2, <1>3, <1>7 DEF TurnInv, Buffered
    <3>6. \A i, j \in 1 .. Len(b') : i < j => b'[i].timestamp + b'[i].count <= b'[j].timestamp
      <4> SUFFICES ASSUME NEW i \in 1 .. Len(b'), NEW j \in 1 .. Len(b'), i < j
                   PROVE  b'[i].timestamp + b'[i].count <= b'[j].timestamp
        OBVIOUS
      <4>1. i \in 1 .. Len(b)
        BY <3>2, <1>3
      <4>2. b'[i] = b[i] /\ b[i].timestamp + b[i].count <= video_time
        BY <4>1, <3>3 DEF TurnInv, Buffered
      <4>3. CASE j \in 1 .. Len(b)
        BY <4>1, <4>3, <3>3 DEF TurnInv, Buffered
      <4>4. CASE j = Len(b) + 1
        BY <4>2, <4>4, <3>2
      <4> QED BY <4>3, <4>4, <3>4
    <3>7. b' \in Seq(Info)
      BY <3>1, <1>5
    <3>8. video_time' \in Nat /\ stamped' \in Nat \ {0} /\ stamped' <= video_time'
      BY <1>1, <1>2, <1>3
    <3> HIDE DEF b
    <3> QED BY <3>5, <3>6, <3>7, <3>8, <1>4 DEF Buffered, b
  <2> QED BY <2>1, <2>2
<1>9. Staged'
  <2>1. PrevTexture' = PrevTexture
    BY <1>2 DEF PrevTexture
  <2>2. ASSUME raw_was_active
        PROVE  LastStaged'
    <3>1. staged[PrevTexture] = video_time /\ Len(b) = failures
      BY <2>2, <1>2 DEF TurnInv, Staged
    <3>2. b' = Append(b, info)
      BY <2>2, <1>1
    <3>3. Len(b') = failures + 1 /\ b'[failures + 1].timestamp = video_time
      BY <3>1, <3>2, <1>5
    <3>4. video_time # 0
      BY <1>3
    <3> QED BY <3>1, <3>3, <3>4, <2>1, <1>2 DEF LastStaged
  <2> QED BY <2>2, <1>2 DEF TurnInv, Staged
<1> QED BY <1>6, <1>8, <1>9 DEF TurnInv

-----------------------------------------------------------------------------
(* The contract of the frame cache                                          *)

(* The turn, and what it samples from the cache *)
MixInv == TurnInv /\ raw_active \in BOOLEAN

(* Only the graphics thread locks frames, unlocks them and stamps them. *)
LEMMA OthersKeep ==
  ASSUME VideoThread \/ Users
  PROVE  UNCHANGED <<locked, stamped>>
<1>1. CASE VideoThread
  BY <1>1 DEF VideoThread, Wake, ShowFrame, EndFrame, FreeSlot, RepeatFrame, LeaveFrame, ring
<1>2. CASE Users
  BY <1>2 DEF Users, Connect, Disconnect, StopOutput, IncTextureEncoders, DecTextureEncoders,
              CountTextureSkips, ring
<1> QED BY <1>1, <1>2

LEMMA RawActiveType ==
  ASSUME raw_active \in BOOLEAN, [CacheNext]_cacheVars
  PROVE  raw_active' \in BOOLEAN
<1>1. CASE Graphics \/ UNCHANGED cacheVars
  BY <1>1 DEF Graphics, LockFrame, UnlockFrame, cacheVars, connections
<1>2. CASE VideoThread
  <2>1. CASE ShowFrame
    <3>1. raw_active' = (raw_active /\ inputs' # << >>)
      BY <2>1 DEF ShowFrame, ShowInputs
    <3> QED BY <3>1
  <2>2. CASE Wake \/ EndFrame \/ LeaveFrame
    BY <2>2 DEF Wake, EndFrame, LeaveFrame, connections
  <2> QED BY <1>2, <2>1, <2>2 DEF VideoThread
<1>3. CASE Users
  <2>1. ASSUME NEW e \in Inputs, Connect(e)
        PROVE  raw_active' \in BOOLEAN
    BY <2>1 DEF Connect
  <2>2. ASSUME NEW e \in Inputs, Disconnect(e)
        PROVE  raw_active' \in BOOLEAN
    <3>1. raw_active' = (inputs' # << >>)
      BY <2>2 DEF Disconnect
    <3> QED BY <3>1
  <2>3. ASSUME StopOutput \/ IncTextureEncoders \/ DecTextureEncoders
                 \/ \E n \in 0 .. 1 : CountTextureSkips(n)
        PROVE  raw_active' = raw_active
    BY <2>3 DEF StopOutput, IncTextureEncoders, DecTextureEncoders, CountTextureSkips, connections
  <2> QED BY <1>3, <2>1, <2>2, <2>3 DEF Users
<1> QED BY <1>1, <1>2, <1>3 DEF CacheNext

(* Every step of the mix is one the cache allows. *)
LEMMA MixCacheStep ==
  ASSUME MixInv, [Next]_vars
  PROVE  [CacheNext]_cacheVars
<1>1. CASE GraphicsThread
  <2>1. CASE UpdateActiveState \/ Render \/ NoOutput \/ Sleep
    BY <2>1 DEF UpdateActiveState, Render, NoOutput, Sleep
  <2>2. CASE Output
    BY <2>2, OutputTurn DEF CacheNext, Graphics, MixInv
  <2>3. CASE Unlock
    BY <2>3 DEF Unlock, CacheNext, Graphics
  <2> QED BY <1>1, <2>1, <2>2, <2>3 DEF GraphicsThread
<1>2. CASE CacheThread
  BY <1>2 DEF CacheThread, CacheNext
<1>3. CASE GpuThreadStep
  <2>1. CASE UNCHANGED cacheVars
    BY <2>1
  <2>2. CASE CountTextureSkips(IF tf.count > 1 THEN 1 ELSE 0)
    <3>1. (IF tf.count > 1 THEN 1 ELSE 0) \in 0 .. 1
      OBVIOUS
    <3> QED BY <2>2, <3>1 DEF CacheNext, Users
  <2>3. CASE DecTextureEncoders
    BY <2>3 DEF CacheNext, Users
  <2> QED BY <1>3, <2>1, <2>2, <2>3 DEF GpuThreadStep
<1>4. CASE UserSteps
  BY <1>4 DEF UserSteps, CacheNext, Users
<1>5. CASE UNCHANGED vars
  BY <1>5 DEF vars
<1> QED BY <1>1, <1>2, <1>3, <1>4, <1>5 DEF Next

LEMMA MixTurnStep ==
  ASSUME MixInv, [Next]_vars
  PROVE  MixInv'
<1>1. raw_active' \in BOOLEAN
  BY MixCacheStep, RawActiveType DEF MixInv
<1>2. TurnInv /\ raw_active \in BOOLEAN
  BY DEF MixInv
<1>3. CASE GraphicsThread
  <2>1. TurnInv'
    BY <1>2, <1>3, UpdateTurn, RenderTurn, OutputTurn, NoOutputTurn, UnlockTurn, SleepTurn
    DEF GraphicsThread
  <2> QED BY <1>1, <2>1 DEF MixInv
<1>4. ASSUME UNCHANGED graphicsVars, UNCHANGED <<locked, stamped>>
      PROVE  MixInv'
  BY <1>1, <1>2, <1>4, TurnKept DEF MixInv
<1>5. CASE CacheThread
  BY <1>4, <1>5, OthersKeep DEF CacheThread
<1>6. CASE GpuThreadStep
  <2>1. UNCHANGED <<locked, stamped>>
    BY <1>6 DEF GpuThreadStep, CountTextureSkips, DecTextureEncoders, cacheVars, ring
  <2> QED BY <1>4, <1>6, <2>1 DEF GpuThreadStep
<1>7. CASE UserSteps
  <2>1. UNCHANGED <<locked, stamped>>
    BY <1>7 DEF UserSteps, Connect, Disconnect, StopOutput, IncTextureEncoders,
                DecTextureEncoders, cacheVars, ring
  <2> QED BY <1>4, <1>7, <2>1 DEF UserSteps
<1>8. CASE UNCHANGED vars
  <2>1. UNCHANGED graphicsVars /\ UNCHANGED <<locked, stamped>>
    BY <1>8 DEF vars, cacheVars, ring
  <2> QED BY <1>4, <2>1
<1> QED BY <1>3, <1>5, <1>6, <1>7, <1>8 DEF Next

LEMMA MixInit == Init => MixInv
  BY TurnInit DEF MixInv, Init, CacheInit

LEMMA MixTurn == Spec => []MixInv
<1>1. MixInv /\ [Next]_vars => MixInv'
  BY MixTurnStep
<1> QED BY <1>1, MixInit, PTL DEF Spec

(* The graphics thread keeps the contract of the frame cache: every step of *)
(* the mix is a step of FrameCache or leaves it alone, so one frame at a    *)
(* time is locked and stamps go up, across sessions and failed downloads.   *)
THEOREM MixUsesCache == Spec => UsesCache
<1>1. Init => CacheInit
  BY DEF Init
<1>2. MixInv /\ [Next]_vars => [CacheNext]_cacheVars
  BY MixCacheStep
<1> QED BY <1>1, <1>2, MixTurn, PTL DEF Spec, UsesCache, CacheSpec

(* So the ring of the cache is sound under the real graphics thread: its    *)
(* frames are in order and do not overlap.                                  *)
THEOREM MixRing == Spec => []RingSound
  BY MixUsesCache, RingCorrect, PTL DEF UsesCache

(* And its inputs get what FrameFeed promises: every tick once, in order.   *)
THEOREM MixFeed == Spec => ImplementsFeed
  BY MixUsesCache, CacheImplementsFeed, PTL DEF UsesCache

(* The ticks of dropped frames are each counted as skipped once.            *)
THEOREM MixSkips == Spec => []SkipsCounted
  BY MixUsesCache, SkipsCorrect, PTL DEF UsesCache

(* And every input gets each Divisor-th tick.                               *)
THEOREM MixPace == Spec => []InputsKeepPace
  BY MixUsesCache, PaceKept, PTL DEF UsesCache

LEMMA StampedFromTurn == MixInv => PictureStamped
<1> SUFFICES ASSUME MixInv, graphics = "output", Downloads
             PROVE  /\ Len(vframe_info_buffer) = failures + 1
                    /\ vframe_info_buffer[1].timestamp <= staged[PrevTexture]
                    /\ vframe_info_buffer[failures + 1].timestamp = staged[PrevTexture]
  BY DEF PictureStamped
<1>1. LastStaged /\ failures \in Nat /\ vframe_info_buffer \in Seq(Info)
  BY DEF MixInv, TurnInv, Staged, Downloads, Buffered
<1>2. 1 \in 1 .. Len(vframe_info_buffer) /\ failures + 1 \in 1 .. Len(vframe_info_buffer)
  BY <1>1 DEF LastStaged
<1>3. \A i \in 1 .. Len(vframe_info_buffer) :
         vframe_info_buffer[i].timestamp \in Nat /\ vframe_info_buffer[i].count \in Nat
  <2>1. \A i \in 1 .. Len(vframe_info_buffer) : vframe_info_buffer[i] \in Info
    BY <1>1, ElementOfSeq
  <2> QED BY <2>1, CacheAssumption DEF Info
<1>4. vframe_info_buffer[1].timestamp <= vframe_info_buffer[failures + 1].timestamp
  <2>1. CASE failures = 0
    BY <2>1, <1>2, <1>3
  <2>2. CASE failures > 0
    <3>1. vframe_info_buffer[1].timestamp + vframe_info_buffer[1].count
            <= vframe_info_buffer[failures + 1].timestamp
      BY <2>2, <1>1, <1>2 DEF MixInv, TurnInv, Buffered
    <3> QED BY <3>1, <1>2, <1>3
  <2> QED BY <2>1, <2>2, <1>1
<1> QED BY <1>1, <1>4 DEF LastStaged

(* A downloaded picture is stamped with the tick it was drawn at, or an     *)
(* earlier one after failed downloads (vframe_info_buffer of obs-video.c).  *)
THEOREM StampsCorrect == Spec => []PictureStamped
  BY MixTurn, StampedFromTurn, PTL

-----------------------------------------------------------------------------
(* The texture encoders in the mix                                          *)

(* The first tick the texture queue has not been given *)
NextHanded == IF vframe_info_buffer_gpu = << >> THEN video_time
              ELSE Head(vframe_info_buffer_gpu).timestamp

(* Nothing has gone through the queue. *)
Blank == queue = << >> /\ tf.count = 0 /\ gpu_tick = 0

(* The buffer of the texture encoders holds the picture of the last turn at *)
(* most; while they are served it ends at the picture being drawn, and what *)
(* is queued goes up to it.  Before they are served nothing is queued.      *)
Served ==
  /\ vframe_info_buffer_gpu \in Seq(Info) /\ Len(vframe_info_buffer_gpu) <= 1
  /\ gpu_was_active \in BOOLEAN
  /\ gpu_was_active /\ graphics \in {"output", "locked", "sleep"} => vframe_info_buffer_gpu = << >>
  /\ gpu_was_active /\ vframe_info_buffer_gpu # << >> =>
       Head(vframe_info_buffer_gpu).timestamp + Head(vframe_info_buffer_gpu).count = video_time
  /\ gpu_was_active => Ready(NextHanded, MaxCount)
  /\ \E next \in Nat : Ready(next, MaxCount)
  /\ ~gpu_was_active /\ gpu_encoders # << >> => Blank

ServedInv == MixInv /\ GpuInv /\ Served

LEMMA BlankReady ==
  ASSUME Blank, NEW next, NEW m
  PROVE  Ready(next, m)
<1>1. Frames(queue) = {} /\ Len(queue) = 0 /\ queue = << >> /\ ~(tf.count > 0) /\ gpu_tick = 0
  BY EmptyQueue DEF Blank
<1> QED BY <1>1 DEF Ready, Line, Close

LEMMA HandedType ==
  ASSUME ServedInv
  PROVE  /\ NextHanded \in Nat /\ video_time \in Nat
         /\ vframe_info_buffer_gpu # << >> =>
              /\ Head(vframe_info_buffer_gpu) \in Info
              /\ Head(vframe_info_buffer_gpu).timestamp \in Nat
              /\ Tail(vframe_info_buffer_gpu) = << >>
<1>1. video_time \in Nat /\ vframe_info_buffer_gpu \in Seq(Info) /\ Len(vframe_info_buffer_gpu) <= 1
  BY DEF ServedInv, MixInv, TurnInv, Buffered, Served
<1>2. ASSUME vframe_info_buffer_gpu # << >>
      PROVE  /\ Head(vframe_info_buffer_gpu) \in Info
             /\ Head(vframe_info_buffer_gpu).timestamp \in Nat
             /\ Tail(vframe_info_buffer_gpu) = << >>
  <2>1. /\ Head(vframe_info_buffer_gpu) \in Info
        /\ Tail(vframe_info_buffer_gpu) \in Seq(Info)
        /\ Len(Tail(vframe_info_buffer_gpu)) = Len(vframe_info_buffer_gpu) - 1
        /\ Len(vframe_info_buffer_gpu) \in Nat /\ Len(vframe_info_buffer_gpu) > 0
    BY <1>1, <1>2, HeadTailProperties, LenProperties, EmptySeq
  <2>2. Len(Tail(vframe_info_buffer_gpu)) = 0
    BY <2>1, <1>1
  <2>3. Tail(vframe_info_buffer_gpu) = << >>
    BY <2>1, <2>2, EmptySeq
  <2> QED BY <2>1, <2>3 DEF Info
<1> QED BY <1>1, <1>2 DEF NextHanded

(* Steps of the texture encoders' side leave the buffer alone. *)
LEMMA ServedKept ==
  ASSUME ServedInv, UNCHANGED graphicsVars,
         \A next, m : Ready(next, m) => Ready(next, m)',
         ~gpu_was_active /\ gpu_encoders' # << >> => Blank'
  PROVE  Served'
<1>1. UNCHANGED <<video_time, graphics, gpu_was_active, vframe_info_buffer_gpu>>
  BY DEF graphicsVars, infos
<1>2. NextHanded' = NextHanded
  BY <1>1 DEF NextHanded
<1>3. gpu_was_active => Ready(NextHanded, MaxCount)'
  <2>1. PICK next : next = NextHanded
    OBVIOUS
  <2>2. gpu_was_active => Ready(next, MaxCount)
    BY <2>1 DEF ServedInv, Served
  <2>3. gpu_was_active => Ready(next, MaxCount)'
    BY <2>2
  <2>4. next = NextHanded'
    BY <2>1, <1>2
  <2> QED BY <2>3, <2>4, <1>2 DEF Ready
<1>4. \E next \in Nat : Ready(next, MaxCount)'
  <2>1. PICK next \in Nat : Ready(next, MaxCount)
    BY DEF ServedInv, Served
  <2> QED BY <2>1
<1> QED BY <1>1, <1>3, <1>4 DEF ServedInv, Served

(* The GPU encode thread does not give anything to a queue that has nothing. *)
LEMMA ThreadNeedsTexture ==
  ASSUME GpuInv, Blank
  PROVE  /\ ~PopTexture /\ ~PassOver /\ ~Encode /\ ~EncodeFails /\ ~EndTexture
         /\ GpuWake \/ GpuLook \/ GpuBusy => Blank'
<1>1. ~PopTexture
  BY PopTextureKeeps DEF Blank
<1>2. gpu_thread # "encode"
  BY DEF Blank, GpuInv, GpuThreadAt
<1>3. GpuWake \/ GpuLook \/ GpuBusy => Blank'
  BY DEF Blank, GpuWake, GpuLook, GpuBusy, textures, threadVars
<1> QED BY <1>1, <1>2, <1>3 DEF PassOver, Encode, EncodeFails, EndTexture

LEMMA GpuThreadServed ==
  ASSUME ServedInv, GpuThreadStep
  PROVE  GpuInv' /\ Served'
<1>1. GpuInv /\ UNCHANGED graphicsVars
  BY DEF ServedInv, GpuThreadStep
<1>2. GpuThread
  BY DEF GpuThreadStep, GpuThread
<1>3. GpuInv' /\ \A next, m : Ready(next, m) => Ready(next, m)'
  BY <1>1, <1>2, GpuWakeKeeps, GpuLookKeeps, GpuBusyKeeps, PopTextureKeeps, PassOverKeeps,
     EncodeKeeps, EncodeFailsKeeps, EndTextureKeeps DEF GpuThread
<1>4. ~gpu_was_active /\ gpu_encoders' # << >> => Blank'
  <2> SUFFICES ASSUME ~gpu_was_active, gpu_encoders' # << >> PROVE Blank'
    OBVIOUS
  <2>1. gpu_encoders # << >>
    <3>1. CASE EncodeFails
      <4>1. PICK i \in DOMAIN gpu_encoders : TRUE
        BY <3>1 DEF EncodeFails, BeginStop
      <4> QED BY <4>1
    <3>2. CASE ~EncodeFails
      BY <3>2, <1>2 DEF GpuThread, GpuWake, GpuLook, GpuBusy, PopTexture, PassOver, Encode,
                        EndTexture, userVars
    <3> QED BY <3>1, <3>2
  <2>2. Blank
    BY <2>1 DEF ServedInv, Served
  <2> QED BY <2>2, <1>1, <1>2, ThreadNeedsTexture DEF GpuThread
<1> QED BY <1>1, <1>3, <1>4, ServedKept

(* Starting and stopping, one at a time *)
LEMMA UsersServed ==
  ASSUME ServedInv, Overlap = FALSE, UNCHANGED graphicsVars, NEW e \in Encoders,
         StartGpuEncode(e) \/ StopGpuEncode(e) \/ StopSteps(e)
  PROVE  GpuInv' /\ Served'
<1>1. GpuInv
  BY DEF ServedInv
<1>2. GpuInv' /\ \A next, m : Ready(next, m) => Ready(next, m)'
  BY <1>1, StartGpuEncodeKeeps, StopGpuEncodeKeeps, StopWaitedKeeps, StopJoinedKeeps,
     StopFreedKeeps DEF StopSteps
<1>3. Blank => Blank'
  <2>1. CASE StartGpuEncode(e)
    BY <2>1 DEF Blank, StartGpuEncode, Create, textures, threadVars
  <2>2. CASE StopGpuEncode(e)
    BY <2>2 DEF Blank, StopGpuEncode, textures, threadVars
  <2>3. CASE StopSteps(e)
    BY <2>3 DEF Blank, StopSteps, StopWaited, StopJoined, StopFreed, textures, threadVars
  <2> QED BY <2>1, <2>2, <2>3
<1>4. ~gpu_was_active /\ gpu_encoders' # << >> => Blank
  <2> SUFFICES ASSUME ~gpu_was_active, gpu_encoders' # << >> PROVE Blank
    OBVIOUS
  <2>1. CASE gpu_encoders # << >>
    BY <2>1 DEF ServedInv, Served
  <2>2. CASE gpu_encoders = << >>
    <3>1. CASE StartGpuEncode(e)
      <4>1. Quiet
        BY <3>1 DEF StartGpuEncode
      <4>2. tf.count \in Nat
        BY <1>1, QueueFrames
      <4> QED BY <4>1, <4>2, <2>2, <1>1, QuietQueue DEF Blank
    <3>2. CASE StopGpuEncode(e)
      <4>1. DOMAIN gpu_encoders = {}
        BY <2>2
      <4> QED BY <4>1, <3>2 DEF StopGpuEncode, BeginStop
    <3>3. CASE StopSteps(e)
      BY <3>3, <2>2 DEF StopSteps, StopWaited, StopJoined, StopFreed
    <3> QED BY <3>1, <3>2, <3>3
  <2> QED BY <2>1, <2>2
<1> QED BY <1>2, <1>3, <1>4, ServedKept

LEMMA GpuKept ==
  ASSUME GpuInv, UNCHANGED gpuVars
  PROVE  GpuInv' /\ \A next, m : Ready(next, m) => Ready(next, m)'
<1>1. UNCHANGED <<avail, queue, convert_texture, keys, tf, encoders, lock_count, lock_key, next_key,
                  gpu_semaphore, gpu_inactive, gpu_exists, gpu_stop, gpu_thread, wait_frames,
                  gpu_encoders, gpu_encoder_active, stopping, start_ts, gpu_counter, failed,
                  gpu_tick>>
  BY DEF gpuVars, textures, threadVars, syncVars, userVars, encoderVars
<1>2. GpuTypes'
  BY <1>1 DEF GpuInv, GpuTypes
<1>3. GpuUsers'
  BY <1>1 DEF GpuInv, GpuUsers, Closing, Frames, Once
<1>4. GpuThreadAt'
  BY <1>1 DEF GpuInv, GpuThreadAt, Frames
<1>5. Stock'
  BY <1>1 DEF GpuInv, Stock, Places, Keyed, Taken, Distinct, Frames
<1>6. SemaphoreMatches'
  BY <1>1 DEF GpuInv, SemaphoreMatches, Ticks
<1>7. \A next, m : Ready(next, m) => Ready(next, m)'
  BY <1>1 DEF Ready, Line, Close, Starts, Frames
<1> QED BY <1>2, <1>3, <1>4, <1>5, <1>6, <1>7 DEF GpuInv

(* A step of the graphics thread that hands nothing over *)
LEMMA NothingHanded ==
  ASSUME ServedInv, UNCHANGED gpuVars
  PROVE  /\ GpuInv' /\ \A next, m : Ready(next, m) => Ready(next, m)'
         /\ Blank => Blank'
         /\ \E next \in Nat : Ready(next, MaxCount)'
         /\ gpu_encoders' = gpu_encoders
<1>1. GpuInv' /\ \A next, m : Ready(next, m) => Ready(next, m)'
  BY GpuKept DEF ServedInv
<1>2. \E next \in Nat : Ready(next, MaxCount)'
  <2>1. PICK next \in Nat : Ready(next, MaxCount)
    BY DEF ServedInv, Served
  <2> QED BY <2>1, <1>1
<1>3. (Blank => Blank') /\ gpu_encoders' = gpu_encoders
  BY DEF Blank, gpuVars, textures, threadVars, userVars
<1> QED BY <1>1, <1>2, <1>3

(* Served' from what the step has handed over up to then *)
LEMMA ServedAgain ==
  ASSUME NEW next \in Nat, Ready(next, MaxCount)', gpu_was_active' => next = NextHanded',
         vframe_info_buffer_gpu' \in Seq(Info), Len(vframe_info_buffer_gpu') <= 1,
         gpu_was_active' \in BOOLEAN,
         gpu_was_active' /\ graphics' \in {"output", "locked", "sleep"}
           => vframe_info_buffer_gpu' = << >>,
         gpu_was_active' /\ vframe_info_buffer_gpu' # << >> =>
           Head(vframe_info_buffer_gpu').timestamp + Head(vframe_info_buffer_gpu').count = video_time',
         ~gpu_was_active' /\ gpu_encoders' # << >> => Blank'
  PROVE  Served'
<1>1. gpu_was_active' => Ready(NextHanded, MaxCount)'
  BY DEF Ready
<1> QED BY <1>1 DEF Served

LEMMA UpdateServed ==
  ASSUME ServedInv, UpdateActiveState
  PROVE  GpuInv' /\ Served'
<1>1. /\ graphics' = "render" /\ gpu_was_active' = (gpu_encoder_active > 0)
      /\ vframe_info_buffer_gpu' = IF ~gpu_was_active /\ gpu_encoder_active > 0 THEN << >>
                                   ELSE vframe_info_buffer_gpu
      /\ UNCHANGED gpuVars /\ video_time' = video_time
  BY DEF UpdateActiveState
<1>2. /\ GpuInv' /\ \A next, m : Ready(next, m) => Ready(next, m)'
      /\ Blank => Blank'
      /\ \E next \in Nat : Ready(next, MaxCount)'
      /\ gpu_encoders' = gpu_encoders
  BY <1>1, NothingHanded
<1>3. gpu_encoder_active > 0 <=> gpu_encoders # << >>
  <2>1. gpu_encoder_active = Len(gpu_encoders) /\ gpu_encoders \in Seq(Encoders)
    BY DEF ServedInv, GpuInv, GpuUsers, GpuTypes
  <2> QED BY <2>1, ListOf
<1>4. /\ Served /\ NextHanded \in Nat /\ video_time \in Nat
      /\ vframe_info_buffer_gpu \in Seq(Info) /\ Len(vframe_info_buffer_gpu) <= 1
  BY HandedType DEF ServedInv, Served
<1>5. CASE ~gpu_was_active /\ gpu_encoder_active > 0
  <2>1. vframe_info_buffer_gpu' = << >> /\ gpu_was_active' = TRUE
    BY <1>1, <1>5
  <2>2. Blank
    BY <1>3, <1>4, <1>5 DEF Served
  <2>3. Ready(video_time, MaxCount)'
    <3>1. PICK next : next = video_time
      OBVIOUS
    <3>2. Ready(next, MaxCount)'
      BY <2>2, <1>2, BlankReady
    <3> QED BY <3>1, <3>2, <1>1 DEF Ready
  <2>4. NextHanded' = video_time
    BY <2>1, <1>1 DEF NextHanded
  <2>5. Served'
    <3>1. << >> \in Seq(Info) /\ Len(<< >>) <= 1
      OBVIOUS
    <3>2. PICK next \in Nat : next = video_time
      BY <1>4
    <3>3. Ready(next, MaxCount)' /\ next = NextHanded'
      BY <2>3, <2>4, <3>2, <1>1 DEF Ready
    <3> QED BY <3>1, <3>3, <2>1, ServedAgain
  <2> QED BY <2>5, <1>2
<1>6. CASE ~(~gpu_was_active /\ gpu_encoder_active > 0) /\ gpu_encoder_active > 0
  <2>1. /\ vframe_info_buffer_gpu' = vframe_info_buffer_gpu /\ gpu_was_active' = TRUE
        /\ gpu_was_active
    BY <1>1, <1>6
  <2>2. NextHanded' = NextHanded
    BY <2>1, <1>1 DEF NextHanded
  <2>3. PICK next \in Nat : next = NextHanded
    BY <1>4
  <2>4. Ready(next, MaxCount)'
    <3>1. Ready(next, MaxCount)
      BY <2>1, <2>3, <1>4 DEF Served
    <3> QED BY <3>1, <1>2
  <2>5. gpu_was_active /\ vframe_info_buffer_gpu # << >> =>
       Head(vframe_info_buffer_gpu).timestamp + Head(vframe_info_buffer_gpu).count = video_time
    BY <1>4 DEF Served
  <2>6. Served'
    BY <2>1, <2>2, <2>3, <2>4, <2>5, <1>1, <1>4, ServedAgain
  <2> QED BY <2>6, <1>2
<1>7. CASE ~(gpu_encoder_active > 0)
  <2>1. /\ vframe_info_buffer_gpu' = vframe_info_buffer_gpu /\ gpu_was_active' = FALSE
        /\ gpu_encoders' = << >>
    <3>1. gpu_encoders' = << >>
      BY <1>2, <1>3, <1>7
    <3>2. gpu_was_active' = FALSE
      <4>1. (gpu_encoder_active > 0) = FALSE
        BY <1>7
      <4> QED BY <4>1, <1>1
    <3>3. vframe_info_buffer_gpu' = vframe_info_buffer_gpu
      BY <1>1, <1>7
    <3> QED BY <3>1, <3>2, <3>3
  <2>2. PICK next \in Nat : Ready(next, MaxCount)'
    BY <1>2
  <2>3. Served'
    BY <2>1, <2>2, <1>4, ServedAgain
  <2> QED BY <2>3, <1>2
<1> QED BY <1>5, <1>6, <1>7

LEMMA RenderServed ==
  ASSUME ServedInv, Render
  PROVE  GpuInv' /\ Served'
<1>1. /\ graphics' = "output" /\ video_time' = video_time /\ gpu_was_active' = gpu_was_active
      /\ IF gpu_was_active /\ vframe_info_buffer_gpu # << >>
         THEN /\ EncodeGpu(Head(vframe_info_buffer_gpu), raw_was_active)
              /\ vframe_info_buffer_gpu' = Tail(vframe_info_buffer_gpu)
         ELSE UNCHANGED <<gpuVars, vframe_info_buffer_gpu>>
  BY DEF Render
<1>2. /\ Served /\ NextHanded \in Nat /\ video_time \in Nat /\ raw_was_active \in BOOLEAN
      /\ vframe_info_buffer_gpu \in Seq(Info) /\ Len(vframe_info_buffer_gpu) <= 1
      /\ GpuInv /\ gpu_was_active \in BOOLEAN
      /\ vframe_info_buffer_gpu # << >> =>
              /\ Head(vframe_info_buffer_gpu) \in Info
              /\ Head(vframe_info_buffer_gpu).timestamp \in Nat
              /\ Tail(vframe_info_buffer_gpu) = << >>
  BY HandedType DEF ServedInv, Served, MixInv, TurnInv, Staged
<1>3. CASE gpu_was_active /\ vframe_info_buffer_gpu # << >>
  <2> DEFINE info == Head(vframe_info_buffer_gpu)
  <2>1. /\ EncodeGpu(info, raw_was_active) /\ vframe_info_buffer_gpu' = << >>
        /\ info \in Info /\ info.timestamp \in Nat
    BY <1>1, <1>2, <1>3
  <2>2. info.timestamp + info.count = video_time
    BY <1>2, <1>3 DEF Served
  <2>3. Ready(info.timestamp, MaxCount)
    <3>1. NextHanded = info.timestamp
      BY <1>3 DEF NextHanded
    <3> QED BY <3>1, <1>2, <1>3 DEF Served
  <2> HIDE DEF info
  <2>4. PICK n : n = info
    OBVIOUS
  <2>5. GpuInv' /\ Ready(n.timestamp + n.count, MaxCount)'
    <3>1. n \in [timestamp : Nat, count : 1 .. MaxCount] /\ MaxCount \in Nat
      BY <2>1, <2>4, CacheAssumption DEF Info
    <3>2. EncodeGpu(n, raw_was_active)
      BY <2>1, <2>4
    <3>3. PICK raw \in BOOLEAN : raw = raw_was_active
      BY <1>2
    <3>4. EncodeGpu(n, raw)
      BY <3>2, <3>3
    <3>5. Ready(n.timestamp, MaxCount)
      BY <2>3, <2>4
    <3> QED BY <3>1, <3>4, <3>5, <1>2, EncodeGpuKeeps
  <2>6. PICK next \in Nat : next = video_time
    BY <1>2
  <2>7. Ready(next, MaxCount)'
    <3>1. n.timestamp + n.count = next
      BY <2>2, <2>4, <2>6
    <3> QED BY <3>1, <2>5
  <2>8. next = NextHanded'
    BY <2>1, <2>6, <1>1 DEF NextHanded
  <2>9. << >> \in Seq(Info) /\ Len(<< >>) <= 1
    OBVIOUS
  <2>10. Served'
    BY <2>1, <2>7, <2>8, <2>9, <1>1, <1>2, <1>3, ServedAgain
  <2> QED BY <2>5, <2>10
<1>4. CASE ~(gpu_was_active /\ vframe_info_buffer_gpu # << >>)
  <2>1. UNCHANGED gpuVars /\ vframe_info_buffer_gpu' = vframe_info_buffer_gpu
    BY <1>1, <1>4
  <2>2. /\ GpuInv' /\ \A next, m : Ready(next, m) => Ready(next, m)'
        /\ Blank => Blank'
        /\ \E next \in Nat : Ready(next, MaxCount)'
        /\ gpu_encoders' = gpu_encoders
    BY <2>1, NothingHanded
  <2>3. NextHanded' = NextHanded
    BY <2>1, <1>1 DEF NextHanded
  <2>4. \E next \in Nat : Ready(next, MaxCount)' /\ (gpu_was_active' => next = NextHanded')
    <3>1. CASE gpu_was_active
      <4>1. PICK next \in Nat : next = NextHanded
        BY <1>2
      <4>2. Ready(next, MaxCount)
        BY <4>1, <3>1, <1>2 DEF Served
      <4> QED BY <4>1, <4>2, <2>2, <2>3
    <3>2. CASE ~gpu_was_active
      BY <3>2, <2>2, <1>1
    <3> QED BY <3>1, <3>2
  <2>5. PICK next \in Nat : Ready(next, MaxCount)' /\ (gpu_was_active' => next = NextHanded')
    BY <2>4
  <2>6. ~gpu_was_active' /\ gpu_encoders' # << >> => Blank'
    BY <2>2, <1>1, <1>2 DEF Served
  <2>7. Served'
    BY <2>1, <2>5, <2>6, <1>1, <1>2, <1>4, ServedAgain
  <2> QED BY <2>2, <2>7
<1> QED BY <1>3, <1>4

LEMMA SleepServed ==
  ASSUME ServedInv, Sleep
  PROVE  GpuInv' /\ Served'
<1>1. PICK count \in 1 .. MaxCount :
        /\ graphics = "sleep" /\ video_time' = video_time + count
        /\ vframe_info_buffer_gpu' = IF gpu_was_active
             THEN Append(vframe_info_buffer_gpu, [timestamp |-> video_time, count |-> count])
             ELSE vframe_info_buffer_gpu
        /\ gpu_was_active' = gpu_was_active /\ graphics' \in {"ended", "update"}
        /\ UNCHANGED gpuVars
  BY DEF Sleep
<1>2. /\ Served /\ NextHanded \in Nat /\ video_time \in Nat
      /\ vframe_info_buffer_gpu \in Seq(Info) /\ Len(vframe_info_buffer_gpu) <= 1
      /\ gpu_was_active \in BOOLEAN
      /\ gpu_was_active => vframe_info_buffer_gpu = << >>
  BY <1>1, HandedType DEF ServedInv, Served
<1>3. /\ GpuInv' /\ \A next, m : Ready(next, m) => Ready(next, m)'
      /\ Blank => Blank'
      /\ \E next \in Nat : Ready(next, MaxCount)'
      /\ gpu_encoders' = gpu_encoders
  BY <1>1, NothingHanded
<1>4. CASE gpu_was_active
  <2> DEFINE info == [timestamp |-> video_time, count |-> count]
  <2>1. info \in Info /\ info.timestamp = video_time /\ info.count = count
    BY <1>2 DEF Info
  <2> HIDE DEF info
  <2>2. vframe_info_buffer_gpu' = Append(<< >>, info)
    BY <1>1, <1>2, <1>4 DEF info
  <2>3. /\ vframe_info_buffer_gpu' = <<info>> /\ vframe_info_buffer_gpu' \in Seq(Info)
        /\ Len(vframe_info_buffer_gpu') <= 1 /\ Head(vframe_info_buffer_gpu') = info
        /\ vframe_info_buffer_gpu' # << >>
    BY <2>1, <2>2
  <2>4. NextHanded = video_time /\ NextHanded' = video_time
    BY <2>1, <2>3, <1>2, <1>4 DEF NextHanded
  <2>5. PICK next \in Nat : next = NextHanded
    BY <1>2
  <2>6. Ready(next, MaxCount)'
    <3>1. Ready(next, MaxCount)
      BY <2>5, <1>2, <1>4 DEF Served
    <3> QED BY <3>1, <1>3
  <2>7. Head(vframe_info_buffer_gpu').timestamp + Head(vframe_info_buffer_gpu').count = video_time'
    BY <2>1, <2>3, <1>1
  <2>8. Served'
    BY <2>3, <2>4, <2>5, <2>6, <2>7, <1>1, <1>2, <1>4, ServedAgain
  <2> QED BY <2>8, <1>3
<1>5. CASE ~gpu_was_active
  <2>1. PICK next \in Nat : Ready(next, MaxCount)'
    BY <1>3
  <2>2. ~gpu_was_active' /\ gpu_encoders' # << >> => Blank'
    BY <1>1, <1>2, <1>3 DEF Served
  <2>3. Served'
    BY <2>1, <2>2, <1>1, <1>2, <1>5, ServedAgain
  <2> QED BY <2>3, <1>3
<1> QED BY <1>4, <1>5

LEMMA OutputServed ==
  ASSUME ServedInv, Output \/ NoOutput \/ Unlock
  PROVE  GpuInv' /\ Served'
<1>1. /\ graphics \in {"output", "locked"} /\ graphics' \in {"locked", "sleep"}
      /\ UNCHANGED <<gpuVars, video_time, gpu_was_active, vframe_info_buffer_gpu>>
  <2>1. CASE Output
    BY <2>1 DEF Output
  <2>2. CASE NoOutput
    BY <2>2 DEF NoOutput, infos
  <2>3. CASE Unlock
    BY <2>3 DEF Unlock, infos
  <2> QED BY <2>1, <2>2, <2>3
<1>2. /\ GpuInv' /\ \A next, m : Ready(next, m) => Ready(next, m)'
      /\ Blank => Blank'
      /\ \E next \in Nat : Ready(next, MaxCount)'
      /\ gpu_encoders' = gpu_encoders
  BY <1>1, NothingHanded
<1>3. Served /\ NextHanded \in Nat
  BY HandedType DEF ServedInv
<1>4. NextHanded' = NextHanded
  BY <1>1 DEF NextHanded
<1>5. gpu_was_active => Ready(NextHanded, MaxCount)'
  <2>1. PICK next : next = NextHanded
    OBVIOUS
  <2>2. gpu_was_active => Ready(next, MaxCount)'
    BY <2>1, <1>2, <1>3 DEF Served
  <2> QED BY <2>1, <2>2, <1>4 DEF Ready
<1>6. Served'
  BY <1>1, <1>2, <1>3, <1>5 DEF Served
<1> QED BY <1>2, <1>6

-----------------------------------------------------------------------------
(* The theorems about texture encoders                                      *)

LEMMA ServedStep ==
  ASSUME ServedInv, Overlap = FALSE, [Next]_vars
  PROVE  ServedInv'
<1>1. MixInv'
  BY MixTurnStep DEF ServedInv
<1>2. CASE GraphicsThread
  <2>1. GpuInv' /\ Served'
    BY <1>2, UpdateServed, RenderServed, SleepServed, OutputServed DEF GraphicsThread
  <2> QED BY <1>1, <2>1 DEF ServedInv
<1>3. CASE GpuThreadStep
  BY <1>1, <1>3, GpuThreadServed DEF ServedInv
<1>4. ASSUME UNCHANGED <<gpuVars, graphicsVars>>
      PROVE  ServedInv'
  <2>1. /\ GpuInv' /\ \A next, m : Ready(next, m) => Ready(next, m)'
        /\ Blank => Blank'
        /\ gpu_encoders' = gpu_encoders
    BY <1>4, NothingHanded
  <2>2. ~gpu_was_active /\ gpu_encoders' # << >> => Blank'
    BY <2>1 DEF ServedInv, Served
  <2>3. Served'
    BY <2>1, <2>2, <1>4, ServedKept
  <2> QED BY <2>1, <2>3, <1>1 DEF ServedInv
<1>5. CASE CacheThread
  BY <1>4, <1>5 DEF CacheThread
<1>6. CASE UserSteps
  <2>1. \/ UNCHANGED gpuVars
        \/ \E e \in Encoders : StartGpuEncode(e) \/ StopGpuEncode(e) \/ StopSteps(e)
    BY <1>6 DEF UserSteps
  <2>2. UNCHANGED graphicsVars
    BY <1>6 DEF UserSteps
  <2>3. ASSUME NEW e \in Encoders, StartGpuEncode(e) \/ StopGpuEncode(e) \/ StopSteps(e)
        PROVE  ServedInv'
    BY <2>2, <2>3, <1>1, UsersServed DEF ServedInv
  <2> QED BY <2>1, <2>2, <2>3, <1>4
<1>7. CASE UNCHANGED vars
  BY <1>4, <1>7 DEF vars
<1> QED BY <1>2, <1>3, <1>5, <1>6, <1>7 DEF Next

LEMMA ServedInit == Init => ServedInv
<1> SUFFICES ASSUME Init PROVE ServedInv
  OBVIOUS
<1>1. GpuInv /\ \A next, m : Ready(next, m)
  BY GpuInitInv DEF Init
<1>2. /\ vframe_info_buffer_gpu = << >> /\ gpu_was_active = FALSE /\ gpu_encoders = << >>
  BY DEF Init, GpuInit
<1>3. vframe_info_buffer_gpu \in Seq(Info) /\ Len(vframe_info_buffer_gpu) <= 1
  BY <1>2
<1>4. \E next \in Nat : Ready(next, MaxCount)
  <2>1. PICK next \in Nat : next = 0
    OBVIOUS
  <2> QED BY <2>1, <1>1
<1>5. Served
  BY <1>2, <1>3, <1>4 DEF Served
<1> QED BY <1>1, <1>5, MixInit DEF ServedInv

LEMMA MixServed ==
  ASSUME Overlap = FALSE
  PROVE  Spec => []ServedInv
<1>1. ServedInv /\ [Next]_vars => ServedInv'
  BY ServedStep
<1> QED BY <1>1, ServedInit, PTL DEF Spec

LEMMA LineServed == ServedInv => TicksInOrder
<1> SUFFICES ASSUME ServedInv, NEW line, line = InThread \o queue, line # << >>
             PROVE  /\ \A i \in 1 .. Len(line) - 1 : line[i + 1].tick = line[i].tick + line[i].count
                    /\ gpu_tick > 0 => line[1].tick = gpu_tick + 1
                    /\ gpu_was_active /\ vframe_info_buffer_gpu # << >> =>
                         Head(vframe_info_buffer_gpu).timestamp = Last(line).tick + Last(line).count
  BY DEF TicksInOrder
<1>1. GpuInv /\ Served /\ NextHanded \in Nat
  BY HandedType DEF ServedInv
<1>2. PICK next \in Nat : Ready(next, MaxCount)
  BY <1>1 DEF Served
<1>3. /\ \A i \in 1 .. Len(line) - 1 : line[i + 1].tick = line[i].tick + line[i].count
      /\ gpu_tick > 0 => line[1].tick = gpu_tick + 1
  BY <1>1, <1>2, ReadyLine
<1>4. ASSUME gpu_was_active, vframe_info_buffer_gpu # << >>
      PROVE  Head(vframe_info_buffer_gpu).timestamp = Last(line).tick + Last(line).count
  <2>1. PICK n \in Nat : n = NextHanded
    BY <1>1
  <2>2. Ready(n, MaxCount)
    BY <2>1, <1>1, <1>4 DEF Served
  <2>3. Last(line).tick + Last(line).count = n
    BY <2>2, <1>1, ReadyLine
  <2> QED BY <2>1, <2>3, <1>4 DEF NextHanded
<1> QED BY <1>3, <1>4

LEMMA StampsServed == ServedInv => GpuStampsClose
<1> SUFFICES ASSUME ServedInv PROVE GpuStampsClose
  OBVIOUS
<1>1. GpuInv
  BY DEF ServedInv
<1>2. PICK next \in Nat : Ready(next, MaxCount)
  BY DEF ServedInv, Served
<1> QED BY <1>1, <1>2, ReadyStamps DEF GpuStampsClose

LEMMA TypesServed == ServedInv /\ CacheTypeOK => TypeOK
<1> SUFFICES ASSUME ServedInv, CacheTypeOK PROVE TypeOK
  OBVIOUS
<1>1. GpuTypeOK
  BY InvTypes DEF ServedInv
<1> QED BY <1>1 DEF ServedInv, MixInv, TurnInv, Buffered, Staged, TypeOK

(* Type correctness of cache, texture queue and graphics thread: among it   *)
(* that the thread pops no texture from an empty queue.                     *)
THEOREM MixTypeCorrect ==
  ASSUME Overlap = FALSE
  PROVE  Spec => []TypeOK
  BY MixServed, MixUsesCache, CacheTypeCorrect, TypesServed, PTL DEF UsesCache

(* While the queue exists, no texture is lost or in two places, through the *)
(* swaps, copies and repeats of queue_frame() and returns to the front.     *)
THEOREM TexturesKept ==
  ASSUME Overlap = FALSE
  PROVE  Spec => []TexturesOnce
<1>1. ServedInv => TexturesOnce
  BY InvTextures DEF ServedInv
<1> QED BY <1>1, MixServed, PTL

(* Who acquires a texture waits for the key it was last released with:      *)
(* graphics thread and encoders hand the keyed mutex on without a gap.      *)
THEOREM KeysMatch ==
  ASSUME Overlap = FALSE
  PROVE  Spec => []KeysHandedOver
<1>1. ServedInv => KeysHandedOver
  BY InvKeys DEF ServedInv
<1> QED BY <1>1, MixServed, PTL

(* gpu_encode_semaphore stands for the ticks queued, less those held back   *)
(* at the start: no wake finds the queue empty, and no tick lacks its wake. *)
THEOREM SemaphoreCorrect ==
  ASSUME Overlap = FALSE
  PROVE  Spec => []SemaphoreMatches
<1>1. ServedInv => SemaphoreMatches
  BY DEF ServedInv, GpuInv
<1> QED BY <1>1, MixServed, PTL

(* Texture encoders get every tick once and in order: from the last tick    *)
(* encoded over the queue to the next frame of the graphics thread there    *)
(* is no gap and no overlap.                                                *)
THEOREM EveryTickOnce ==
  ASSUME Overlap = FALSE
  PROVE  Spec => []TicksInOrder
  BY LineServed, MixServed, PTL

(* A texture carries a stamp less than one frame of ticks before its tick.  *)
THEOREM GpuStampsCorrect ==
  ASSUME Overlap = FALSE
  PROVE  Spec => []GpuStampsClose
  BY StampsServed, MixServed, PTL

-----------------------------------------------------------------------------
(* Stopped encoders, whatever starts and stops overlap                      *)

Stopped == [Encoders -> {"no", "wait", "last", "join", "free"}]

(* The thread has encoders only between the reset of the event and its      *)
(* signal, and each of them is still listed, or its stop is waiting for     *)
(* that signal.                                                             *)
CallsListed ==
  /\ encoders # << >> => gpu_thread \in {"encode", "blocked"}
  /\ gpu_thread \in {"pop", "encode", "blocked"} => ~gpu_inactive
  /\ \A e \in Frames(encoders) :
       e \in Frames(gpu_encoders) \/ stopping[e] \in {"wait", "last"} \/ e \in failed

(* A thread that no encoder needs any more is being stopped, so a start     *)
(* that makes a new one finds none.                                         *)
ThreadNeeded ==
  gpu_thread \in {"none", "blocked"} \/ gpu_encoders # << >>
    \/ \E e \in Encoders : stopping[e] \in {"last", "join"}

StopInv ==
  /\ encoders \in Seq(Encoders) /\ gpu_encoders \in Seq(Encoders) /\ Once(gpu_encoders)
  /\ stopping \in Stopped
  /\ CallsListed /\ ThreadNeeded

LEMMA StopRests ==
  ASSUME StopInv,
         UNCHANGED <<encoders, gpu_encoders, stopping, gpu_thread, gpu_inactive, failed>>
  PROVE  StopInv'
BY DEF StopInv, CallsListed, ThreadNeeded, Frames, Once

LEMMA StopInit == Init => StopInv
BY DEF Init, GpuInit, StopInv, CallsListed, ThreadNeeded, Frames, Once, Stopped

LEMMA StopBegins ==
  ASSUME gpu_encoders \in Seq(Encoders), Once(gpu_encoders), stopping \in Stopped,
         NEW e \in Encoders, BeginStop(e)
  PROVE  /\ gpu_encoders' \in Seq(Encoders) /\ Once(gpu_encoders)' /\ stopping' \in Stopped
         /\ stopping'[e] = IF gpu_encoders' = << >> THEN "last" ELSE "wait"
         /\ \A x \in Encoders : x # e => stopping'[x] = stopping[x]
         /\ Frames(gpu_encoders)' = Frames(gpu_encoders) \ {e}
<1>1. DOMAIN gpu_encoders = 1 .. Len(gpu_encoders)
  BY LenProperties
<1>2. PICK i \in 1 .. Len(gpu_encoders) :
        /\ gpu_encoders[i] = e
        /\ gpu_encoders' = SubSeq(gpu_encoders, 1, i - 1)
                             \o SubSeq(gpu_encoders, i + 1, Len(gpu_encoders))
        /\ stopping' = [stopping EXCEPT ![e] = IF gpu_encoders' = << >> THEN "last" ELSE "wait"]
  BY <1>1 DEF BeginStop
<1>3. /\ gpu_encoders' \in Seq(Encoders) /\ Once(gpu_encoders')
      /\ Frames(gpu_encoders') = Frames(gpu_encoders) \ {e}
  BY <1>2, ListErase
<1>4. Once(gpu_encoders)' /\ Frames(gpu_encoders)' = Frames(gpu_encoders')
  BY <1>3 DEF Once, Frames
<1> QED BY <1>2, <1>3, <1>4 DEF Stopped

(* The thread *)
LEMMA StopThread == StopInv /\ GpuThread => StopInv'
<1> SUFFICES ASSUME StopInv, GpuThread PROVE StopInv'
  OBVIOUS
<1>1. CASE GpuWake
  <2>1. /\ gpu_thread = "wait" /\ gpu_thread' = "woken"
        /\ UNCHANGED <<encoders, gpu_encoders, stopping, gpu_inactive, failed>>
    BY <1>1 DEF GpuWake, threadVars, userVars, encoderVars
  <2> QED BY <2>1 DEF StopInv, CallsListed, ThreadNeeded, Frames, Once
<1>2. CASE GpuLook
  <2>1. /\ gpu_thread = "woken" /\ gpu_thread' \in {"left", "wait", "reset"}
        /\ UNCHANGED <<encoders, gpu_encoders, stopping, gpu_inactive, failed>>
    BY <1>2 DEF GpuLook, threadVars, userVars, encoderVars, syncVars
  <2> QED BY <2>1 DEF StopInv, CallsListed, ThreadNeeded, Frames, Once
<1>3. CASE GpuBusy
  <2>1. /\ gpu_thread = "reset" /\ gpu_thread' = "pop" /\ gpu_inactive' = FALSE
        /\ UNCHANGED <<encoders, gpu_encoders, stopping, failed>>
    BY <1>3 DEF GpuBusy, threadVars, userVars, encoderVars
  <2> QED BY <2>1 DEF StopInv, CallsListed, ThreadNeeded, Frames, Once
<1>4. CASE PopTexture
  <2>1. /\ gpu_thread = "pop" /\ gpu_thread' = "encode" /\ encoders' = gpu_encoders
        /\ UNCHANGED <<gpu_encoders, stopping, gpu_inactive, failed>>
    BY <1>4 DEF PopTexture, syncVars, userVars, encoderVars
  <2> QED BY <2>1 DEF StopInv, CallsListed, ThreadNeeded, Frames, Once
<1>5. CASE PassOver \/ Encode
  <2>1. /\ gpu_thread = "encode" /\ gpu_thread' = gpu_thread
        /\ encoders # << >> /\ encoders' = Tail(encoders)
        /\ UNCHANGED <<gpu_encoders, stopping, gpu_inactive, failed>>
    BY <1>5 DEF PassOver, Encode, syncVars, userVars
  <2>2. encoders' \in Seq(Encoders) /\ Frames(encoders') \subseteq Frames(encoders)
    BY <2>1, ListTail DEF StopInv
  <2>3. Frames(encoders)' = Frames(encoders') /\ Frames(gpu_encoders)' = Frames(gpu_encoders)
    BY <2>1 DEF Frames
  <2>4. CallsListed'
    BY <2>1, <2>2, <2>3 DEF StopInv, CallsListed
  <2> QED BY <2>1, <2>2, <2>4 DEF StopInv, ThreadNeeded, Once
<1>6. CASE EncodeFails
  <2> DEFINE e == Head(encoders)
  <2>1. /\ gpu_thread = "encode" /\ gpu_thread' = "blocked" /\ BeginStop(e)
        /\ encoders # << >> /\ failed' = failed \cup {e}
        /\ UNCHANGED <<encoders, gpu_inactive>>
    BY <1>6 DEF EncodeFails, syncVars
  <2>2. e \in Encoders
    BY <2>1, ListTail DEF StopInv
  <2> HIDE DEF e
  <2>3. /\ gpu_encoders' \in Seq(Encoders) /\ Once(gpu_encoders)' /\ stopping' \in Stopped
        /\ stopping'[e] \in {"wait", "last"}
        /\ \A x \in Encoders : x # e => stopping'[x] = stopping[x]
        /\ Frames(gpu_encoders)' = Frames(gpu_encoders) \ {e}
    BY <2>1, <2>2, StopBegins DEF StopInv
  <2>4. Frames(encoders)' = Frames(encoders) /\ Frames(encoders) \subseteq Encoders
    BY <2>1, ListOf DEF StopInv, Frames
  <2>5. CallsListed'
    BY <2>1, <2>3, <2>4 DEF StopInv, CallsListed
  <2> QED BY <2>1, <2>3, <2>5 DEF StopInv, ThreadNeeded
<1>7. CASE EndTexture
  <2>1. /\ encoders = << >> /\ gpu_thread = "encode" /\ gpu_thread' = "wait" /\ gpu_inactive' = TRUE
        /\ UNCHANGED <<encoders, gpu_encoders, stopping, failed>>
    BY <1>7 DEF EndTexture, userVars, encoderVars
  <2> QED BY <2>1 DEF StopInv, CallsListed, ThreadNeeded, Frames, Once
<1> QED BY <1>1, <1>2, <1>3, <1>4, <1>5, <1>6, <1>7 DEF GpuThread

(* Starts and stops *)
LEMMA StopUsers ==
  ASSUME StopInv, NEW e \in Encoders, StartGpuEncode(e) \/ StopGpuEncode(e) \/ StopSteps(e)
  PROVE  StopInv'
<1>1. CASE StartGpuEncode(e)
  <2>1. /\ e \notin Frames(gpu_encoders) /\ gpu_thread # "blocked"
        /\ gpu_encoders' = Append(gpu_encoders, e)
        /\ UNCHANGED <<encoders, stopping, failed>>
    BY <1>1 DEF StartGpuEncode, threadVars, Frames
  <2>2. \A x \in Encoders : stopping[x] \in {"no", "wait", "free"}
    BY <1>1 DEF StartGpuEncode, Quiet
  <2>3. /\ gpu_encoders' \in Seq(Encoders) /\ gpu_encoders' # << >> /\ Once(gpu_encoders')
        /\ Frames(gpu_encoders') = Frames(gpu_encoders) \cup {e}
    BY <2>1, ListAppend DEF StopInv
  <2>4. /\ Once(gpu_encoders)' /\ Frames(encoders)' = Frames(encoders)
        /\ Frames(gpu_encoders)' = Frames(gpu_encoders) \cup {e}
    BY <2>1, <2>3 DEF Once, Frames
  <2>5. CASE gpu_encoders = << >>
    <3>1. gpu_thread' = "wait" /\ gpu_inactive' = TRUE
      BY <1>1, <2>5 DEF StartGpuEncode, Create
    <3>2. encoders = << >>
      BY <2>1, <2>2, <2>5 DEF StopInv, CallsListed, ThreadNeeded
    <3>3. CallsListed'
      BY <3>1, <3>2, <2>1 DEF CallsListed, Frames
    <3> QED BY <3>3, <2>1, <2>3, <2>4 DEF StopInv, ThreadNeeded
  <2>6. CASE gpu_encoders # << >>
    <3>1. UNCHANGED <<gpu_thread, gpu_inactive>>
      BY <1>1, <2>6 DEF StartGpuEncode, syncVars
    <3>2. CallsListed'
      BY <3>1, <2>1, <2>4 DEF StopInv, CallsListed
    <3> QED BY <3>2, <2>1, <2>3, <2>4 DEF StopInv, ThreadNeeded
  <2> QED BY <2>5, <2>6
<1>2. CASE StopGpuEncode(e)
  <2>1. BeginStop(e) /\ UNCHANGED <<encoders, gpu_thread, gpu_inactive, failed>>
    BY <1>2 DEF StopGpuEncode, threadVars, syncVars, encoderVars
  <2>2. /\ gpu_encoders' \in Seq(Encoders) /\ Once(gpu_encoders)' /\ stopping' \in Stopped
        /\ stopping'[e] = IF gpu_encoders' = << >> THEN "last" ELSE "wait"
        /\ \A x \in Encoders : x # e => stopping'[x] = stopping[x]
        /\ Frames(gpu_encoders)' = Frames(gpu_encoders) \ {e}
    BY <2>1, StopBegins DEF StopInv
  <2>3. Frames(encoders)' = Frames(encoders) /\ Frames(encoders) \subseteq Encoders
    BY <2>1, ListOf DEF StopInv, Frames
  <2>4. CallsListed'
    BY <2>1, <2>2, <2>3 DEF StopInv, CallsListed
  <2>5. ThreadNeeded'
    BY <2>2 DEF ThreadNeeded
  <2> QED BY <2>1, <2>2, <2>4, <2>5 DEF StopInv
<1>3. CASE StopWaited(e)
  <2>1. /\ gpu_inactive /\ UNCHANGED <<encoders, gpu_encoders, gpu_thread, gpu_inactive, failed>>
        /\ \/ stopping[e] = "wait" /\ stopping' = [stopping EXCEPT ![e] = "no"]
           \/ stopping[e] = "last" /\ stopping' = [stopping EXCEPT ![e] = "join"]
    BY <1>3 DEF StopWaited, threadVars, encoderVars
  <2>2. /\ stopping' \in Stopped /\ encoders = << >>
        /\ \A x \in Encoders : stopping[x] \in {"last", "join"} => stopping'[x] \in {"last", "join"}
    BY <2>1 DEF StopInv, CallsListed, Stopped
  <2>3. CallsListed'
    BY <2>1, <2>2 DEF StopInv, CallsListed, Frames
  <2> QED BY <2>1, <2>2, <2>3 DEF StopInv, ThreadNeeded, Once
<1>4. CASE StopJoined(e)
  <2>1. /\ gpu_thread = "left" /\ gpu_thread' = "none"
        /\ stopping' = [stopping EXCEPT ![e] = "free"]
        /\ UNCHANGED <<encoders, gpu_encoders, gpu_inactive, failed>>
    BY <1>4 DEF StopJoined, threadVars, encoderVars, syncVars
  <2>2. stopping' \in Stopped /\ encoders = << >>
    BY <2>1 DEF StopInv, CallsListed, Stopped
  <2>3. CallsListed' /\ ThreadNeeded'
    BY <2>1, <2>2 DEF CallsListed, ThreadNeeded, Frames
  <2> QED BY <2>1, <2>2, <2>3 DEF StopInv, Once
<1>5. CASE StopFreed(e)
  <2>1. /\ stopping[e] = "free" /\ stopping' = [stopping EXCEPT ![e] = "no"]
        /\ UNCHANGED <<encoders, gpu_encoders, gpu_thread, gpu_inactive, failed>>
    BY <1>5 DEF StopFreed, threadVars, encoderVars
  <2>2. /\ stopping' \in Stopped
        /\ \A x \in Encoders : stopping[x] \in {"wait", "last", "join"} => stopping'[x] = stopping[x]
    BY <2>1 DEF StopInv, Stopped
  <2>3. Frames(encoders)' = Frames(encoders) /\ Frames(gpu_encoders)' = Frames(gpu_encoders)
        /\ Frames(encoders) \subseteq Encoders
    BY <2>1, ListOf DEF StopInv, Frames
  <2>4. CallsListed'
    BY <2>1, <2>2, <2>3 DEF StopInv, CallsListed
  <2>5. ThreadNeeded'
    BY <2>1, <2>2 DEF StopInv, ThreadNeeded
  <2> QED BY <2>1, <2>2, <2>4, <2>5 DEF StopInv, Once
<1> QED BY <1>1, <1>2, <1>3, <1>4, <1>5 DEF StopSteps

LEMMA StopStep == StopInv /\ [Next]_vars => StopInv'
<1> SUFFICES ASSUME StopInv, [Next]_vars PROVE StopInv'
  OBVIOUS
<1>1. ASSUME UNCHANGED gpuVars PROVE StopInv'
  BY <1>1, StopRests DEF gpuVars, threadVars, userVars, encoderVars, syncVars
<1>2. CASE GraphicsThread
  <2>1. CASE Render
    <3>1. UNCHANGED gpuVars \/ \E info, raw : EncodeGpu(info, raw)
      BY <2>1 DEF Render
    <3>2. ASSUME NEW info, NEW raw, EncodeGpu(info, raw) PROVE StopInv'
      BY <3>2, StopRests DEF EncodeGpu, threadVars, userVars, encoderVars
    <3> QED BY <3>1, <3>2, <1>1
  <2>2. CASE ~Render
    BY <1>1, <1>2, <2>2 DEF GraphicsThread, UpdateActiveState, Output, NoOutput, Unlock, Sleep
  <2> QED BY <2>1, <2>2
<1>3. CASE CacheThread
  BY <1>1, <1>3 DEF CacheThread
<1>4. CASE GpuThreadStep
  BY <1>4, StopThread DEF GpuThreadStep, GpuThread
<1>5. CASE UserSteps
  <2>1. \/ UNCHANGED gpuVars
        \/ \E e \in Encoders : StartGpuEncode(e) \/ StopGpuEncode(e) \/ StopSteps(e)
    BY <1>5 DEF UserSteps
  <2> QED BY <2>1, <1>1, StopUsers
<1>6. CASE UNCHANGED vars
  BY <1>1, <1>6 DEF vars
<1> QED BY <1>2, <1>3, <1>4, <1>5, <1>6 DEF Next

(* When stop_gpu_encode() has returned, the thread does not call that       *)
(* encoder any more, also when starts and stops of others overlap with it   *)
(* and whatever encoders fail, Overlap or not: os_event_wait() is           *)
(* enough for that, although it is not for the queue (QueueExists).         *)
THEOREM StoppedCorrect == Spec => []StoppedIdle
<1>1. StopInv => StoppedIdle
  BY DEF StopInv, CallsListed, StoppedIdle
<1> QED BY <1>1, StopInit, StopStep, PTL DEF Spec
=============================================================================
