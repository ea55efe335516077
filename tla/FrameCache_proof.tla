-------------------------- MODULE FrameCache_proof --------------------------
(***************************************************************************)
(* Proofs about FrameCache: for every size of the cache, set of inputs and *)
(* lateness of either thread.                                              *)
(***************************************************************************)
EXTENDS FrameCache, Sums_proof, FiniteSetTheorems

Inv == CacheTypeOK /\ RingSound

-----------------------------------------------------------------------------
(* The order of the slots round the ring *)

(* Slots are counted from the oldest frame on, each once. *)
LEMMA Distance ==
  ASSUME first_added \in Slots
  PROVE  /\ Behind(first_added) = 0
         /\ \A s \in Slots : Behind(s) \in 0 .. CacheSize - 1
         /\ \A s, t \in Slots : Behind(s) = Behind(t) => s = t
  BY CacheAssumption DEF Behind, Slots

(* After() is one slot further. *)
LEMMA Further ==
  ASSUME first_added \in Slots, NEW s \in Slots
  PROVE  /\ After(s) \in Slots
         /\ Behind(s) < CacheSize - 1 => Behind(After(s)) = Behind(s) + 1
  BY CacheAssumption DEF Behind, Slots, After

(* When the oldest slot is freed it becomes the last one, and the others    *)
(* are one nearer.                                                          *)
LEMMA Nearer ==
  ASSUME first_added \in Slots, first_added' = After(first_added), NEW s \in Slots
  PROVE  Behind(s)' = IF s = first_added THEN CacheSize - 1 ELSE Behind(s) - 1
  BY CacheAssumption DEF Behind, Slots, After

(* A step that leaves first_added alone leaves the distances alone. *)
LEMMA SameDistance ==
  ASSUME first_added' = first_added, NEW s \in Slots
  PROVE  Behind(s)' = Behind(s)
  BY DEF Behind

-----------------------------------------------------------------------------
LEMMA InitInv == CacheInit => Inv
<1> SUFFICES ASSUME CacheInit PROVE Inv
  OBVIOUS
<1>1. CacheTypeOK
  <2>1. 0 \in Slots /\ CacheSize \in 0 .. CacheSize
    BY CacheAssumption DEF Slots
  <2>2. [timestamp |-> 0, count |-> 0, skipped |-> 0] \in [timestamp : Nat, count : Nat, skipped : Nat]
    OBVIOUS
  <2>3. cache \in [Slots -> [timestamp : Nat, count : Nat, skipped : Nat]]
    BY <2>2 DEF CacheInit
  <2> QED BY <2>1, <2>3 DEF CacheInit, CacheTypeOK
<1>2. Held = 0 /\ Used = 0 /\ ~Busy
  BY CacheAssumption DEF CacheInit, Held, Used, Busy
<1>3. \A s \in Slots : ~InUse(s)
  BY <1>1, <1>2, Distance DEF InUse, CacheTypeOK
<1>4. LastIsNewest /\ Held <= CacheSize
  BY <1>2, CacheAssumption DEF CacheInit, LastIsNewest
<1>5. FramesOrdered
  BY <1>3 DEF FramesOrdered
<1>6. ShownFirst
  BY <1>3 DEF ShownFirst, CacheInit
<1>7. SemaphoreCounts
  BY <1>2 DEF SemaphoreCounts, CacheInit
<1> QED BY <1>1, <1>4, <1>5, <1>6, <1>7 DEF Inv, RingSound

-----------------------------------------------------------------------------
(* The steps of the graphics thread *)

LEMMA OverflowInv ==
  ASSUME Inv, NEW ts \in stamped .. MaxTick, NEW n \in 1 .. MaxCount,
         LockFrame(ts, n), Overflow(n)
  PROVE  Inv'
<1> USE CacheAssumption
<1>1. CacheTypeOK
  BY DEF Inv
<1>2. /\ UNCHANGED <<available_frames, first_added, last_added, locked, update_semaphore, thread,
                     stop, shown>>
      /\ ~locked /\ available_frames = 0 /\ stamped' = ts + n
  BY DEF LockFrame, Overflow
<1>3. /\ n \in Nat /\ n > 0 /\ ts \in Nat /\ ts >= stamped /\ stamped \in Nat
      /\ last_added \in Slots /\ first_added \in Slots
  BY <1>1 DEF CacheTypeOK
<1>4. /\ cache \in [Slots -> [timestamp : Nat, count : Nat, skipped : Nat]]
      /\ cache' = [cache EXCEPT ![last_added].count = @ + n, ![last_added].skipped = @ + n]
  BY <1>1 DEF CacheTypeOK, Overflow
<1>5. /\ cache' \in [Slots -> [timestamp : Nat, count : Nat, skipped : Nat]]
      /\ \A s \in Slots :
           /\ cache'[s].timestamp = cache[s].timestamp
           /\ cache'[s].count = cache[s].count + (IF s = last_added THEN n ELSE 0)
           /\ cache'[s].skipped = cache[s].skipped + (IF s = last_added THEN n ELSE 0)
  BY <1>3, <1>4
<1>6. CacheTypeOK'
  BY <1>1, <1>2, <1>3, <1>5 DEF CacheTypeOK
<1>7. Held = CacheSize /\ Held' = Held /\ Used' = Used /\ Busy' = Busy
  BY <1>1, <1>2 DEF Held, Used, Busy, CacheTypeOK
<1>8. \A s \in Slots : Behind(s)' = Behind(s) /\ (InUse(s)' <=> InUse(s))
  BY <1>2, <1>7, SameDistance DEF InUse
<1>9. InUse(last_added) /\ \A s \in Slots : InUse(s) => Behind(s) <= Behind(last_added)
  BY <1>3, <1>7, Distance DEF Inv, RingSound, LastIsNewest, InUse
<1>10. LastIsNewest' /\ SemaphoreCounts' /\ Held' <= CacheSize
  BY <1>2, <1>3, <1>7, <1>8 DEF Inv, RingSound, LastIsNewest, SemaphoreCounts
<1>11. \A s \in Slots : End(s)' = End(s) + (IF s = last_added THEN n ELSE 0)
  BY <1>3, <1>4, <1>5 DEF End
<1>12. \A s \in Slots : End(s) \in Nat /\ Behind(s) \in Int
  BY <1>3, <1>4, Distance DEF End
<1>13. FramesOrdered'
  <2>1. \A s \in Slots : InUse(s)' => cache'[s].skipped < cache'[s].count /\ End(s)' <= stamped'
    BY <1>2, <1>3, <1>4, <1>5, <1>8, <1>11, <1>12 DEF Inv, RingSound, FramesOrdered
  <2>2. \A s, t \in Slots : InUse(s)' /\ InUse(t)' /\ Behind(s)' < Behind(t)'
                              => End(s)' <= cache'[t].timestamp
    BY <1>3, <1>5, <1>8, <1>9, <1>11, <1>12 DEF Inv, RingSound, FramesOrdered
  <2> QED BY <2>1, <2>2 DEF FramesOrdered
<1>14. ShownFirst'
  BY <1>1, <1>2, <1>3, <1>5, <1>8 DEF Inv, RingSound, ShownFirst, CacheTypeOK
<1> QED BY <1>6, <1>10, <1>13, <1>14 DEF Inv, RingSound

LEMMA TakeSlotInv ==
  ASSUME Inv, NEW ts \in stamped .. MaxTick, NEW n \in 1 .. MaxCount,
         LockFrame(ts, n), TakeSlot(ts, n)
  PROVE  /\ Inv'
         /\ NextSlot \in Slots /\ ~InUse(NextSlot)
         /\ \A s \in Slots : InUse(s)' <=> InUse(s) \/ s = NextSlot
<1> USE CacheAssumption
<1>1. CacheTypeOK
  BY DEF Inv
<1>2. /\ UNCHANGED <<available_frames, first_added, update_semaphore, thread, stop, shown>>
      /\ ~locked /\ locked' /\ available_frames > 0 /\ stamped' = ts + n
      /\ locked' \in BOOLEAN /\ last_added' = NextSlot
  BY DEF LockFrame, TakeSlot
<1>3. /\ n \in Nat /\ n > 0 /\ ts \in Nat /\ ts >= stamped /\ stamped \in Nat
      /\ last_added \in Slots /\ first_added \in Slots /\ available_frames \in 0 .. CacheSize
  BY <1>1 DEF CacheTypeOK
<1>4. Held = Used /\ Held' = Held + 1 /\ Used' = Used /\ Busy' = Busy /\ Used \in 0 .. CacheSize - 1
  BY <1>2, <1>3 DEF Held, Used, Busy
<1>5. NextSlot \in Slots /\ Behind(NextSlot) = Held
  <2>1. CASE Held = 0
    BY <2>1, <1>3, <1>4, Distance DEF NextSlot, Used, Inv, RingSound, LastIsNewest
  <2>2. CASE Held # 0
    <3>1. NextSlot = After(last_added)
      BY <2>2, <1>4 DEF NextSlot, Used
    <3>2. Behind(last_added) = Held - 1
      BY <2>2 DEF Inv, RingSound, LastIsNewest
    <3> QED BY <3>1, <3>2, <1>3, <1>4, Further
  <2> QED BY <2>1, <2>2
<1>6. ~InUse(NextSlot)
  BY <1>4, <1>5 DEF InUse
<1>7. \A s \in Slots : Behind(s) \in Int /\ Behind(s)' = Behind(s)
  BY <1>2, <1>3, Distance, SameDistance
<1>8. \A s \in Slots : InUse(s)' <=> InUse(s) \/ s = NextSlot
  <2> SUFFICES ASSUME NEW s \in Slots PROVE InUse(s)' <=> InUse(s) \/ s = NextSlot
    OBVIOUS
  <2>1. s = NextSlot <=> Behind(s) = Held
    BY <1>3, <1>5, Distance
  <2> QED BY <2>1, <1>4, <1>7 DEF InUse
<1>9. /\ cache \in [Slots -> [timestamp : Nat, count : Nat, skipped : Nat]]
      /\ cache' = [cache EXCEPT ![NextSlot] = [timestamp |-> ts, count |-> n, skipped |-> 0]]
  BY <1>1 DEF CacheTypeOK, TakeSlot
<1>10. /\ cache' \in [Slots -> [timestamp : Nat, count : Nat, skipped : Nat]]
       /\ cache'[NextSlot] = [timestamp |-> ts, count |-> n, skipped |-> 0]
       /\ \A s \in Slots : s # NextSlot => cache'[s] = cache[s]
  BY <1>3, <1>5, <1>9
<1>11. CacheTypeOK'
  BY <1>1, <1>2, <1>3, <1>5, <1>10 DEF CacheTypeOK
<1>12. LastIsNewest' /\ SemaphoreCounts' /\ Held' <= CacheSize
  <2>1. LastIsNewest'
    BY <1>2, <1>4, <1>5, <1>7 DEF LastIsNewest
  <2>2. SemaphoreCounts'
    BY <1>2, <1>4 DEF Inv, RingSound, SemaphoreCounts
  <2> QED BY <2>1, <2>2, <1>4
<1>13. \A s \in Slots : End(s)' = IF s = NextSlot THEN ts + n ELSE End(s)
  BY <1>10 DEF End
<1>14. \A s \in Slots : End(s) \in Nat
  BY <1>9 DEF End
<1>15. FramesOrdered'
  <2>1. \A s \in Slots : InUse(s)' => cache'[s].skipped < cache'[s].count /\ End(s)' <= stamped'
    <3> SUFFICES ASSUME NEW s \in Slots, InUse(s)'
                 PROVE  cache'[s].skipped < cache'[s].count /\ End(s)' <= stamped'
      OBVIOUS
    <3>1. CASE s = NextSlot
      BY <3>1, <1>2, <1>3, <1>10, <1>13
    <3>2. CASE s # NextSlot
      <4>1. cache[s].skipped < cache[s].count /\ End(s) <= stamped
        BY <3>2, <1>8 DEF Inv, RingSound, FramesOrdered
      <4> QED BY <4>1, <3>2, <1>2, <1>3, <1>10, <1>13, <1>14
    <3> QED BY <3>1, <3>2
  <2>2. \A s, t \in Slots : InUse(s)' /\ InUse(t)' /\ Behind(s)' < Behind(t)'
                              => End(s)' <= cache'[t].timestamp
    <3> SUFFICES ASSUME NEW s \in Slots, NEW t \in Slots,
                        InUse(s)', InUse(t)', Behind(s)' < Behind(t)'
                 PROVE  End(s)' <= cache'[t].timestamp
      OBVIOUS
    <3>1. s # NextSlot
      <4>1. Behind(t) <= Held
        BY <1>4, <1>7 DEF InUse
      <4> QED BY <4>1, <1>4, <1>5, <1>7
    <3>2. InUse(s) /\ End(s)' = End(s) /\ End(s) <= stamped
      BY <3>1, <1>8, <1>13 DEF Inv, RingSound, FramesOrdered
    <3>3. CASE t = NextSlot
      BY <3>2, <3>3, <1>3, <1>10, <1>14
    <3>4. CASE t # NextSlot
      BY <3>2, <3>4, <1>7, <1>8, <1>10 DEF Inv, RingSound, FramesOrdered
    <3> QED BY <3>3, <3>4
  <2> QED BY <2>1, <2>2 DEF FramesOrdered
<1>16. ShownFirst'
  <2>1. shown' < stamped'
    BY <1>1, <1>2, <1>3 DEF Inv, RingSound, ShownFirst, CacheTypeOK
  <2>2. thread = "shown" => first_added # NextSlot
    <3>1. thread = "shown" => Used > 0
      BY DEF Inv, RingSound, SemaphoreCounts, Busy
    <3> QED BY <3>1, <1>3, <1>4, <1>5, Distance
  <2>3. thread' = "shown" => cache'[first_added'].timestamp = shown'
    BY <2>2, <1>2, <1>3, <1>10 DEF Inv, RingSound, ShownFirst
  <2>4. \A s \in Slots : InUse(s)' => cache'[s].timestamp > shown' \/ (thread' = "shown" /\ s = first_added')
    <3>1. cache'[NextSlot].timestamp > shown'
      BY <1>1, <1>2, <1>3, <1>10 DEF Inv, RingSound, ShownFirst, CacheTypeOK
    <3> QED BY <3>1, <1>2, <1>8, <1>10 DEF Inv, RingSound, ShownFirst
  <2> QED BY <2>1, <2>3, <2>4 DEF ShownFirst
<1> QED BY <1>5, <1>6, <1>8, <1>11, <1>12, <1>15, <1>16 DEF Inv, RingSound

LEMMA UnlockInv == Inv /\ UnlockFrame => Inv'
<1> SUFFICES ASSUME Inv, UnlockFrame PROVE Inv'
  OBVIOUS
<1> USE CacheAssumption
<1>1. /\ UNCHANGED <<cache, first_added, last_added, thread, stop, stamped, shown>>
      /\ locked /\ locked' = FALSE /\ available_frames' = available_frames - 1
      /\ update_semaphore' = update_semaphore + 1
  BY DEF UnlockFrame
<1>2. available_frames \in 0 .. CacheSize /\ update_semaphore \in Nat
  BY DEF Inv, CacheTypeOK
<1>3. Held' = Held /\ Used' = Used + 1 /\ Used' \in 0 .. CacheSize /\ Busy' = Busy
  BY <1>1, <1>2 DEF Inv, RingSound, Held, Used, Busy
<1>4. CacheTypeOK'
  <2>1. available_frames' \in 0 .. CacheSize /\ locked' \in BOOLEAN /\ update_semaphore' \in Nat
    <3>1. available_frames' \in 0 .. CacheSize /\ update_semaphore' \in Nat
      BY <1>1, <1>2, <1>3 DEF Used
    <3>2. locked' \in BOOLEAN
      BY <1>1
    <3> QED BY <3>1, <3>2
  <2> QED BY <2>1, <1>1 DEF Inv, CacheTypeOK
<1>5. \A s \in Slots : Behind(s)' = Behind(s) /\ (InUse(s)' <=> InUse(s)) /\ End(s)' = End(s)
  BY <1>1, <1>3, SameDistance DEF InUse, End
<1>6. LastIsNewest' /\ Held' <= CacheSize
  BY <1>1, <1>3, <1>5 DEF Inv, RingSound, LastIsNewest, CacheTypeOK
<1>7. FramesOrdered' /\ ShownFirst'
  BY <1>1, <1>5 DEF Inv, RingSound, FramesOrdered, ShownFirst
<1>8. SemaphoreCounts'
  BY <1>1, <1>2, <1>3 DEF Inv, RingSound, SemaphoreCounts, Used
<1> QED BY <1>4, <1>6, <1>7, <1>8 DEF Inv, RingSound

-----------------------------------------------------------------------------
(* The steps of the video thread *)

LEMMA ThreadInv == Inv /\ (Wake \/ LeaveFrame) => Inv'
<1> SUFFICES ASSUME Inv, Wake \/ LeaveFrame PROVE Inv'
  OBVIOUS
<1> USE CacheAssumption
<1>1. UNCHANGED <<ring, stop, stamped, shown>> /\ thread # "shown" /\ thread' # "shown"
  BY DEF Wake, LeaveFrame
<1>2. update_semaphore \in Nat
  BY DEF Inv, CacheTypeOK
<1>3. update_semaphore' \in Nat /\ thread' \in {"wait", "frame", "shown", "ended"}
  BY <1>2 DEF Wake, LeaveFrame
<1>4. CacheTypeOK'
  BY <1>1, <1>3 DEF Inv, CacheTypeOK, ring
<1>5. Held' = Held /\ Used' = Used
  BY <1>1 DEF Held, Used, ring
<1>6. \A s \in Slots : Behind(s)' = Behind(s) /\ (InUse(s)' <=> InUse(s)) /\ End(s)' = End(s)
  BY <1>1, <1>5, SameDistance DEF InUse, End, ring
<1>7. LastIsNewest' /\ Held' <= CacheSize
  BY <1>1, <1>5, <1>6 DEF Inv, RingSound, LastIsNewest, CacheTypeOK, ring
<1>8. FramesOrdered'
  BY <1>1, <1>6 DEF Inv, RingSound, FramesOrdered, ring
<1>9. ShownFirst'
  BY <1>1, <1>6 DEF Inv, RingSound, ShownFirst, ring
<1>10. SemaphoreCounts'
  <2>1. CASE Wake
    BY <2>1, <1>2, <1>5 DEF Inv, RingSound, SemaphoreCounts, Wake, Busy
  <2>2. CASE LeaveFrame
    BY <2>2, <1>2, <1>5 DEF Inv, RingSound, SemaphoreCounts, LeaveFrame, Busy
  <2> QED BY <2>1, <2>2
<1> QED BY <1>4, <1>7, <1>8, <1>9, <1>10 DEF Inv, RingSound

(* The oldest slot is in use while the thread is at a frame. *)
LEMMA FirstInUse ==
  ASSUME Inv, Busy
  PROVE  /\ InUse(first_added) /\ first_added \in Slots
         /\ cache[first_added].count > cache[first_added].skipped
         /\ \A s \in Slots : InUse(s) /\ s # first_added => cache[s].timestamp >= End(first_added)
<1> USE CacheAssumption
<1>1. Used > 0 /\ Used \in Int /\ Held \in Int /\ Held >= Used /\ first_added \in Slots
  BY DEF Inv, RingSound, SemaphoreCounts, CacheTypeOK, Used, Held
<1>2. InUse(first_added)
  BY <1>1, Distance DEF InUse
<1>3. \A s \in Slots : s # first_added => Behind(first_added) < Behind(s)
  BY <1>1, Distance
<1>4. \A s \in Slots : cache[s].timestamp \in Nat /\ End(s) \in Nat /\ cache[s].count \in Nat
                                              /\ cache[s].skipped \in Nat
  BY DEF Inv, CacheTypeOK, End
<1> QED BY <1>1, <1>2, <1>3, <1>4 DEF Inv, RingSound, FramesOrdered

LEMMA ShowInv == Inv /\ ShowFrame => Inv'
<1> SUFFICES ASSUME Inv, ShowFrame PROVE Inv'
  OBVIOUS
<1> USE CacheAssumption
<1>1. /\ UNCHANGED <<cache, available_frames, first_added, last_added, locked, update_semaphore,
                     stop, stamped>>
      /\ thread = "frame" /\ thread' = "shown" /\ shown' = cache[first_added].timestamp
  BY DEF ShowFrame, ring
<1>2. Busy /\ Busy'
  BY <1>1 DEF Busy
<1>3. /\ first_added \in Slots /\ cache[first_added] \in [timestamp : Nat, count : Nat, skipped : Nat]
      /\ stamped \in Nat
  BY DEF Inv, CacheTypeOK
<1>4. CacheTypeOK'
  BY <1>1, <1>3 DEF Inv, CacheTypeOK
<1>5. Held' = Held /\ Used' = Used
  BY <1>1 DEF Held, Used
<1>6. \A s \in Slots : Behind(s)' = Behind(s) /\ (InUse(s)' <=> InUse(s)) /\ End(s)' = End(s)
  BY <1>1, <1>5, SameDistance DEF InUse, End
<1>7. LastIsNewest' /\ Held' <= CacheSize /\ FramesOrdered' /\ SemaphoreCounts'
  BY <1>1, <1>2, <1>5, <1>6
  DEF Inv, RingSound, LastIsNewest, FramesOrdered, SemaphoreCounts, CacheTypeOK
<1>8. ShownFirst'
  <2>1. InUse(first_added) /\ cache[first_added].count > 0 /\ End(first_added) <= stamped
    BY <1>2, <1>3, FirstInUse DEF Inv, RingSound, FramesOrdered
  <2>2. shown' < stamped' /\ shown' < End(first_added)
    BY <2>1, <1>1, <1>3 DEF End
  <2>3. \A s \in Slots : InUse(s) /\ s # first_added => cache[s].timestamp > shown'
    BY <2>2, <1>1, <1>2, <1>3, FirstInUse DEF Inv, CacheTypeOK, End
  <2> QED BY <2>2, <2>3, <1>1, <1>6 DEF ShownFirst
<1> QED BY <1>4, <1>7, <1>8 DEF Inv, RingSound

LEMMA FreeSlotInv ==
  ASSUME Inv, EndFrame, FreeSlot
  PROVE  Inv' /\ \A s \in Slots : InUse(s)' <=> InUse(s) /\ s # first_added
<1> USE CacheAssumption
<1>1. /\ UNCHANGED <<locked, update_semaphore, stop, stamped, shown>>
      /\ thread = "shown" /\ thread' = "wait" /\ first_added' = After(first_added)
      /\ available_frames' = available_frames + 1
      /\ last_added' = IF available_frames' = CacheSize THEN first_added' ELSE last_added
      /\ cache[first_added].count = 1
  BY DEF EndFrame, FreeSlot, Complete
<1>2. Busy /\ ~Busy'
  BY <1>1 DEF Busy
<1>3. /\ first_added \in Slots /\ last_added \in Slots /\ available_frames \in 0 .. CacheSize
      /\ locked \in BOOLEAN /\ update_semaphore \in Nat
  BY DEF Inv, CacheTypeOK
<1>4. /\ Used \in 1 .. CacheSize /\ Used' = Used - 1 /\ Held' = Held - 1
      /\ Held \in Used .. CacheSize /\ (Held = Used \/ (locked /\ Held = Used + 1))
  BY <1>1, <1>2, <1>3 DEF Inv, RingSound, SemaphoreCounts, Used, Held
<1>5. first_added' \in Slots /\ last_added' \in Slots
  BY <1>1, <1>3, Further
<1>6. \A s \in Slots : /\ Behind(s) \in 0 .. CacheSize - 1 /\ (Behind(s) = 0 <=> s = first_added)
                       /\ Behind(s)' = IF s = first_added THEN CacheSize - 1 ELSE Behind(s) - 1
  BY <1>1, <1>3, Distance, Nearer
<1>7. \A s \in Slots : InUse(s)' <=> InUse(s) /\ s # first_added
  BY <1>4, <1>6 DEF InUse
<1>8. \A s \in Slots : s # first_added => cache'[s] = cache[s]
  BY DEF FreeSlot, Inv, CacheTypeOK
<1>9. cache' \in [Slots -> [timestamp : Nat, count : Nat, skipped : Nat]]
  <2>1. /\ cache \in [Slots -> [timestamp : Nat, count : Nat, skipped : Nat]]
        /\ cache' = [cache EXCEPT ![first_added].timestamp = @ + 1, ![first_added].count = @ - 1]
    BY DEF FreeSlot, Inv, CacheTypeOK
  <2>2. cache[first_added].count - 1 = 0
    BY <1>1
  <2> QED BY <2>1, <2>2, <1>3
<1>10. CacheTypeOK'
  <2>1. available_frames' \in 0 .. CacheSize
    BY <1>1, <1>3, <1>4 DEF Used
  <2> QED BY <2>1, <1>1, <1>5, <1>9 DEF Inv, CacheTypeOK
<1>11. LastIsNewest' /\ Held' <= CacheSize
  <2>1. CASE Used' = 0
    <3>1. available_frames' = CacheSize
      BY <2>1, <1>1, <1>3 DEF Used
    <3>2. last_added' = first_added'
      BY <3>1, <1>1
    <3>3. Held' = 0 \/ Held' = 1
      BY <2>1, <1>4
    <3>4. Behind(last_added)' = IF last_added' >= first_added' THEN last_added' - first_added'
                                ELSE last_added' + CacheSize - first_added'
      BY DEF Behind
    <3>5. Behind(last_added)' = 0
      <4>1. \A f \in Int : f >= f /\ f - f = 0
        OBVIOUS
      <4>2. first_added' \in Int
        BY <1>5 DEF Slots
      <4> QED BY <3>2, <3>4, <4>1, <4>2
    <3> QED BY <3>2, <3>3, <3>5 DEF LastIsNewest
  <2>2. CASE Used' # 0
    <3>1. last_added' = last_added
      BY <2>2, <1>1, <1>3 DEF Used
    <3>2. Behind(last_added) = Held - 1 /\ Held >= 2
      BY <2>2, <1>4 DEF Inv, RingSound, LastIsNewest
    <3>3. last_added # first_added
      BY <3>2, <1>3, <1>4, <1>6
    <3>4. Behind(last_added)' = Behind(last_added) - 1
      <4>1. Behind(last_added)' = IF last_added' >= first_added' THEN last_added' - first_added'
                                  ELSE last_added' + CacheSize - first_added'
        BY DEF Behind
      <4>2. PICK l \in Slots : l = last_added
        BY <1>3
      <4>3. Behind(l)' = IF l >= first_added' THEN l - first_added' ELSE l + CacheSize - first_added'
        BY DEF Behind
      <4> QED BY <4>1, <4>2, <4>3, <3>1, <3>3, <1>6
    <3> QED BY <3>2, <3>4, <1>4 DEF LastIsNewest
  <2> QED BY <2>1, <2>2
<1>12. \A s \in Slots : s # first_added => End(s)' = End(s)
  BY <1>8 DEF End
<1>13. FramesOrdered'
  BY <1>1, <1>6, <1>7, <1>8, <1>12 DEF Inv, RingSound, FramesOrdered
<1>14. ShownFirst'
  BY <1>1, <1>7, <1>8 DEF Inv, RingSound, ShownFirst
<1>15. SemaphoreCounts'
  BY <1>1, <1>2, <1>3, <1>4 DEF Inv, RingSound, SemaphoreCounts
<1> QED BY <1>7, <1>10, <1>11, <1>13, <1>14, <1>15 DEF Inv, RingSound

LEMMA RepeatInv ==
  ASSUME Inv, EndFrame, RepeatFrame
  PROVE  /\ Inv'
         /\ \A s \in Slots : InUse(s)' <=> InUse(s)
         /\ cache'[first_added].timestamp = cache[first_added].timestamp + 1
         /\ \A s \in Slots : End(s)' = End(s) /\ (s # first_added => cache'[s] = cache[s])
<1> USE CacheAssumption
<1>1. /\ UNCHANGED <<available_frames, first_added, last_added, locked, update_semaphore, stop,
                     stamped, shown>>
      /\ thread = "shown" /\ thread' = IF stop THEN "wait" ELSE "frame"
      /\ cache[first_added].count # 1
  BY DEF EndFrame, RepeatFrame, Complete
<1>2. Busy /\ thread' # "shown" /\ (~stop => Busy') /\ thread' \in {"wait", "frame"}
  BY <1>1 DEF Busy
<1>3. /\ cache \in [Slots -> [timestamp : Nat, count : Nat, skipped : Nat]]
      /\ first_added \in Slots
  BY DEF Inv, CacheTypeOK
<1>4. PICK skipped \in {0, 1} :
        /\ skipped <= cache[first_added].skipped /\ (skipped = 0 => cache[first_added].skipped = 0)
        /\ cache' = [cache EXCEPT ![first_added].timestamp = @ + 1, ![first_added].count = @ - 1,
                                  ![first_added].skipped = @ - skipped]
  <2> DEFINE k == IF cache[first_added].skipped > 0 THEN 1 ELSE 0
  <2>1. cache[first_added].skipped \in Nat
    BY <1>3
  <2>2. k \in {0, 1} /\ k <= cache[first_added].skipped /\ (k = 0 => cache[first_added].skipped = 0)
    BY <2>1
  <2>3. cache' = [cache EXCEPT ![first_added].timestamp = @ + 1, ![first_added].count = @ - 1,
                               ![first_added].skipped = @ - k]
    BY DEF RepeatFrame
  <2> HIDE DEF k
  <2> QED BY <2>2, <2>3
<1>5. cache[first_added].count > cache[first_added].skipped
  BY <1>2, FirstInUse
<1>6. /\ cache'[first_added] \in [timestamp : Nat, count : Nat, skipped : Nat]
      /\ cache'[first_added].timestamp = cache[first_added].timestamp + 1
      /\ cache'[first_added].count = cache[first_added].count - 1
      /\ cache'[first_added].skipped < cache'[first_added].count
      /\ \A s \in Slots : s # first_added => cache'[s] = cache[s]
  <2>1. /\ cache[first_added].timestamp \in Nat /\ cache[first_added].count \in Nat
        /\ cache[first_added].skipped \in Nat
    BY <1>3
  <2>2. cache'[first_added] = [timestamp |-> cache[first_added].timestamp + 1,
                               count |-> cache[first_added].count - 1,
                               skipped |-> cache[first_added].skipped - skipped]
    BY <1>3, <1>4
  <2>3. /\ cache[first_added].count - 1 \in Nat /\ cache[first_added].skipped - skipped \in Nat
        /\ cache[first_added].skipped - skipped < cache[first_added].count - 1
    BY <2>1, <1>1, <1>4, <1>5
  <2> QED BY <2>1, <2>2, <2>3, <1>3, <1>4
<1>7. cache' \in [Slots -> [timestamp : Nat, count : Nat, skipped : Nat]]
  <2>1. DOMAIN cache' = Slots /\ cache' = [s \in Slots |-> cache'[s]]
    BY <1>3, <1>4
  <2> QED BY <2>1, <1>3, <1>6
<1>8. CacheTypeOK'
  BY <1>1, <1>2, <1>7 DEF Inv, CacheTypeOK
<1>9. Held' = Held /\ Used' = Used
  BY <1>1 DEF Held, Used
<1>10. \A s \in Slots : Behind(s)' = Behind(s) /\ (InUse(s)' <=> InUse(s))
  BY <1>1, <1>9, SameDistance DEF InUse
<1>11. \A s \in Slots : End(s)' = End(s)
  BY <1>3, <1>6 DEF End
<1>12. LastIsNewest' /\ Held' <= CacheSize
  BY <1>1, <1>9, <1>10 DEF Inv, RingSound, LastIsNewest, CacheTypeOK
<1>13. FramesOrdered'
  <2>1. \A s \in Slots : InUse(s)' => cache'[s].skipped < cache'[s].count /\ End(s)' <= stamped'
    BY <1>1, <1>6, <1>10, <1>11 DEF Inv, RingSound, FramesOrdered
  <2>2. \A s, t \in Slots : InUse(s)' /\ InUse(t)' /\ Behind(s)' < Behind(t)'
                              => End(s)' <= cache'[t].timestamp
    <3>1. \A t \in Slots : Behind(t) \in 0 .. CacheSize - 1 /\ Behind(first_added) = 0
      BY <1>3, Distance
    <3>2. \A s, t \in Slots : Behind(s) < Behind(t) => t # first_added
      BY <3>1
    <3> QED BY <3>2, <1>6, <1>10, <1>11 DEF Inv, RingSound, FramesOrdered
  <2> QED BY <2>1, <2>2 DEF FramesOrdered
<1>14. ShownFirst'
  BY <1>1, <1>2, <1>3, <1>6, <1>10 DEF Inv, RingSound, ShownFirst, CacheTypeOK
<1>15. SemaphoreCounts'
  BY <1>1, <1>2, <1>9 DEF Inv, RingSound, SemaphoreCounts
<1> QED BY <1>6, <1>8, <1>10, <1>11, <1>12, <1>13, <1>14, <1>15 DEF Inv, RingSound

-----------------------------------------------------------------------------
(* Everything else leaves the ring alone. *)

LEMMA UsersKeep == Users => /\ UNCHANGED <<ring, thread, stamped, shown>>
                            /\ UNCHANGED <<stop, update_semaphore>> \/ StopOutput
  BY DEF Users, Connect, Disconnect, StopOutput, IncTextureEncoders, DecTextureEncoders,
         CountTextureSkips

LEMMA SameInv ==
  ASSUME Inv, UNCHANGED <<ring, thread, stamped, shown>>,
         UNCHANGED <<stop, update_semaphore>> \/ StopOutput
  PROVE  Inv'
<1> USE CacheAssumption
<1>1. update_semaphore' \in Nat /\ stop' \in BOOLEAN
  <2>1. update_semaphore \in Nat /\ stop \in BOOLEAN
    BY DEF Inv, CacheTypeOK
  <2>2. CASE UNCHANGED <<stop, update_semaphore>>
    BY <2>1, <2>2
  <2>3. CASE StopOutput
    <3>1. update_semaphore' \in Nat
      BY <2>1, <2>3 DEF StopOutput
    <3>2. stop' \in BOOLEAN
      BY <2>3 DEF StopOutput
    <3> QED BY <3>1, <3>2
  <2> QED BY <2>2, <2>3
<1>2. CacheTypeOK'
  BY <1>1 DEF Inv, CacheTypeOK, ring
<1>3. Held' = Held /\ Used' = Used /\ Busy' = Busy
  BY DEF Held, Used, Busy, ring
<1>4. \A s \in Slots : Behind(s)' = Behind(s) /\ (InUse(s)' <=> InUse(s)) /\ End(s)' = End(s)
  BY <1>3, SameDistance DEF InUse, End, ring
<1>5. LastIsNewest' /\ Held' <= CacheSize
  BY <1>3, <1>4 DEF Inv, RingSound, LastIsNewest, CacheTypeOK, ring
<1>6. FramesOrdered' /\ ShownFirst'
  BY <1>4 DEF Inv, RingSound, FramesOrdered, ShownFirst, ring
<1>7. SemaphoreCounts'
  BY <1>3 DEF Inv, RingSound, SemaphoreCounts, StopOutput
<1> QED BY <1>2, <1>5, <1>6, <1>7 DEF Inv, RingSound

-----------------------------------------------------------------------------
LEMMA NextInv == Inv /\ [CacheNext]_cacheVars => Inv'
<1> SUFFICES ASSUME Inv, [CacheNext]_cacheVars PROVE Inv'
  OBVIOUS
<1>1. ASSUME NEW ts \in stamped .. MaxTick, NEW n \in 1 .. MaxCount, LockFrame(ts, n)
      PROVE  Inv'
  <2>1. CASE Overflow(n)
    BY <1>1, <2>1, OverflowInv
  <2>2. CASE TakeSlot(ts, n)
    BY <1>1, <2>2, TakeSlotInv
  <2> QED BY <1>1, <2>1, <2>2 DEF LockFrame
<1>2. CASE UnlockFrame
  BY <1>2, UnlockInv
<1>3. CASE Wake \/ LeaveFrame
  BY <1>3, ThreadInv
<1>4. CASE ShowFrame
  BY <1>4, ShowInv
<1>5. CASE EndFrame
  BY <1>5, FreeSlotInv, RepeatInv DEF EndFrame
<1>6. CASE Users
  BY <1>6, UsersKeep, SameInv
<1>7. CASE UNCHANGED cacheVars
  BY <1>7, SameInv DEF cacheVars
<1> QED BY <1>1, <1>2, <1>3, <1>4, <1>5, <1>6, <1>7 DEF CacheNext, Graphics, VideoThread

(* The ring stays what lock_frame(), unlock_frame() and cur_frame() take it *)
(* for, for every size of the cache and every interleaving.                 *)
THEOREM RingCorrect == CacheSpec => []RingSound
<1>1. Inv => RingSound
  BY DEF Inv
<1> QED BY <1>1, InitInv, NextInv, PTL DEF CacheSpec

(* Every variable of the cache keeps its type. *)
THEOREM CacheTypeCorrect == CacheSpec => []CacheTypeOK
<1>1. Inv => CacheTypeOK
  BY DEF Inv
<1> QED BY <1>1, InitInv, NextInv, PTL DEF CacheSpec

-----------------------------------------------------------------------------
(* The feed *)

ShownAlready(t) == thread = "shown" /\ t = cache[first_added].timestamp

LEMMA Members ==
  /\ \A t : t \in PendingTicks <=> ~ShownAlready(t) /\ \E s \in Slots : InUse(s) /\ t \in TicksOf(s)
  /\ \A t : t \in PendingTicks' <=>
             ~ShownAlready(t)' /\ \E s \in Slots : InUse(s)' /\ t \in TicksOf(s)'
  BY DEF PendingTicks, ShownAlready

LEMMA SamePending ==
  ASSUME UNCHANGED <<cache, first_added, shown>>, thread' = "shown" <=> thread = "shown",
         \A s \in Slots : InUse(s)' <=> InUse(s)
  PROVE  UNCHANGED Feed!vars
<1>1. \A s \in Slots : TicksOf(s)' = TicksOf(s)
  BY DEF TicksOf, End
<1>2. \A t : ShownAlready(t)' <=> ShownAlready(t)
  BY DEF ShownAlready
<1>3. PendingTicks' = PendingTicks
  BY <1>1, <1>2, Members
<1> QED BY <1>3 DEF Feed!vars

(* What a step of the graphics thread adds comes after what is pending. *)
LEMMA ComposeFeed ==
  ASSUME NEW first \in Nat, NEW last \in Nat, first <= last, first > shown, shown' = shown,
         \A t \in PendingTicks : t < first,
         \A t : t \in PendingTicks' <=> t \in PendingTicks \/ t \in first .. last
  PROVE  Feed!Next
<1>1. first \in PendingTicks' /\ last \in PendingTicks'
  OBVIOUS
<1>2. first \notin PendingTicks
  OBVIOUS
<1>3. last \notin PendingTicks
  OBVIOUS
<1>4. PendingTicks' = PendingTicks \cup first .. last
  OBVIOUS
<1>5. \A t \in PendingTicks : first > t
  OBVIOUS
<1> QED BY <1>1, <1>2, <1>3, <1>4, <1>5 DEF Feed!Next, Feed!Compose

(* Pending ticks are behind the last one shown and before stamped. *)
LEMMA PendingBetween == Inv => \A t \in PendingTicks : t \in Nat /\ t > shown /\ t < stamped
<1> SUFFICES ASSUME Inv, NEW t \in PendingTicks PROVE t \in Nat /\ t > shown /\ t < stamped
  OBVIOUS
<1>1. PICK s \in Slots : InUse(s) /\ t \in TicksOf(s)
  BY Members
<1>2. /\ cache[s].timestamp \in Nat /\ cache[s].count \in Nat /\ shown \in Nat /\ stamped \in Nat
  BY DEF Inv, CacheTypeOK
<1>3. t \in cache[s].timestamp .. End(s) - 1 /\ End(s) \in Nat
  BY <1>1, <1>2 DEF TicksOf, End
<1>4. End(s) <= stamped
  BY <1>1 DEF Inv, RingSound, FramesOrdered
<1>5. cache[s].timestamp > shown \/ (thread = "shown" /\ s = first_added)
  BY <1>1 DEF Inv, RingSound, ShownFirst
<1>6. CASE cache[s].timestamp > shown
  BY <1>2, <1>3, <1>4, <1>6
<1>7. CASE thread = "shown" /\ s = first_added
  <2>1. t # cache[s].timestamp /\ cache[s].timestamp = shown
    BY <1>7, Members DEF ShownAlready, Inv, RingSound, ShownFirst
  <2> QED BY <2>1, <1>2, <1>3, <1>4
<1> QED BY <1>5, <1>6, <1>7

LEMMA TakeSlotFeed ==
  ASSUME Inv, NEW ts \in stamped .. MaxTick, NEW n \in 1 .. MaxCount,
         LockFrame(ts, n), TakeSlot(ts, n)
  PROVE  Feed!Next
<1> USE CacheAssumption
<1>1. /\ UNCHANGED <<first_added, thread, shown>>
      /\ cache' = [cache EXCEPT ![NextSlot] = [timestamp |-> ts, count |-> n, skipped |-> 0]]
  BY DEF LockFrame, TakeSlot
<1>2. /\ cache \in [Slots -> [timestamp : Nat, count : Nat, skipped : Nat]] /\ first_added \in Slots
      /\ stamped \in Nat /\ shown \in Nat /\ shown < stamped
  BY DEF Inv, CacheTypeOK, RingSound, ShownFirst
<1>3. /\ NextSlot \in Slots /\ ~InUse(NextSlot)
      /\ \A s \in Slots : InUse(s)' <=> InUse(s) \/ s = NextSlot
  BY TakeSlotInv
<1>4. ts \in Nat /\ ts + n - 1 \in Nat /\ ts <= ts + n - 1 /\ ts >= stamped
  BY <1>2
<1>5. \A s \in Slots : TicksOf(s)' = IF s = NextSlot THEN ts .. ts + n - 1 ELSE TicksOf(s)
  BY <1>1, <1>2, <1>3 DEF TicksOf, End
<1>6. thread = "shown" => first_added # NextSlot
  BY <1>3, FirstInUse DEF Busy
<1>7. \A t : ShownAlready(t)' <=> ShownAlready(t)
  BY <1>1, <1>2, <1>3, <1>6 DEF ShownAlready
<1>8. \A t \in ts .. ts + n - 1 : ~ShownAlready(t)
  <2>1. thread = "shown" => cache[first_added].timestamp = shown
    BY DEF Inv, RingSound, ShownFirst
  <2> QED BY <2>1, <1>2, <1>4 DEF ShownAlready
<1>9. \A t : t \in PendingTicks' <=> t \in PendingTicks \/ t \in ts .. ts + n - 1
  BY <1>3, <1>5, <1>7, <1>8, Members
<1>10. ts > shown /\ \A t \in PendingTicks : t < ts
  BY <1>2, <1>4, PendingBetween
<1> QED BY <1>1, <1>4, <1>9, <1>10, ComposeFeed

LEMMA OverflowFeed ==
  ASSUME Inv, NEW ts \in stamped .. MaxTick, NEW n \in 1 .. MaxCount,
         LockFrame(ts, n), Overflow(n)
  PROVE  Feed!Next
<1> USE CacheAssumption
<1> DEFINE e == End(last_added)
<1>1. /\ UNCHANGED <<first_added, available_frames, locked, thread, shown>>
      /\ cache' = [cache EXCEPT ![last_added].count = @ + n, ![last_added].skipped = @ + n]
      /\ ~locked /\ available_frames = 0
  BY DEF LockFrame, Overflow
<1>2. /\ cache \in [Slots -> [timestamp : Nat, count : Nat, skipped : Nat]]
      /\ first_added \in Slots /\ last_added \in Slots /\ shown \in Nat
  BY DEF Inv, CacheTypeOK
<1>3. Held = CacheSize /\ Held' = Held
  BY <1>1 DEF Held, Used
<1>4. \A s \in Slots : InUse(s)' <=> InUse(s)
  BY <1>1, <1>3, SameDistance DEF InUse
<1>5. InUse(last_added) /\ \A s \in Slots : s # last_added => Behind(s) < Behind(last_added)
  <2>1. Behind(last_added) = CacheSize - 1
    BY <1>3 DEF Inv, RingSound, LastIsNewest
  <2>2. \A s \in Slots : Behind(s) \in 0 .. CacheSize - 1 /\ (Behind(s) = Behind(last_added) => s = last_added)
    BY <1>2, Distance
  <2> QED BY <2>1, <2>2, <1>2, <1>3 DEF InUse
<1>6. /\ cache[last_added].timestamp \in Nat /\ cache[last_added].count \in Nat
      /\ cache[last_added].skipped \in Nat /\ cache[last_added].skipped < cache[last_added].count
      /\ e \in Nat /\ n \in Nat /\ n > 0 /\ e = cache[last_added].timestamp + cache[last_added].count
  BY <1>2, <1>5 DEF Inv, RingSound, FramesOrdered, End
<1>7. e > shown
  BY <1>2, <1>5, <1>6 DEF Inv, RingSound, ShownFirst
<1>8. \A t \in PendingTicks : t < e
  <2> SUFFICES ASSUME NEW t \in PendingTicks PROVE t < e
    OBVIOUS
  <2>1. PICK s \in Slots : InUse(s) /\ t \in TicksOf(s)
    BY Members
  <2>2. /\ cache[s].timestamp \in Nat /\ cache[s].count \in Nat
        /\ End(s) \in Nat /\ t \in Nat /\ t < End(s)
    BY <1>2, <2>1 DEF TicksOf, End
  <2>3. s # last_added => End(s) <= cache[last_added].timestamp
    BY <1>2, <1>5, <2>1 DEF Inv, RingSound, FramesOrdered
  <2> QED BY <2>2, <2>3, <1>6
<1>9. /\ \A s \in Slots : s # last_added => TicksOf(s)' = TicksOf(s)
      /\ \A t : \A s \in Slots : s = last_added => (t \in TicksOf(s)' <=> t \in TicksOf(s) \/ t \in e .. e + n - 1)
  <2>1. \A s \in Slots : s # last_added => cache'[s] = cache[s]
    BY <1>1, <1>2
  <2>2. cache'[last_added].timestamp = cache[last_added].timestamp
        /\ cache'[last_added].count = cache[last_added].count + n
    BY <1>1, <1>2
  <2>3. \A s \in Slots : s # last_added => TicksOf(s)' = TicksOf(s)
    BY <2>1 DEF TicksOf, End
  <2>4. \A s \in Slots : s = last_added =>
           /\ TicksOf(s) = cache[last_added].timestamp .. e - 1
           /\ TicksOf(s)' = cache[last_added].timestamp .. (e + n) - 1
    BY <2>2, <1>6 DEF TicksOf, End
  <2> HIDE DEF e
  <2>5. \A t : t \in cache[last_added].timestamp .. (e + n) - 1 <=>
                t \in cache[last_added].timestamp .. e - 1 \/ t \in e .. e + n - 1
    BY <1>6
  <2> QED BY <2>3, <2>4, <2>5
<1>10. \A t : ShownAlready(t)' <=> ShownAlready(t)
  BY <1>1, <1>2 DEF ShownAlready
<1>11. \A t \in e .. e + n - 1 : ~ShownAlready(t)
  <2>1. thread = "shown" => cache[first_added].timestamp = shown
    BY DEF Inv, RingSound, ShownFirst
  <2> QED BY <2>1, <1>2, <1>6, <1>7 DEF ShownAlready
<1> HIDE DEF e
<1>12. \A t : t \in PendingTicks' <=> t \in PendingTicks \/ t \in e .. e + n - 1
  BY <1>2, <1>4, <1>5, <1>9, <1>10, <1>11, Members
<1>13. e + n - 1 \in Nat /\ e <= e + n - 1
  BY <1>6
<1> QED BY <1>1, <1>6, <1>7, <1>8, <1>12, <1>13, ComposeFeed

LEMMA ShowFeed ==
  ASSUME Inv, ShowFrame
  PROVE  Feed!Next
<1> DEFINE f == cache[first_added].timestamp
<1>1. /\ UNCHANGED ring
      /\ thread = "frame" /\ thread' = "shown" /\ shown' = f
  BY DEF ShowFrame
<1>2. /\ InUse(first_added) /\ first_added \in Slots
      /\ cache[first_added].count > cache[first_added].skipped
      /\ \A s \in Slots : InUse(s) /\ s # first_added => cache[s].timestamp >= End(first_added)
  BY <1>1, FirstInUse DEF Busy
<1>3. \A s \in Slots : /\ cache[s].timestamp \in Nat /\ cache[s].count \in Nat
                       /\ cache[s].skipped \in Nat /\ End(s) = cache[s].timestamp + cache[s].count
  BY DEF Inv, CacheTypeOK, End
<1>4. f \in TicksOf(first_added)
  BY <1>2, <1>3 DEF TicksOf
<1>5. f \in PendingTicks
  BY <1>1, <1>2, <1>4, Members DEF ShownAlready
<1>6. \A t \in PendingTicks : f <= t
  <2> SUFFICES ASSUME NEW t \in PendingTicks PROVE f <= t
    OBVIOUS
  <2>1. PICK s \in Slots : InUse(s) /\ t \in TicksOf(s)
    BY Members
  <2>2. t >= cache[s].timestamp
    BY <2>1, <1>3 DEF TicksOf
  <2>3. t \in Int
    BY <2>1, <1>3 DEF TicksOf
  <2> QED BY <2>1, <2>2, <2>3, <1>2, <1>3
<1>7. \A s \in Slots : TicksOf(s)' = TicksOf(s) /\ (InUse(s)' <=> InUse(s))
  BY <1>1 DEF TicksOf, End, InUse, Behind, Held, Used, ring
<1>8. \A t : ~ShownAlready(t) /\ (ShownAlready(t)' <=> t = f)
  BY <1>1 DEF ShownAlready, ring
<1> HIDE DEF f
<1>9. \A t : t \in PendingTicks' <=> t \in PendingTicks /\ t # f
  BY <1>7, <1>8, Members
<1>10. PendingTicks' = PendingTicks \ {f}
  BY <1>9
<1>11. Feed!Show
  BY <1>1, <1>5, <1>6, <1>10 DEF Feed!Show
<1> QED BY <1>11 DEF Feed!Next

(* The tick shown is dropped from the frame, which changes nothing that is  *)
(* pending.                                                                *)
LEMMA FreeSlotFeed ==
  ASSUME Inv, EndFrame, FreeSlot
  PROVE  UNCHANGED Feed!vars
<1>1. /\ thread = "shown" /\ thread' = "wait" /\ shown' = shown /\ cache[first_added].count = 1
      /\ first_added \in Slots
      /\ cache \in [Slots -> [timestamp : Nat, count : Nat, skipped : Nat]]
      /\ cache' = [cache EXCEPT ![first_added].timestamp = @ + 1, ![first_added].count = @ - 1]
  BY DEF EndFrame, FreeSlot, Complete, Inv, CacheTypeOK
<1>2. \A s \in Slots : InUse(s)' <=> InUse(s) /\ s # first_added
  BY FreeSlotInv
<1>3. \A s \in Slots : s # first_added => TicksOf(s)' = TicksOf(s)
  BY <1>1 DEF TicksOf, End
<1>4. /\ End(first_added) = cache[first_added].timestamp + 1
      /\ cache[first_added].timestamp \in Nat
      /\ \A t : t \in TicksOf(first_added) => t = cache[first_added].timestamp
  BY <1>1 DEF TicksOf, End
<1>5. \A s \in Slots : InUse(s) /\ s # first_added => cache[first_added].timestamp \notin TicksOf(s)
  <2> SUFFICES ASSUME NEW s \in Slots, InUse(s), s # first_added
               PROVE  cache[first_added].timestamp \notin TicksOf(s)
    OBVIOUS
  <2>1. cache[s].timestamp >= End(first_added)
    BY <1>1, FirstInUse DEF Busy
  <2>2. cache[s].timestamp \in Nat /\ cache[s].count \in Nat
    BY <1>1
  <2> QED BY <2>1, <2>2, <1>4 DEF TicksOf, End
<1>6. \A t : (ShownAlready(t) <=> t = cache[first_added].timestamp) /\ ~ShownAlready(t)'
  BY <1>1 DEF ShownAlready
<1>7. PendingTicks' = PendingTicks
  <2>1. \A t : t \in PendingTicks' <=> \E s \in Slots : InUse(s) /\ s # first_added /\ t \in TicksOf(s)
    BY <1>2, <1>3, <1>6, Members
  <2>2. \A t : t \in PendingTicks <=> \E s \in Slots : InUse(s) /\ s # first_added /\ t \in TicksOf(s)
    BY <1>4, <1>5, <1>6, Members
  <2> QED BY <2>1, <2>2
<1> QED BY <1>1, <1>7 DEF Feed!vars

LEMMA RepeatFeed ==
  ASSUME Inv, EndFrame, RepeatFrame
  PROVE  UNCHANGED Feed!vars
<1>1. /\ thread = "shown" /\ thread' # "shown" /\ shown' = shown /\ first_added \in Slots
      /\ cache \in [Slots -> [timestamp : Nat, count : Nat, skipped : Nat]]
  BY DEF EndFrame, RepeatFrame, Inv, CacheTypeOK
<1>2. /\ \A s \in Slots : InUse(s)' <=> InUse(s)
      /\ cache'[first_added].timestamp = cache[first_added].timestamp + 1
      /\ \A s \in Slots : End(s)' = End(s) /\ (s # first_added => cache'[s] = cache[s])
  BY RepeatInv
<1>3. \A s \in Slots : s # first_added => TicksOf(s)' = TicksOf(s)
  BY <1>2 DEF TicksOf
<1>4. \A s \in Slots : s = first_added =>
        \A t : t \in TicksOf(s)' <=> t \in TicksOf(s) /\ t # cache[first_added].timestamp
  <2>1. /\ cache[first_added].timestamp \in Nat /\ End(first_added) \in Nat
    BY <1>1 DEF End
  <2>2. \A s \in Slots : s = first_added =>
           /\ TicksOf(s) = cache[first_added].timestamp .. End(first_added) - 1
           /\ TicksOf(s)' = cache[first_added].timestamp + 1 .. End(first_added) - 1
    BY <1>2 DEF TicksOf
  <2>3. \A t : t \in cache[first_added].timestamp + 1 .. End(first_added) - 1 <=>
                t \in cache[first_added].timestamp .. End(first_added) - 1
                  /\ t # cache[first_added].timestamp
    BY <2>1
  <2> QED BY <2>2, <2>3
<1>5. \A s \in Slots : InUse(s) /\ s # first_added => cache[first_added].timestamp \notin TicksOf(s)
  <2> SUFFICES ASSUME NEW s \in Slots, InUse(s), s # first_added
               PROVE  cache[first_added].timestamp \notin TicksOf(s)
    OBVIOUS
  <2>1. /\ cache[s].timestamp >= End(first_added)
        /\ cache[first_added].count > cache[first_added].skipped
    BY <1>1, FirstInUse DEF Busy
  <2>2. /\ cache[s].timestamp \in Nat /\ cache[s].count \in Nat /\ cache[first_added].skipped \in Nat
        /\ cache[first_added].timestamp \in Nat /\ cache[first_added].count \in Nat
    BY <1>1
  <2> QED BY <2>1, <2>2 DEF TicksOf, End
<1>6. \A t : (ShownAlready(t) <=> t = cache[first_added].timestamp) /\ ~ShownAlready(t)'
  BY <1>1 DEF ShownAlready
<1>7. PendingTicks' = PendingTicks
  <2>1. \A t : \A s \in Slots : InUse(s) => (t \in TicksOf(s)' <=> t \in TicksOf(s) /\ t # cache[first_added].timestamp)
    BY <1>3, <1>4, <1>5
  <2>2. \A t : t \in PendingTicks' <=> \E s \in Slots : InUse(s) /\ t \in TicksOf(s)'
    BY <1>2, <1>6, Members
  <2>3. \A t : t \in PendingTicks <=> t # cache[first_added].timestamp
                                       /\ \E s \in Slots : InUse(s) /\ t \in TicksOf(s)
    BY <1>6, Members
  <2> QED BY <2>1, <2>2, <2>3
<1> QED BY <1>1, <1>7 DEF Feed!vars

(* Every step of the cache is a step of the feed or changes nothing there.  *)
LEMMA FeedStep == Inv /\ [CacheNext]_cacheVars => [Feed!Next]_(Feed!vars)
<1> SUFFICES ASSUME Inv, [CacheNext]_cacheVars PROVE Feed!Next \/ UNCHANGED Feed!vars
  OBVIOUS
<1>1. ASSUME NEW ts \in stamped .. MaxTick, NEW n \in 1 .. MaxCount, LockFrame(ts, n)
      PROVE  Feed!Next
  <2>1. CASE Overflow(n)
    BY <1>1, <2>1, OverflowFeed
  <2>2. CASE TakeSlot(ts, n)
    BY <1>1, <2>2, TakeSlotFeed
  <2> QED BY <1>1, <2>1, <2>2 DEF LockFrame
<1>2. CASE UnlockFrame
  <2>1. /\ UNCHANGED <<cache, first_added, shown, thread>> /\ locked /\ locked' = FALSE
        /\ available_frames' = available_frames - 1 /\ available_frames \in Int
    BY <1>2 DEF UnlockFrame, Inv, CacheTypeOK
  <2>2. Held' = Held
    BY <2>1, CacheAssumption DEF Held, Used
  <2>3. \A s \in Slots : InUse(s)' <=> InUse(s)
    BY <2>1, <2>2, SameDistance DEF InUse
  <2> QED BY <2>1, <2>3, SamePending
<1>3. CASE Wake \/ LeaveFrame
  <2>1. UNCHANGED ring /\ shown' = shown /\ thread # "shown" /\ thread' # "shown"
    BY <1>3 DEF Wake, LeaveFrame
  <2>2. \A s \in Slots : InUse(s)' <=> InUse(s)
    BY <2>1 DEF ring, InUse, Behind, Held, Used
  <2> QED BY <2>1, <2>2, SamePending DEF ring
<1>4. CASE ShowFrame
  BY <1>4, ShowFeed
<1>5. CASE EndFrame
  BY <1>5, FreeSlotFeed, RepeatFeed DEF EndFrame
<1>6. ASSUME UNCHANGED <<ring, thread, stamped, shown>>
      PROVE  UNCHANGED Feed!vars
  <2>1. \A s \in Slots : InUse(s)' <=> InUse(s)
    BY <1>6 DEF ring, InUse, Behind, Held, Used
  <2> QED BY <1>6, <2>1, SamePending DEF ring
<1>7. CASE Users \/ UNCHANGED cacheVars
  BY <1>6, <1>7, UsersKeep DEF cacheVars
<1> QED BY <1>1, <1>2, <1>3, <1>4, <1>5, <1>7 DEF CacheNext, Graphics, VideoThread

LEMMA FeedInit == CacheInit => Feed!Init
<1> SUFFICES ASSUME CacheInit PROVE Feed!Init
  OBVIOUS
<1>1. Held = 0
  BY CacheAssumption DEF CacheInit, Held, Used
<1>2. \A s \in Slots : ~InUse(s)
  BY <1>1, InitInv, Distance DEF InUse, Inv, CacheTypeOK
<1>3. PendingTicks = {}
  BY <1>2, Members
<1> QED BY <1>3 DEF Feed!Init, CacheInit

(* The cache implements the feed: however late the encoders are, every tick *)
(* composed is shown once and in order.                                     *)
THEOREM CacheImplementsFeed == CacheSpec => ImplementsFeed
<1>1. CacheInit => Feed!Init
  BY FeedInit
<1>2. Inv /\ [CacheNext]_cacheVars => [Feed!Next]_(Feed!vars)
  BY FeedStep
<1> QED BY <1>1, <1>2, InitInv, NextInv, PTL DEF CacheSpec, ImplementsFeed, Feed!Spec


-----------------------------------------------------------------------------
(* The skipped ticks *)

Skips == [s \in Slots |-> IF InUse(s) THEN cache[s].skipped ELSE 0]
SkipsOf == [i \in 1 .. CacheSize |-> Skips[i - 1]]

PendingIsSum ==
  /\ Pending = Sum(SkipsOf, CacheSize)
  /\ \A i \in 1 .. CacheSize : SkipsOf[i] = Skips[i - 1] /\ SkipsOf[i] \in Nat

(* Pending is a sum over the slots. *)
LEMMA PendingSum == Inv => PendingIsSum
<1> SUFFICES ASSUME Inv PROVE PendingIsSum
  OBVIOUS
<1> DEFINE c == SkipsOf
           G(g) == g = [n \in 0 .. CacheSize |->
                          IF n = 0 THEN 0
                          ELSE g[n - 1] + (IF InUse(n - 1) THEN cache[n - 1].skipped ELSE 0)]
<1>1. CacheSize \in Nat /\ \A i \in 1 .. CacheSize : i - 1 \in Slots
  BY CacheAssumption DEF Slots
<1>2. \A i \in 1 .. CacheSize : c[i] = Skips[i - 1] /\ c[i] \in Nat
  <2> SUFFICES ASSUME NEW i \in 1 .. CacheSize PROVE c[i] = Skips[i - 1] /\ c[i] \in Nat
    OBVIOUS
  <2>1. c[i] = Skips[i - 1]
    BY DEF SkipsOf
  <2>2. Skips[i - 1] \in Nat
    <3>1. PICK s \in Slots : s = i - 1
      BY <1>1
    <3>2. cache[s].skipped \in Nat
      BY DEF Inv, CacheTypeOK
    <3>3. Skips[s] \in {0, cache[s].skipped}
      BY DEF Skips
    <3> QED BY <3>1, <3>2, <3>3
  <2> QED BY <2>1, <2>2
<1>3. \A g : G(g) <=> IsSums(g, c, CacheSize)
  <2> TAKE g
  <2>1. \A i \in 0 .. CacheSize : i = 0 \/ i \in 1 .. CacheSize
    BY <1>1
  <2>2. [n \in 0 .. CacheSize |-> IF n = 0 THEN 0
                                  ELSE g[n - 1] + (IF InUse(n - 1) THEN cache[n - 1].skipped ELSE 0)]
          = [i \in 0 .. CacheSize |-> IF i = 0 THEN 0 ELSE g[i - 1] + c[i]]
    <3>1. \A s \in Slots : Skips[s] = IF InUse(s) THEN cache[s].skipped ELSE 0
      BY DEF Skips
    <3>2. \A i \in 1 .. CacheSize : c[i] = IF InUse(i - 1) THEN cache[i - 1].skipped ELSE 0
      BY <1>1, <1>2, <3>1
    <3> HIDE DEF c
    <3> QED BY <2>1, <3>2
  <2> HIDE DEF c
  <2> QED BY <2>2 DEF IsSums
<1>4. PICK h : IsSums(h, c, CacheSize)
  BY <1>1, SumsExist
<1>5. PICK g : G(g) /\ Pending = g[CacheSize]
  <2>1. G(h)
    BY <1>3, <1>4
  <2> QED BY <2>1 DEF Pending
<1> HIDE DEF c, G
<1>6. IsSums(g, c, CacheSize)
  BY <1>3, <1>5
<1>7. Pending = Sum(c, CacheSize)
  BY <1>1, <1>5, <1>6, SumUnique
<1> QED BY <1>2, <1>7 DEF PendingIsSum, c

LEMMA PendingSumNext == Inv' => PendingIsSum'
  BY PendingSum, PTL

(* The sum follows the one slot that a step changes. *)
LEMMA PendingChange ==
  ASSUME Inv, Inv', NEW s \in Slots,
         \A t \in Slots : t # s => Skips'[t] = Skips[t]
  PROVE  Pending' = Pending + Skips'[s] - Skips[s]
<1> DEFINE c == SkipsOf
           d == SkipsOf'
<1>1. /\ Pending = Sum(c, CacheSize) /\ Pending' = Sum(d, CacheSize)
      /\ \A i \in 1 .. CacheSize : /\ c[i] = Skips[i - 1] /\ c[i] \in Nat
                                   /\ d[i] = Skips'[i - 1] /\ d[i] \in Nat
  BY PendingSum, PendingSumNext DEF PendingIsSum
<1> HIDE DEF c, d
<1>2. PICK p \in 1 .. CacheSize : p - 1 = s
  BY CacheAssumption DEF Slots
<1>3. CacheSize \in Nat /\ \A i \in 1 .. CacheSize : i - 1 \in Slots /\ (i # p => i - 1 # s)
  BY <1>2, CacheAssumption DEF Slots
<1>4. \A i \in 1 .. CacheSize : i # p => c[i] = d[i]
  BY <1>1, <1>3
<1>5. \A i \in 1 .. CacheSize : c[i] \in Nat /\ d[i] \in Nat
  BY <1>1
<1>6. Sum(d, CacheSize) = Sum(c, CacheSize) + d[p] - c[p]
  BY <1>3, <1>4, <1>5, SumChange
<1>7. d[p] = Skips'[s] /\ c[p] = Skips[s]
  BY <1>1, <1>2
<1> QED BY <1>1, <1>6, <1>7

LEMMA PendingType ==
  ASSUME Inv
  PROVE  Pending \in Nat /\ \A s \in Slots : Skips[s] \in Nat
<1>1. PendingIsSum /\ CacheSize \in Nat /\ CacheSize \in 0 .. CacheSize
  BY PendingSum, CacheAssumption
<1>2. Sum(SkipsOf, CacheSize) \in Nat
  BY <1>1, SumType DEF PendingIsSum
<1>3. ASSUME NEW s \in Slots PROVE Skips[s] \in Nat
  <2>1. cache[s].skipped \in Nat
    BY DEF Inv, CacheTypeOK
  <2> QED BY <2>1 DEF Skips
<1> QED BY <1>1, <1>2, <1>3 DEF PendingIsSum

LEMMA PendingSame ==
  ASSUME Inv, Inv', \A t \in Slots : Skips'[t] = Skips[t]
  PROVE  Pending' = Pending
<1>1. 0 \in Slots
  BY CacheAssumption DEF Slots
<1>2. Pending' = Pending + Skips'[0] - Skips[0]
  BY <1>1, PendingChange
<1>3. Skips[0] \in Nat /\ Pending \in Nat
  BY <1>1, PendingType
<1> QED BY <1>1, <1>2, <1>3

(* A step that leaves the ring alone leaves them alone. *)
LEMMA PendingKept ==
  ASSUME Inv, Inv', UNCHANGED ring
  PROVE  Pending' = Pending
<1>1. Held' = Held /\ cache' = cache
  BY DEF ring, Held, Used
<1>2. \A s \in Slots : InUse(s)' <=> InUse(s)
  BY <1>1, SameDistance DEF ring, InUse
<1>3. Skips' = Skips
  BY <1>1, <1>2 DEF Skips
<1> QED BY <1>3, PendingSame

LEMMA SkipsOverflow ==
  ASSUME Inv, Inv', SkipsCounted, skipped_frames \in Int, overflowed \in Int,
         NEW ts \in stamped .. MaxTick, NEW n \in 1 .. MaxCount, LockFrame(ts, n), Overflow(n)
  PROVE  SkipsCounted' /\ skipped_frames' \in Int /\ overflowed' \in Int
<1> USE CacheAssumption
<1>1. /\ UNCHANGED <<available_frames, first_added, locked, skipped_frames>> /\ ~locked
      /\ available_frames = 0 /\ overflowed' = overflowed + n /\ n \in Nat
      /\ cache' = [cache EXCEPT ![last_added].count = @ + n, ![last_added].skipped = @ + n]
  BY DEF LockFrame, Overflow
<1>2. /\ cache \in [Slots -> [timestamp : Nat, count : Nat, skipped : Nat]]
      /\ last_added \in Slots /\ first_added \in Slots
  BY DEF Inv, CacheTypeOK
<1>3. Held = CacheSize /\ Held' = Held
  BY <1>1 DEF Held, Used
<1>4. PICK l \in Slots : l = last_added
  BY <1>2
<1>5. InUse(l) /\ \A s \in Slots : InUse(s)' <=> InUse(s)
  BY <1>1, <1>2, <1>3, Distance, SameDistance DEF InUse
<1>6. cache'[l].skipped = cache[l].skipped + n /\ \A s \in Slots : s # l => cache'[s] = cache[s]
  BY <1>1, <1>2, <1>4
<1>7. Skips'[l] = Skips[l] + n /\ \A s \in Slots : s # l => Skips'[s] = Skips[s]
  BY <1>5, <1>6 DEF Skips
<1>8. Pending' = Pending + Skips'[l] - Skips[l]
  BY <1>7, PendingChange
<1>9. Pending \in Nat /\ Skips[l] \in Nat
  BY PendingType
<1> QED BY <1>1, <1>7, <1>8, <1>9 DEF SkipsCounted

LEMMA SkipsTakeSlot ==
  ASSUME Inv, Inv', SkipsCounted,
         NEW ts \in stamped .. MaxTick, NEW n \in 1 .. MaxCount, LockFrame(ts, n), TakeSlot(ts, n)
  PROVE  SkipsCounted'
<1>1. UNCHANGED counters /\ cache' = [cache EXCEPT ![NextSlot] = [timestamp |-> ts, count |-> n, skipped |-> 0]]
  BY DEF TakeSlot
<1>2. NextSlot \in Slots /\ ~InUse(NextSlot) /\ \A s \in Slots : InUse(s)' <=> InUse(s) \/ s = NextSlot
  BY TakeSlotInv
<1>3. PICK l \in Slots : l = NextSlot
  BY <1>2
<1>4. cache'[l].skipped = 0 /\ \A s \in Slots : s # l => cache'[s] = cache[s]
  BY <1>1, <1>3 DEF Inv, CacheTypeOK
<1>5. ~InUse(l) /\ \A s \in Slots : s # l => (InUse(s)' <=> InUse(s))
  BY <1>2, <1>3
<1>6. Skips'[l] = 0 /\ Skips[l] = 0 /\ \A s \in Slots : s # l => Skips'[s] = Skips[s]
  BY <1>4, <1>5 DEF Skips
<1>7. \A s \in Slots : Skips'[s] = Skips[s]
  BY <1>6
<1> QED BY <1>1, <1>7, PendingSame DEF SkipsCounted, counters

(* A slot is freed when its skipped ticks have been counted. *)
LEMMA SkipsFreeSlot ==
  ASSUME Inv, Inv', SkipsCounted, EndFrame, FreeSlot
  PROVE  SkipsCounted'
<1>1. /\ UNCHANGED <<skipped_frames, overflowed>> /\ Busy /\ cache[first_added].count = 1
      /\ cache' = [cache EXCEPT ![first_added].timestamp = @ + 1, ![first_added].count = @ - 1]
  BY DEF EndFrame, FreeSlot, Complete, Busy
<1>2. \A s \in Slots : InUse(s)' <=> InUse(s) /\ s # first_added
  BY FreeSlotInv
<1>3. PICK f \in Slots : f = first_added
  BY DEF Inv, CacheTypeOK
<1>4. cache[f].skipped \in Nat /\ cache[f].skipped < 1
  BY <1>1, <1>3, FirstInUse DEF Inv, CacheTypeOK
<1>5. ~InUse(f)' /\ \A s \in Slots : s # f => (InUse(s)' <=> InUse(s)) /\ cache'[s] = cache[s]
  BY <1>1, <1>2, <1>3 DEF Inv, CacheTypeOK
<1>6. Skips'[f] = 0 /\ Skips[f] = 0
  BY <1>4, <1>5 DEF Skips
<1>7. \A s \in Slots : s # f => Skips'[s] = Skips[s]
  BY <1>5 DEF Skips
<1>8. \A s \in Slots : Skips'[s] = Skips[s]
  BY <1>6, <1>7
<1> QED BY <1>1, <1>8, PendingSame DEF SkipsCounted

LEMMA SkipsRepeat ==
  ASSUME Inv, Inv', SkipsCounted, skipped_frames \in Int, overflowed \in Int, EndFrame, RepeatFrame
  PROVE  SkipsCounted' /\ skipped_frames' \in Int /\ overflowed' \in Int
<1> DEFINE k == IF cache[first_added].skipped > 0 THEN 1 ELSE 0
<1>1. /\ skipped_frames' = skipped_frames + k /\ overflowed' = overflowed /\ Busy
      /\ cache' = [cache EXCEPT ![first_added].timestamp = @ + 1, ![first_added].count = @ - 1,
                                ![first_added].skipped = @ - k]
  BY DEF EndFrame, RepeatFrame, Busy
<1>2. PICK f \in Slots : f = first_added
  BY DEF Inv, CacheTypeOK
<1>3. k \in {0, 1}
  OBVIOUS
<1> HIDE DEF k
<1>4. cache'[f].skipped = cache[f].skipped - k /\ \A s \in Slots : s # f => cache'[s] = cache[s]
  BY <1>1, <1>2 DEF Inv, CacheTypeOK
<1>5. InUse(f) /\ \A s \in Slots : InUse(s)' <=> InUse(s)
  BY <1>1, <1>2, FirstInUse, RepeatInv
<1>6. Skips'[f] = Skips[f] - k /\ \A s \in Slots : s # f => Skips'[s] = Skips[s]
  BY <1>4, <1>5 DEF Skips
<1>7. Pending' = Pending + Skips'[f] - Skips[f]
  BY <1>6, PendingChange
<1>8. Pending \in Nat /\ Skips[f] \in Nat
  BY PendingType
<1> QED BY <1>1, <1>3, <1>6, <1>7, <1>8 DEF SkipsCounted

LEMMA SkipsUnlock ==
  ASSUME Inv, Inv', SkipsCounted, UnlockFrame
  PROVE  SkipsCounted'
<1>1. /\ UNCHANGED <<cache, first_added, counters>> /\ locked /\ ~locked'
      /\ available_frames' = available_frames - 1
  BY DEF UnlockFrame
<1>2. Held' = Held
  BY <1>1, CacheAssumption DEF Held, Used, Inv, CacheTypeOK
<1>3. \A s \in Slots : InUse(s)' <=> InUse(s)
  BY <1>1, <1>2, SameDistance DEF InUse
<1>4. \A s \in Slots : Skips'[s] = Skips[s]
  BY <1>1, <1>3 DEF Skips
<1> QED BY <1>1, <1>4, PendingSame DEF SkipsCounted, counters

SkipsInv == SkipsCounted /\ skipped_frames \in Int /\ overflowed \in Int

LEMMA SkipsStep == Inv /\ SkipsInv /\ [CacheNext]_cacheVars => SkipsInv'
<1> SUFFICES ASSUME Inv, SkipsInv, [CacheNext]_cacheVars PROVE SkipsInv'
  OBVIOUS
<1>1. Inv' /\ SkipsCounted /\ skipped_frames \in Int /\ overflowed \in Int
  BY NextInv DEF SkipsInv
<1>2. ASSUME UNCHANGED counters, SkipsCounted' PROVE SkipsInv'
  BY <1>1, <1>2 DEF SkipsInv, counters
<1>3. ASSUME NEW ts \in stamped .. MaxTick, NEW n \in 1 .. MaxCount, LockFrame(ts, n)
      PROVE  SkipsInv'
  <2>1. CASE Overflow(n)
    BY <1>1, <1>3, <2>1, SkipsOverflow DEF SkipsInv
  <2>2. CASE TakeSlot(ts, n)
    <3>1. SkipsCounted'
      BY <1>1, <1>3, <2>2, SkipsTakeSlot
    <3> QED BY <1>2, <2>2, <3>1 DEF TakeSlot
  <2> QED BY <1>3, <2>1, <2>2 DEF LockFrame
<1>4. CASE UnlockFrame
  <2>1. SkipsCounted'
    BY <1>1, <1>4, SkipsUnlock
  <2> QED BY <1>2, <1>4, <2>1 DEF UnlockFrame
<1>5. CASE EndFrame
  <2>1. CASE FreeSlot
    <3>1. SkipsCounted'
      BY <1>1, <1>5, <2>1, SkipsFreeSlot
    <3> QED BY <1>2, <2>1, <3>1 DEF FreeSlot, counters
  <2>2. CASE RepeatFrame
    BY <1>1, <1>5, <2>2, SkipsRepeat DEF SkipsInv
  <2> QED BY <1>5, <2>1, <2>2 DEF EndFrame
<1>6. ASSUME UNCHANGED ring PROVE Pending' = Pending /\ Pending \in Nat
  BY <1>1, <1>6, PendingKept, PendingType
<1>7. CASE Wake \/ ShowFrame \/ LeaveFrame \/ UNCHANGED cacheVars
  <2>1. UNCHANGED ring /\ UNCHANGED counters
    BY <1>7 DEF Wake, ShowFrame, LeaveFrame, cacheVars, counters
  <2> QED BY <1>1, <1>2, <1>6, <2>1 DEF SkipsCounted, counters
<1>8. CASE Users
  <2>1. UNCHANGED ring
    BY <1>8, UsersKeep
  <2>2. \/ UNCHANGED counters
        \/ ResetFrames
        \/ \E n \in 0 .. 1 : skipped_frames' = skipped_frames + n /\ overflowed' = overflowed + n
    BY <1>8 DEF Users, Connect, Disconnect, StopOutput, IncTextureEncoders, DecTextureEncoders,
                CountTextureSkips
  <2>3. Pending' = Pending /\ Pending \in Nat
    BY <1>6, <2>1
  <2>4. CASE ResetFrames
    BY <2>3, <2>4 DEF ResetFrames, SkipsInv, SkipsCounted
  <2>5. CASE UNCHANGED counters
    BY <1>1, <1>2, <2>3, <2>5 DEF SkipsCounted, counters
  <2>6. CASE \E n \in 0 .. 1 : skipped_frames' = skipped_frames + n /\ overflowed' = overflowed + n
    BY <1>1, <2>3, <2>6 DEF SkipsInv, SkipsCounted
  <2> QED BY <2>2, <2>4, <2>5, <2>6
<1> QED BY <1>3, <1>4, <1>5, <1>7, <1>8 DEF CacheNext, Graphics, VideoThread

LEMMA SkipsInit == CacheInit => SkipsInv
<1> SUFFICES ASSUME CacheInit PROVE SkipsInv
  OBVIOUS
<1>1. Inv /\ PendingIsSum
  BY InitInv, PendingSum
<1>2. \A s \in Slots : Skips[s] = 0
  BY DEF CacheInit, Skips
<1>3. \A i \in 1 .. CacheSize : SkipsOf[i] = 0
  BY <1>1, <1>2, CacheAssumption DEF PendingIsSum, Slots
<1> DEFINE T == {k \in 0 .. CacheSize : Sum(SkipsOf, k) = 0}
<1>4. 0 \in T
  BY SumZero, CacheAssumption
<1>5. \A i \in 1 .. CacheSize : i - 1 \in T => i \in T
  BY <1>3, SumStep, CacheAssumption
<1>6. CacheSize \in 0 .. CacheSize /\ CacheSize \in Nat
  BY CacheAssumption
<1> HIDE DEF T
<1>7. CacheSize \in T
  BY <1>4, <1>5, <1>6, IntervalInduction
<1>8. Pending = 0
  BY <1>1, <1>7 DEF T, PendingIsSum
<1> QED BY <1>8 DEF CacheInit, SkipsInv, SkipsCounted

(* video_output_lock_frame(), which drops frames, and                       *)
(* video_output_cur_frame(), which counts them as it shows the ticks they   *)
(* stood for, agree on their number for every cache size and interleaving,  *)
(* through every reset_frames().                                            *)
THEOREM SkipsCorrect == CacheSpec => []SkipsCounted
<1>1. SkipsInv => SkipsCounted
  BY DEF SkipsInv
<1>2. CacheInit => Inv /\ SkipsInv
  BY InitInv, SkipsInit
<1>3. Inv /\ SkipsInv /\ [CacheNext]_cacheVars => (Inv /\ SkipsInv)'
  BY NextInv, SkipsStep
<1> QED BY <1>1, <1>2, <1>3, PTL DEF CacheSpec


-----------------------------------------------------------------------------
(* What an input gets *)

LEMMA DivUnique ==
  ASSUME NEW d \in Nat \ {0}, NEW q \in Nat, NEW r \in 0 .. d - 1
  PROVE  (d * q + r) \div d = q /\ (d * q + r) % d = r
  OBVIOUS

(* Counting round a divisor: the remainder and the quotient rounded up *)
LEMMA DivNext ==
  ASSUME NEW n \in Nat, NEW d \in Nat \ {0}
  PROVE  /\ n % d \in 0 .. d - 1
         /\ ((n % d) + 1) % d = (n + 1) % d
         /\ (n + 1 + d - 1) \div d = ((n + d - 1) \div d) + (IF n % d = 0 THEN 1 ELSE 0)
<1> DEFINE q == n \div d
           r == n % d
           qq == q + 1
<1>1. q \in Nat /\ r \in 0 .. d - 1 /\ n = d * q + r
  OBVIOUS
<1>2. d * qq = d * q + d /\ qq \in Nat
  BY <1>1
<1> HIDE DEF q, r, qq
<1>3. 0 \in 0 .. d - 1 /\ d - 1 \in 0 .. d - 1
  OBVIOUS
<1>4. d * q \in Nat /\ (d * qq + 0) = d * qq
  BY <1>1, <1>2
<1>5. (r + 1) % d = (n + 1) % d
  <2>1. CASE r = d - 1
    <3>1. (d * qq + 0) % d = 0 /\ n + 1 = d * qq + 0
      BY <1>1, <1>2, <1>3, <1>4, <2>1, DivUnique
    <3>2. 1 \in Nat /\ (d * 1 + 0) % d = 0 /\ d * 1 + 0 = d
      BY <1>3, DivUnique
    <3> QED BY <3>1, <3>2, <2>1
  <2>2. CASE r # d - 1
    <3>1. r + 1 \in 0 .. d - 1 /\ n + 1 = d * q + (r + 1) /\ d * 0 + (r + 1) = r + 1
      BY <1>1, <1>4, <2>2
    <3>2. (d * q + (r + 1)) % d = r + 1 /\ (d * 0 + (r + 1)) % d = r + 1
      BY <1>1, <3>1, DivUnique
    <3> QED BY <3>1, <3>2
  <2> QED BY <2>1, <2>2
<1>6. (n + 1 + d - 1) \div d = ((n + d - 1) \div d) + (IF r = 0 THEN 1 ELSE 0)
  <2>1. n + 1 + d - 1 = d * qq + r
    BY <1>1, <1>2, <1>4
  <2>2. (d * qq + r) \div d = qq
    BY <1>1, <1>2, DivUnique
  <2>3. CASE r = 0
    <3>1. n + d - 1 = d * q + (d - 1)
      BY <1>1, <1>4, <2>3
    <3>2. (d * q + (d - 1)) \div d = q
      BY <1>1, <1>3, DivUnique
    <3> QED BY <2>1, <2>2, <2>3, <3>1, <3>2 DEF qq
  <2>4. CASE r # 0
    <3>1. r - 1 \in 0 .. d - 1 /\ n + d - 1 = d * qq + (r - 1)
      BY <1>1, <1>2, <1>4, <2>4
    <3>2. (d * qq + (r - 1)) \div d = qq
      BY <1>2, <3>1, DivUnique
    <3>3. (n + d - 1) \div d = qq /\ (n + 1 + d - 1) \div d = qq
      BY <2>1, <2>2, <3>1, <3>2
    <3> QED BY <1>2, <2>4, <3>3
  <2> QED BY <2>3, <2>4
<1> QED BY <1>1, <1>5, <1>6 DEF r

KeepNext(gone, kept, x) == IF x.enc \in gone THEN kept ELSE Append(kept, x)

IsKept(k, gone, s, m) ==
  k = [n \in 0 .. m |-> IF n = 0 THEN << >> ELSE KeepNext(gone, k[n - 1], s[n])]

(* What is left of a sequence of paced entries is one. *)
LEMMA WithoutType ==
  ASSUME NEW gone, NEW V, NEW s \in Seq(V)
  PROVE  Without(gone, s) \in Seq(V)
<1> DEFINE len == Len(s)
           T == {m \in 0 .. len : \E k : IsKept(k, gone, s, m)}
<1>1. len \in Nat
  OBVIOUS
<1>2. 0 \in T
  <2>1. IsKept([n \in 0 .. 0 |-> << >>], gone, s, 0)
    BY DEF IsKept
  <2> QED BY <1>1, <2>1
<1>3. ASSUME NEW m \in 1 .. len, m - 1 \in T
      PROVE  m \in T
  <2>1. PICK k : IsKept(k, gone, s, m - 1)
    BY <1>3
  <2> DEFINE last == KeepNext(gone, k[m - 1], s[m])
             h == [n \in 0 .. m |-> IF n = m THEN last ELSE k[n]]
  <2>2. \A n \in 0 .. m : n = m \/ n \in 0 .. m - 1
    OBVIOUS
  <2>3. \A n \in 0 .. m - 1 :
          /\ h[n] = k[n]
          /\ k[n] = IF n = 0 THEN << >> ELSE KeepNext(gone, k[n - 1], s[n])
    BY <2>1 DEF IsKept
  <2>4. h[m] = last /\ h[m - 1] = k[m - 1]
    BY <2>3
  <2> HIDE DEF h
  <2>5. h[m] = KeepNext(gone, h[m - 1], s[m])
    BY <2>4
  <2>6. \A n \in 1 .. m - 1 : h[n - 1] = k[n - 1]
    <3> TAKE n \in 1 .. m - 1
    <3>1. n - 1 \in 0 .. m - 1
      OBVIOUS
    <3> QED BY <3>1, <2>3
  <2>7. \A n \in 0 .. m :
          h[n] = IF n = 0 THEN << >> ELSE KeepNext(gone, h[n - 1], s[n])
    <3> TAKE n \in 0 .. m
    <3>1. CASE n = m
      BY <2>5, <3>1
    <3>2. CASE n = 0
      BY <2>3, <3>2
    <3>3. CASE n \in 1 .. m - 1
      BY <2>3, <2>6, <3>3
    <3> QED BY <3>1, <3>2, <3>3
  <2>8. h = [n \in 0 .. m |-> h[n]]
    BY DEF h
  <2>9. IsKept(h, gone, s, m)
    BY <2>7, <2>8 DEF IsKept
  <2> QED BY <2>9
<1> HIDE DEF T, len
<1>4. len \in T
  <2>1. \A m \in 0 .. len : m \in T
    BY <1>1, <1>2, <1>3, IntervalInduction
  <2> QED BY <1>1, <2>1
<1>5. PICK k : IsKept(k, gone, s, len) /\ Without(gone, s) = k[len]
  BY <1>4 DEF Without, T, len, IsKept, KeepNext
<1> DEFINE U == {m \in 0 .. len : k[m] \in Seq(V)}
<1>6. 0 \in U
  BY <1>1, <1>5 DEF IsKept
<1>7. ASSUME NEW m \in 1 .. len, m - 1 \in U
      PROVE  m \in U
  <2>1. k[m] = KeepNext(gone, k[m - 1], s[m])
    BY <1>1, <1>5 DEF IsKept
  <2>2. s[m] \in V
    BY DEF len
  <2>3. k[m - 1] \in Seq(V)
    BY <1>7
  <2>4. k[m] \in Seq(V)
    BY <2>1, <2>2, <2>3 DEF KeepNext
  <2> QED BY <2>4
<1> HIDE DEF U
<1>8. len \in U
  <2>1. \A m \in 0 .. len : m \in U
    BY <1>1, <1>6, <1>7, IntervalInduction
  <2> QED BY <1>1, <2>1
<1> QED BY <1>5, <1>8 DEF U

IsVisited(v, failing, m) ==
  v = [i \in 1 .. m |-> i = 1 \/ ~(v[i - 1] /\ Fails(i - 1, failing))]

(* The loop steps over an entry only because the one before it has gone. *)
LEMMA SteppedOver ==
  ASSUME NEW failing, Len(inputs) \in Nat,
         NEW i \in 1 .. Len(inputs), ~Visited(failing)[i]
  PROVE  i > 1 /\ Visited(failing)[i - 1] /\ Fails(i - 1, failing)
<1> DEFINE T == {m \in 0 .. Len(inputs) : \E v : IsVisited(v, failing, m)}
<1>2. 0 \in T
  <2>1. IsVisited([n \in 1 .. 0 |-> TRUE], failing, 0)
    BY DEF IsVisited
  <2> QED BY <2>1
<1>3. ASSUME NEW m \in 1 .. Len(inputs), m - 1 \in T
      PROVE  m \in T
  <2>1. PICK v : IsVisited(v, failing, m - 1)
    BY <1>3
  <2> DEFINE last == m = 1 \/ ~(v[m - 1] /\ Fails(m - 1, failing))
             h == [n \in 1 .. m |-> IF n = m THEN last ELSE v[n]]
  <2>3. \A n \in 1 .. m - 1 :
          h[n] = v[n] /\ v[n] = (n = 1 \/ ~(v[n - 1] /\ Fails(n - 1, failing)))
    BY <2>1 DEF IsVisited
  <2>4. h[m] = last /\ \A n \in 2 .. m : h[n - 1] = v[n - 1]
    <3>1. \A n \in 2 .. m : n - 1 \in 1 .. m - 1
      OBVIOUS
    <3> QED BY <3>1, <2>3
  <2> HIDE DEF h
  <2>5. h[m] = (m = 1 \/ ~(h[m - 1] /\ Fails(m - 1, failing)))
    <3>1. CASE m = 1
      BY <2>4, <3>1
    <3>2. CASE m \in 2 .. m
      BY <2>4, <3>2
    <3> QED BY <3>1, <3>2
  <2>6. \A n \in 1 .. m : h[n] = (n = 1 \/ ~(h[n - 1] /\ Fails(n - 1, failing)))
    <3> TAKE n \in 1 .. m
    <3>1. CASE n = m
      BY <2>5, <3>1
    <3>2. CASE n = 1
      BY <2>3, <2>5, <3>2
    <3>3. CASE n \in 2 .. m - 1
      <4>1. n \in 1 .. m - 1 /\ n \in 2 .. m
        BY <3>3
      <4> QED BY <2>3, <2>4, <4>1
    <3> QED BY <3>1, <3>2, <3>3
  <2>8. h = [n \in 1 .. m |-> h[n]]
    BY DEF h
  <2>9. IsVisited(h, failing, m)
    BY <2>6, <2>8 DEF IsVisited
  <2> QED BY <2>9
<1> HIDE DEF T
<1>4. Len(inputs) \in T
  <2>1. \A m \in 0 .. Len(inputs) : m \in T
    BY <1>2, <1>3, IntervalInduction
  <2> QED BY <2>1
<1>5. PICK v : IsVisited(v, failing, Len(inputs)) /\ Visited(failing) = v
  BY <1>4 DEF Visited, T, IsVisited
<1>6. v[i] = (i = 1 \/ ~(v[i - 1] /\ Fails(i - 1, failing)))
  BY <1>5 DEF IsVisited
<1>7. ~v[i]
  BY <1>5
<1>8. i # 1 /\ v[i - 1] /\ Fails(i - 1, failing)
  BY <1>6, <1>7
<1> QED BY <1>5, <1>8

Entries == [enc : Inputs, counter : Nat, age : Nat, given : Nat, errors : Nat]

PacedWith(x, lost) ==
  LET d == Divisor[x.enc]
  IN /\ lost <= x.age
     /\ x.given = (x.age - lost + d - 1) \div d
     /\ x.counter = (x.age - lost) % d

PacedEntries == {x \in Entries : \E lost \in 0 .. x.errors : PacedWith(x, lost)}

PaceInv == inputs \in Seq(PacedEntries)

(* One frame, for an entry *)
LEMMA PacedOn ==
  ASSUME NEW x \in PacedEntries, NEW visited, NEW failed \in Nat, visited \/ failed > 0
  PROVE  Counted(x, visited, failed) \in PacedEntries
<1> DEFINE d == Divisor[x.enc]
           y == Counted(x, visited, failed)
<1>1. /\ x \in Entries /\ d \in Nat \ {0} /\ x.age \in Nat /\ x.given \in Nat
      /\ x.counter \in Nat /\ x.errors \in Nat
  BY InputsAssumption DEF PacedEntries, Entries
<1>2. PICK lost \in 0 .. x.errors : PacedWith(x, lost)
  BY DEF PacedEntries
<1> DEFINE n == x.age - lost
<1>3. lost \in Nat /\ lost <= x.age /\ n \in Nat /\ x.given = (n + d - 1) \div d /\ x.counter = n % d
  BY <1>1, <1>2 DEF PacedWith
<1>4. /\ y.enc = x.enc /\ y.age = x.age + 1 /\ y.errors = x.errors + failed
      /\ y.counter = (IF visited THEN (x.counter + 1) % d ELSE x.counter)
      /\ y.given = x.given + (IF visited /\ x.counter = 0 THEN 1 ELSE 0)
  BY <1>1 DEF Counted, CountUp, Entries
<1>5. y.counter \in Nat /\ y.given \in Nat /\ y.errors \in Nat => y \in Entries
  <2> DEFINE a == IF visited THEN CountUp(x) ELSE x.counter
             g == x.given + (IF visited /\ x.counter = 0 THEN 1 ELSE 0)
             e == x.errors + failed
             z == [x EXCEPT !.counter = a, !.age = x.age + 1, !.given = g, !.errors = e]
  <2>1. y = z
    BY DEF Counted
  <2> HIDE DEF a, g, e
  <2>2. z.counter = a /\ z.given = g /\ z.errors = e
    BY <1>1 DEF Entries
  <2>3. ASSUME a \in Nat, g \in Nat, e \in Nat
        PROVE  z \in Entries
    <3>1. x \in [enc : Inputs, counter : Nat, age : Nat, given : Nat, errors : Nat]
      BY <1>1 DEF Entries
    <3> DEFINE old == x.age + 1
    <3>2. old \in Nat /\ z = [x EXCEPT !.counter = a, !.age = old, !.given = g, !.errors = e]
      BY <1>1
    <3> HIDE DEF old, z
    <3>3. z \in [enc : Inputs, counter : Nat, age : Nat, given : Nat, errors : Nat]
      BY <2>3, <3>1, <3>2
    <3> QED BY <3>3 DEF Entries
  <2> HIDE DEF y, z
  <2> QED BY <2>1, <2>2, <2>3
<1> HIDE DEF d, y, n
<1>6. CASE visited
  <2>1. /\ n % d \in 0 .. d - 1 /\ ((n % d) + 1) % d = (n + 1) % d
        /\ (n + 1 + d - 1) \div d = ((n + d - 1) \div d) + (IF n % d = 0 THEN 1 ELSE 0)
        /\ (n + 1) % d \in 0 .. d - 1
    <3>1. n + 1 \in Nat
      BY <1>3
    <3> QED BY <1>1, <1>3, <3>1, DivNext
  <2>2. y.age - lost = n + 1 /\ lost <= y.age /\ lost \in 0 .. y.errors
    BY <1>1, <1>3, <1>4 DEF n
  <2>3. y.given = (n + 1 + d - 1) \div d /\ y.counter = (n + 1) % d
    BY <1>3, <1>4, <1>6, <2>1
  <2>4. PacedWith(y, lost)
    BY <1>4, <2>2, <2>3 DEF PacedWith, d
  <2>5. y \in Entries
    <3>1. y.counter \in Nat
      BY <1>1, <2>1, <2>3
    <3>2. y.given \in Nat /\ y.errors \in Nat
      BY <1>1, <1>4
    <3> QED BY <1>5, <3>1, <3>2
  <2> QED BY <2>2, <2>4, <2>5 DEF PacedEntries, y
<1>7. CASE ~visited
  <2> DEFINE more == lost + 1
  <2>1. y.age - more = n /\ more <= y.age /\ more \in 0 .. y.errors
    BY <1>1, <1>2, <1>3, <1>4, <1>7 DEF n
  <2>2. y.given = (n + d - 1) \div d /\ y.counter = n % d
    BY <1>1, <1>3, <1>4, <1>7
  <2> HIDE DEF more
  <2>3. PacedWith(y, more)
    BY <1>4, <2>1, <2>2 DEF PacedWith, d
  <2>4. y \in Entries
    <3>1. y.counter \in Nat /\ y.given \in Nat /\ y.errors \in Nat
      BY <1>1, <1>4, <1>7
    <3> QED BY <1>5, <3>1
  <2> QED BY <2>1, <2>3, <2>4 DEF PacedEntries, y
<1> QED BY <1>6, <1>7

(* One frame, for all of them *)
LEMMA PacedShow ==
  ASSUME PaceInv, NEW failing, ShowInputs(failing)
  PROVE  PaceInv'
<1> DEFINE visited == Visited(failing)
           left == {j \in DOMAIN inputs : visited[j] /\ Fails(j, failing)}
           gone == {inputs[i].enc : i \in left}
           counted == [i \in DOMAIN inputs |-> Counted(inputs[i], visited[i], Cardinality(gone))]
<1>1. Len(inputs) \in Nat /\ DOMAIN inputs = 1 .. Len(inputs)
  BY DEF PaceInv
<1>2. \A i \in 1 .. Len(inputs) : inputs[i] \in PacedEntries
  BY DEF PaceInv
<1>3. IsFiniteSet(gone)
  <2>1. IsFiniteSet(1 .. Len(inputs)) /\ left \subseteq 1 .. Len(inputs)
    BY <1>1, FS_Interval
  <2>2. IsFiniteSet(left)
    BY <2>1, FS_Subset
  <2> DEFINE f == [i \in left |-> inputs[i].enc]
  <2>3. f \in Surjection(left, gone)
    BY DEF Surjection
  <2> HIDE DEF f, gone, left
  <2> QED BY <2>2, <2>3, FS_Surjection
<1>4. Cardinality(gone) \in Nat
  BY <1>3, FS_CardinalityType
<1>5. \A i \in 1 .. Len(inputs) : visited[i] \/ Cardinality(gone) > 0
  <2> SUFFICES ASSUME NEW i \in 1 .. Len(inputs), ~visited[i]
               PROVE  Cardinality(gone) > 0
    OBVIOUS
  <2>1. i - 1 \in left
    <3>1. i > 1 /\ visited[i - 1] /\ Fails(i - 1, failing)
      BY <1>1, SteppedOver
    <3> HIDE DEF visited
    <3> QED BY <1>1, <3>1
  <2>2. gone # {}
    BY <2>1
  <2> HIDE DEF gone
  <2> QED BY <1>3, <1>4, <2>2, FS_EmptySet
<1>6. inputs' = Without(gone, counted)
  BY DEF ShowInputs
<1> HIDE DEF gone, visited
<1>7. \A i \in 1 .. Len(inputs) : counted[i] \in PacedEntries
  <2> TAKE i \in 1 .. Len(inputs)
  <2>1. Counted(inputs[i], visited[i], Cardinality(gone)) \in PacedEntries
    BY <1>2, <1>4, <1>5, PacedOn
  <2> QED BY <1>1, <2>1
<1>8. counted \in Seq(PacedEntries)
  <2>1. counted = [i \in 1 .. Len(inputs) |-> counted[i]]
    BY <1>1
  <2> HIDE DEF counted
  <2> QED BY <1>1, <1>7, <2>1
<1> HIDE DEF counted
<1>9. inputs' \in Seq(PacedEntries)
  BY <1>6, <1>8, WithoutType
<1> QED BY <1>9 DEF PaceInv

LEMMA PacedConnect ==
  ASSUME PaceInv, NEW e \in Inputs, Connect(e)
  PROVE  PaceInv'
<1> DEFINE x == [enc |-> e, counter |-> 0, age |-> 0, given |-> 0, errors |-> 0]
           d == Divisor[e]
<1>1. inputs' = Append(inputs, x)
  BY DEF Connect
<1>2. d \in Nat \ {0} /\ d - 1 \in 0 .. d - 1 /\ 0 \in 0 .. d - 1
  BY InputsAssumption
<1>3. (d * 0 + (d - 1)) \div d = 0 /\ (d * 0 + 0) % d = 0
  <2> HIDE DEF d
  <2>1. 0 \in Nat
    OBVIOUS
  <2> QED BY <1>2, <2>1, DivUnique
<1>4. (x.age - 0 + d - 1) \div d = 0 /\ (x.age - 0) % d = 0
  <2>1. d * 0 + (d - 1) = 0 - 0 + d - 1 /\ d * 0 + 0 = 0 - 0
    BY <1>2
  <2> QED BY <1>3, <2>1
<1>5. PacedWith(x, 0)
  BY <1>4 DEF PacedWith
<1>6. x \in PacedEntries
  BY <1>5 DEF PacedEntries, Entries
<1> HIDE DEF x
<1> QED BY <1>1, <1>6 DEF PaceInv

LEMMA PacedDisconnect ==
  ASSUME PaceInv, NEW e \in Inputs, Disconnect(e)
  PROVE  PaceInv'
<1>1. inputs' = Without({e}, inputs)
  BY DEF Disconnect
<1> QED BY <1>1, WithoutType DEF PaceInv

LEMMA PaceStep == PaceInv /\ [CacheNext]_cacheVars => PaceInv'
<1> SUFFICES ASSUME PaceInv, [CacheNext]_cacheVars PROVE PaceInv'
  OBVIOUS
<1>1. CASE ShowFrame
  BY <1>1, PacedShow DEF ShowFrame
<1>2. ASSUME NEW e \in Inputs, Connect(e) \/ Disconnect(e)
      PROVE  PaceInv'
  BY <1>2, PacedConnect, PacedDisconnect
<1>3. CASE Wake \/ EndFrame \/ LeaveFrame
  BY <1>3 DEF Wake, EndFrame, LeaveFrame, connections, PaceInv
<1>4. CASE Graphics \/ UNCHANGED cacheVars
  BY <1>4 DEF Graphics, LockFrame, UnlockFrame, cacheVars, connections, PaceInv
<1>5. CASE StopOutput \/ IncTextureEncoders \/ DecTextureEncoders
           \/ \E n \in 0 .. 1 : CountTextureSkips(n)
  BY <1>5 DEF StopOutput, IncTextureEncoders, DecTextureEncoders, CountTextureSkips, connections,
              PaceInv
<1> QED BY <1>1, <1>2, <1>3, <1>4, <1>5 DEF CacheNext, VideoThread, Users

LEMMA PaceMeans == PaceInv => InputsKeepPace
<1> SUFFICES ASSUME PaceInv, NEW i \in DOMAIN inputs
             PROVE  \E lost \in 0 .. inputs[i].errors : PacedWith(inputs[i], lost)
  BY DEF InputsKeepPace, PacedWith
<1>1. inputs[i] \in PacedEntries
  BY DEF PaceInv
<1> QED BY <1>1 DEF PacedEntries

(* Every input gets each Divisor-th tick from its first on, and loses at    *)
(* most one for each other encoder that failed in its time, whatever else  *)
(* connects, disconnects or fails.                                         *)
THEOREM PaceKept == CacheSpec => []InputsKeepPace
<1>1. CacheInit => PaceInv
  BY DEF CacheInit, PaceInv
<1> QED BY <1>1, PaceStep, PaceMeans, PTL DEF CacheSpec

=============================================================================
