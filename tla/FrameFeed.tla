----------------------------- MODULE FrameFeed -----------------------------
(***************************************************************************)
(* What the frame cache of libobs/media-io/video-io.c promises to its      *)
(* inputs, the raw outputs and encoders of a video mix: every tick the     *)
(* graphics thread has composed is shown exactly once, and ticks are shown *)
(* in their order, however far the encoders are behind.                    *)
(*                                                                         *)
(* A tick is the time of a frame in frame intervals.  There may be a gap   *)
(* between two calls of Compose: nothing is composed while no input is     *)
(* connected.                                                              *)
(***************************************************************************)
EXTENDS Naturals

VARIABLES pending,   \* ticks composed and not shown yet
          shown      \* the last tick shown, 0 before the first

vars == <<pending, shown>>

Init == pending = {} /\ shown = 0

(* Consecutive ticks, later than all before them *)
Compose ==
  \E first, last \in pending' \ pending :
    /\ first > shown /\ \A t \in pending : first > t
    /\ pending' = pending \cup first .. last
    /\ shown' = shown

Show ==
  \E t \in pending :
    /\ \A u \in pending : t <= u
    /\ pending' = pending \ {t}
    /\ shown' = t

Next == Compose \/ Show

Spec == Init /\ [][Next]_vars
=============================================================================
