----------------------------- MODULE MCVideoMix -----------------------------
(***************************************************************************)
(* The instance of VideoMix that TLC checks: the second encoder of each    *)
(* kind runs at half the frame rate.                                       *)
(***************************************************************************)
EXTENDS VideoMix

CONSTANTS r1, r2, g1, g2

MCDivisor == [e \in Inputs |-> IF e = r2 THEN 2 ELSE 1]
MCGpuDivisor == [e \in Encoders |-> IF e = g2 THEN 2 ELSE 1]
=============================================================================
