----------------------------- MODULE MCGoBackN ------------------------------
(***************************************************************************)
(* Instances of GoBackN for TLC.  Seven bytes in segments of two make four *)
(* segments, the last one short: one more than a window of three holds, so *)
(* rounds go back, new segments wait for room, and a read of three bytes   *)
(* ends inside a segment.                                                  *)
(***************************************************************************)
EXTENDS GoBackN

Up == {"up"}
=============================================================================
