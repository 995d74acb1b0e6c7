---------------------------- MODULE MCSendBuffer ----------------------------
(***************************************************************************)
(* Instances of SendBuffer for TLC: the last segment of each call.  A call *)
(* of three segments is longer than a window of two; two segments are the  *)
(* least for a later call to meet acks and timers of an earlier one in     *)
(* the middle of its loop.                                                 *)
(***************************************************************************)
EXTENDS SendBuffer

TwoCalls == <<1, 3>>
ThreeCalls == <<3, 5, 6>>
=============================================================================
