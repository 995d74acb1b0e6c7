----------------------------- MODULE MCFraming ------------------------------
(* Instances of Framing for TLC; the configurations set the constants. *)
EXTENDS Framing
=============================================================================
