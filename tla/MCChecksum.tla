----------------------------- MODULE MCChecksum -----------------------------
(* Instances of Checksum for TLC; the configuration sets the constants. *)
EXTENDS Checksum
=============================================================================
