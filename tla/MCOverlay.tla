----------------------------- MODULE MCOverlay ------------------------------
(* Instances of Overlay for TLC; node IDs are the ends of the host names   *)
(* in topology.dat.                                                        *)
EXTENDS Overlay

(* Hosts 1, 3 and 4, without the last link of the file. *)
Chain == <<<<3, 4>>, <<1, 3>>>>
=============================================================================
