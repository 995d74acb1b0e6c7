----------------------------- MODULE MCStcpConn -----------------------------
(* Instances of StcpConn for TLC; the configurations set the constants. *)
EXTENDS StcpConn
=============================================================================
