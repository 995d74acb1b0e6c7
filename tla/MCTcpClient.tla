---------------------------- MODULE MCTcpClient -----------------------------
(* Instances of TcpClient for TLC; the configuration sets the constants. *)
EXTENDS TcpClient
=============================================================================
