---------------------------- MODULE MCPeerScript ----------------------------
(* A small instance of PeerScript for TLC. *)
EXTENDS PeerScript, TLC
=============================================================================
