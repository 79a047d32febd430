-------------------------- MODULE MCPeerConnection --------------------------
(***************************************************************************)
(* Small instances of PeerConnection for TLC.                              *)
(***************************************************************************)
EXTENDS PeerConnection
=============================================================================
