--------------------------- MODULE MCPeerIdentity ----------------------------
(* PeerIdentity for TLC: keys of both kinds, the cfg names them.           *)
EXTENDS PeerIdentity
=============================================================================
