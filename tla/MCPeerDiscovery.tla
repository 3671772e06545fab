-------------------------- MODULE MCPeerDiscovery --------------------------
(* A small instance of PeerDiscovery: peers and drives by name. *)
EXTENDS PeerDiscovery

CONSTANTS p1, p2, d1, d2
=============================================================================
