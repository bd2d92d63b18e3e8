---------------------------- MODULE MCPeerContact ----------------------------
(* Three boards, a list of two: lists that overflow, peers that go stale and *)
(* come back.  A unit of time is about 150 ms for the pauses of the contact  *)
(* loop; the ages and the pauses between scans are shortened so that peers   *)
(* go stale within the horizon.                                              *)
EXTENDS PeerContact, TLC
CONSTANTS a, b, c
MCPeers == {a, b, c}
MCIntervals == {1, 3}
MCSeqs == {1}
MCSymmetry == Permutations(MCPeers)
=============================================================================
