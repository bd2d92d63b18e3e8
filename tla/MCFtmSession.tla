---------------------------- MODULE MCFtmSession ----------------------------
(* Two peers and a stranger; exchanges of no burst and of one burst (room    *)
(* for 0 and 2 frames); a CSI channel of 2 so that both it and the buffer    *)
(* overflow within 3 frames.                                                 *)
EXTENDS FtmSession
CONSTANTS p1, p2, s1
MCPeers == {p1, p2}
MCStrangers == {s1}
MCBurstCounts == {0, 1}
=============================================================================
