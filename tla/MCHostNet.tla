----------------------------- MODULE MCHostNet -----------------------------
(* Two controllers; channels of one message throughout, so that each of them *)
(* fills; more commands than the channel to the server holds, so that server *)
(* and UI may wait for each other.                                           *)
EXTENDS HostNet
CONSTANTS c1, c2
MCControllers == {c1, c2}
MCSymmetry == Permutations(MCControllers)
=============================================================================
