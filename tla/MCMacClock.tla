----------------------------- MODULE MCMacClock -----------------------------
(* A clock that wraps every five ticks, read by two threads. *)
EXTENDS MacClock, TLC
CONSTANTS executor, wifi
MCThreads == {executor, wifi}
MCDelays == 1..4
MCSymmetry == Permutations(MCThreads)
=============================================================================
