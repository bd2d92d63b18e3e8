------------------------------ MODULE MCFtmLink ------------------------------
(* Two reports out of eight, or a stray frame: without entries, without CSI, *)
(* with one entry, with a frame for each of three entries, with frames that  *)
(* miss or sit at the edge, that compete for an entry, with an empty frame   *)
(* behind a good one and with one too short to range with.                   *)
EXTENDS FtmLink
Frame(t, p) == [ts |-> t, payload |-> p, ht40 |-> p # Empty]
Short(t, p) == [ts |-> t, payload |-> p, ht40 |-> FALSE]
Report(es, fs, w) == [entries |-> es, frames |-> fs, ranged |-> w]
MCReports ==
  {Report(<<>>,          <<Frame(0, 1)>>, TRUE),
   Report(<<0, 10>>,     <<>>, FALSE),
   Report(<<0>>,         <<Frame(0, 1)>>, FALSE),
   Report(<<0, 10, 20>>, <<Frame(0, 1), Frame(11, 2), Short(20, 3)>>, TRUE),
   Report(<<0, 10>>,     <<Frame(8, 1), Frame(12, 2)>>, TRUE),
   Report(<<0, 10, 11>>, <<Frame(10, 1), Frame(11, 2)>>, TRUE),
   Report(<<0, 10>>,     <<Frame(10, 1), Frame(10, Empty)>>, FALSE)}
MCStrays == {Frame(5, 4)}
=============================================================================
