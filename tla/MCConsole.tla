------------------------------ MODULE MCConsole ------------------------------
(* Three lines, one of which may be garbled in either piece or both: plain   *)
(* settings, values two of the tests refuse, and the beacon's three rates.   *)
(* Two addresses, so that a renewal may change the address under a socket.   *)
EXTENDS Console
CONSTANTS ip1, ip2
MCAddresses == {ip1, ip2}
MCRates == {-1, 0, 1}
Command(name, arg) == [name |-> name, arg |-> arg, bw |-> 0]
Channel(ch, bw) == [name |-> "channel", arg |-> ch, bw |-> bw]
MCCommandLines ==
  {Command("beacon", r) : r \in MCRates}
    \cup {Command("interval", 100), Command("interval", 0), Command("mute", 0),
          Command("burst", 25), Channel(11, 20)}
=============================================================================
