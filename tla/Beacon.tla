------------------------------- MODULE Beacon -------------------------------
(* The UDP beacon: beacon_task and the console's "beacon" command            *)
(* (firmware/src/espnow.rs) over a station that joins an access point, gets  *)
(* an address, changes and loses it (firmware/src/wifi.rs).                  *)
(*                                                                           *)
(* The task and the console share the executor: a command runs only while    *)
(* the task sleeps.  The driver's threads move the station at any time, also *)
(* between a round's look at the address, its bind and its send, which are   *)
(* actions of their own.  How long the task sleeps is left out.              *)
EXTENDS Integers

CONSTANTS Addresses,  \* what DHCP may assign
          None,       \* absence of an address or a socket
          Rates       \* arguments of the "beacon" command

ASSUME NoneIsNoAddress == None \notin Addresses
ASSUME RatesAreIntegers == Rates \subseteq Int

VARIABLES should,     \* BEACON_STATE.should_beacon
          rate,       \* BEACON_STATE.beacon_rate_ms
          task,       \* what beacon_task does next
          socket,     \* the address its socket is bound to
          boundIp,    \* bound_ip
          seen,       \* sta_ip: the address it found in this round
          config,     \* driver: the network to join is set
          station,    \* driver: "idle", "connecting" or "joined"
          address     \* driver: the station's address

beaconVars == <<should, rate>>
taskVars == <<task, socket, boundIp, seen>>
driverVars == <<config, station, address>>
vars == <<beaconVars, taskVars, driverVars>>

DefaultRate == 200

-----------------------------------------------------------------------------
(* beacon_task *)

Sleeps == task' = "sleep" /\ seen' = None

DropsSocket == socket' = None /\ boundIp' = None

RoundOff ==
  /\ task = "sleep" /\ ~should
  /\ Sleeps
  /\ DropsSocket
  /\ UNCHANGED <<beaconVars, driverVars>>

(* sta_get_ip, with an address; a socket bound to another one is dropped. *)
Rebinds_BugOnlyWithout(ip) == boundIp = None

Rebinds(ip) == boundIp # ip

RoundLooks ==
  /\ task = "sleep" /\ should /\ address # None
  /\ seen' = address
  /\ IF Rebinds(address)
     THEN DropsSocket /\ task' = "bind"
     ELSE UNCHANGED <<socket, boundIp>> /\ task' = IF socket = None THEN "bind" ELSE "send"
  /\ UNCHANGED <<beaconVars, driverVars>>

(* sta_get_ip, without one. *)
RoundWithoutIp ==
  /\ task = "sleep" /\ should /\ address = None
  /\ task' = "join" /\ seen' = None
  /\ DropsSocket
  /\ UNCHANGED <<beaconVars, driverVars>>

Unjoined_BugInverted == station = "joined"

(* is_sta_connected() is false. *)
Unjoined == station # "joined"

(* esp_wifi_set_config, whose result is ignored: it may fail. *)
SetsConfig(new) == config' \in {new, config}

(* try_connect; esp_wifi_connect needs a network to join. *)
RoundJoins ==
  /\ task = "join" /\ Unjoined
  /\ SetsConfig(TRUE) /\ config' = TRUE
  /\ station' = "connecting"
  /\ Sleeps
  /\ UNCHANGED <<beaconVars, socket, boundIp, address>>

(* esp_wifi_connect fails. *)
RoundJoinFails ==
  /\ task = "join" /\ Unjoined
  /\ SetsConfig(TRUE)
  /\ Sleeps
  /\ UNCHANGED <<beaconVars, socket, boundIp, station, address>>

RoundWaitsForIp ==
  /\ task = "join" /\ ~Unjoined
  /\ Sleeps
  /\ UNCHANGED <<beaconVars, driverVars, socket, boundIp>>

Bound_BugForgets(ip) == socket' = ip /\ UNCHANGED boundIp

Bound(ip) == socket' = ip /\ boundIp' = ip

Binds ==
  /\ task = "bind"
  /\ Bound(seen)
  /\ task' = "send"
  /\ UNCHANGED <<beaconVars, driverVars, seen>>

BindFails ==
  /\ task = "bind"
  /\ Sleeps
  /\ UNCHANGED <<beaconVars, driverVars, socket, boundIp>>

(* Only a socket bound to the station's address can send. *)
Sends ==
  /\ task = "send" /\ socket = address
  /\ Sleeps
  /\ UNCHANGED <<beaconVars, driverVars, socket, boundIp>>

(* ENOMEM: the socket is kept. *)
SendOutOfMemory ==
  /\ task = "send"
  /\ Sleeps
  /\ UNCHANGED <<beaconVars, driverVars, socket, boundIp>>

SendFails ==
  /\ task = "send"
  /\ Sleeps
  /\ DropsSocket
  /\ UNCHANGED <<beaconVars, driverVars>>

-----------------------------------------------------------------------------
(* set_beacon *)

RateFor_BugAnyNumber(r) == r

RateFor(r) == IF r > 0 THEN r ELSE DefaultRate

BeaconOn(r) ==
  /\ task = "sleep" /\ r # 0
  /\ should' = TRUE /\ rate' = RateFor(r)
  /\ UNCHANGED <<taskVars, driverVars>>

(* disconnect: the station leaves or the call fails, the network is cleared  *)
(* or that call fails, each whatever the other does.                         *)
Disconnect ==
  /\ \/ station' = "idle" /\ address' = None
     \/ UNCHANGED <<station, address>>
  /\ SetsConfig(FALSE)

BeaconOff_BugKeepsFlag ==
  /\ task = "sleep" /\ 0 \in Rates
  /\ rate' = DefaultRate /\ UNCHANGED should
  /\ Disconnect
  /\ UNCHANGED taskVars

BeaconOff ==
  /\ task = "sleep" /\ 0 \in Rates
  /\ should' = FALSE /\ rate' = DefaultRate
  /\ Disconnect
  /\ UNCHANGED taskVars

-----------------------------------------------------------------------------
(* The driver *)

(* While a network is set, the driver may join it by itself (wifi.rs:379).   *)
Reconnects ==
  /\ station = "idle" /\ config
  /\ station' = "connecting"
  /\ UNCHANGED <<beaconVars, taskVars, config, address>>

Joins ==
  /\ station = "connecting"
  /\ station' = "joined"
  /\ UNCHANGED <<beaconVars, taskVars, config, address>>

JoinFails ==
  /\ station = "connecting"
  /\ station' = "idle"
  /\ UNCHANGED <<beaconVars, taskVars, config, address>>

(* DHCP assigns an address or renews it, perhaps with another one. *)
Assigns(ip) ==
  /\ station = "joined"
  /\ address # ip /\ address' = ip
  /\ UNCHANGED <<beaconVars, taskVars, config, station>>

Leaves ==
  /\ station = "joined"
  /\ station' = "idle" /\ address' = None
  /\ UNCHANGED <<beaconVars, taskVars, config>>

Init ==
  /\ should = FALSE /\ rate = DefaultRate
  /\ task = "sleep" /\ socket = None /\ boundIp = None /\ seen = None
  /\ config = FALSE /\ station = "idle" /\ address = None

Rounds ==
  \/ RoundOff \/ RoundLooks \/ RoundWithoutIp
  \/ RoundJoins \/ RoundJoinFails \/ RoundWaitsForIp
  \/ Binds \/ BindFails \/ Sends \/ SendOutOfMemory \/ SendFails
Commands == BeaconOff \/ \E r \in Rates : BeaconOn(r)
Driver ==
  Reconnects \/ Joins \/ JoinFails \/ Leaves \/ \E ip \in Addresses : Assigns(ip)

Next == Rounds \/ Commands \/ Driver

(* The executor goes on with the rounds, and no failure of the network stack *)
(* is for ever: a connect, bind or send that is tried again and again        *)
(* succeeds in the end.                                                      *)
Fairness == WF_vars(Rounds) /\ SF_vars(RoundJoins) /\ SF_vars(Binds) /\ SF_vars(Sends)

Spec == Init /\ [][Next]_vars /\ Fairness

-----------------------------------------------------------------------------
(* The shape of the state; the pause between beacons is a positive number of *)
(* milliseconds, or its conversion would panic (espnow.rs:289).              *)
TypeOK ==
  /\ should \in BOOLEAN /\ rate \in Nat \ {0}
  /\ task \in {"sleep", "join", "bind", "send"}
  /\ socket \in Addresses \cup {None} /\ boundIp \in Addresses \cup {None}
  /\ seen \in Addresses \cup {None}
  /\ config \in BOOLEAN /\ station \in {"idle", "connecting", "joined"}
  /\ address \in Addresses \cup {None}

(* Whatever addresses came and went and whichever sends failed, the socket a *)
(* round sends from is bound to the address that round found, and the task   *)
(* knows which one that is (espnow.rs:223-263).                              *)
BoundToStation ==
  /\ task = "send" => socket = seen
  /\ socket = boundIp

(* A board that should beacon does not settle without a network: it tries to *)
(* join again and again (espnow.rs:228-240, wifi.rs:329-367).                *)
KeepsTrying == <>[]should => []<>(station # "idle")

(* Once its address stays the same, a board that should beacon does so for   *)
(* ever, whatever state its socket was in (espnow.rs:242-290).               *)
BeaconsResume ==
  \A ip \in Addresses :
    <>[](should /\ station = "joined" /\ address = ip) => []<><<Sends>>_vars
=============================================================================
