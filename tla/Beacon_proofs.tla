--------------------------- MODULE Beacon_proofs ---------------------------
(* The safety of the beacon, for any addresses and rates: its invariants are *)
(* inductive as they stand, the second relative to the first.                *)
EXTENDS Beacon, TLAPS

LEMMA InitTypeOK == Init => TypeOK
<1> SUFFICES ASSUME Init PROVE TypeOK
  OBVIOUS
<1>1. rate \in Nat \ {0}
  BY DEF Init, DefaultRate
<1>2. should \in BOOLEAN /\ config \in BOOLEAN
  BY DEF Init
<1> QED
  BY <1>1, <1>2 DEF Init, TypeOK

LEMMA StepTypeOK == TypeOK /\ [Next]_vars => TypeOK'
<1> SUFFICES ASSUME TypeOK, [Next]_vars PROVE TypeOK'
  OBVIOUS
<1> USE DEF TypeOK, taskVars, beaconVars, driverVars, Sleeps, DropsSocket
<1>1. CASE RoundOff \/ RoundWithoutIp \/ RoundJoins \/ RoundJoinFails \/ RoundWaitsForIp
  BY <1>1 DEF RoundOff, RoundWithoutIp, RoundJoins, RoundJoinFails,
             RoundWaitsForIp, SetsConfig
<1>2. CASE RoundLooks
  BY <1>2 DEF RoundLooks
<1>3. CASE Binds \/ BindFails
  BY <1>3 DEF Binds, BindFails, Bound
<1>4. CASE Sends \/ SendOutOfMemory \/ SendFails
  BY <1>4 DEF Sends, SendOutOfMemory, SendFails
<1>5. CASE BeaconOff
  <2>1. rate' \in Nat \ {0}
    BY <1>5 DEF BeaconOff, DefaultRate
  <2>2. should' \in BOOLEAN /\ config' \in BOOLEAN
    BY <1>5 DEF BeaconOff, Disconnect, SetsConfig
  <2>3. station' \in {"idle", "connecting", "joined"} /\ address' \in Addresses \cup {None}
    BY <1>5 DEF BeaconOff, Disconnect, SetsConfig
  <2> QED
    BY <1>5, <2>1, <2>2, <2>3 DEF BeaconOff
<1>6. ASSUME NEW r \in Rates, BeaconOn(r) PROVE TypeOK'
  <2>1. RateFor(r) \in Nat \ {0}
    BY RatesAreIntegers DEF RateFor, DefaultRate
  <2> QED
    BY <1>6, <2>1, Zenon DEF BeaconOn
<1>7. CASE Driver
  BY <1>7 DEF Driver, Reconnects, Joins, JoinFails, Leaves, Assigns
<1>8. CASE UNCHANGED vars
  BY <1>8 DEF vars
<1> QED
  BY <1>1, <1>2, <1>3, <1>4, <1>5, <1>6, <1>7, <1>8 DEF Next, Rounds, Commands

(* The state keeps its shape; the pause is always a positive number          *)
(* (espnow.rs:289, 301-305).                                                 *)
THEOREM TypeCorrect == Spec => []TypeOK
BY InitTypeOK, StepTypeOK, PTL DEF Spec

LEMMA StepBound ==
  TypeOK /\ BoundToStation /\ [Next]_vars => BoundToStation'
<1> SUFFICES ASSUME TypeOK, BoundToStation, [Next]_vars PROVE BoundToStation'
  OBVIOUS
<1> USE DEF BoundToStation, taskVars, beaconVars, driverVars, Sleeps, DropsSocket
<1>1. CASE RoundOff \/ RoundWithoutIp \/ RoundJoins \/ RoundJoinFails \/ RoundWaitsForIp
  BY <1>1 DEF RoundOff, RoundWithoutIp, RoundJoins, RoundJoinFails, RoundWaitsForIp
<1>2. CASE RoundLooks
  <2>1. CASE Rebinds(address)
    BY <1>2, <2>1 DEF RoundLooks
  <2>2. CASE ~Rebinds(address)
    BY <1>2, <2>2 DEF RoundLooks, Rebinds
  <2> QED
    BY <2>1, <2>2
<1>3. CASE Binds \/ BindFails
  BY <1>3 DEF Binds, BindFails, Bound
<1>4. CASE Sends \/ SendOutOfMemory \/ SendFails
  BY <1>4 DEF Sends, SendOutOfMemory, SendFails
<1>5. CASE Commands
  BY <1>5 DEF Commands, BeaconOff, BeaconOn
<1>6. CASE Driver
  BY <1>6 DEF Driver, Reconnects, Joins, JoinFails, Leaves, Assigns
<1>7. CASE UNCHANGED vars
  BY <1>7 DEF vars
<1> QED
  BY <1>1, <1>2, <1>3, <1>4, <1>5, <1>6, <1>7 DEF Next, Rounds

(* The socket a round sends from is bound to the address it found            *)
(* (espnow.rs:223-263).                                                      *)
THEOREM BeaconBound == Spec => []BoundToStation
<1>1. Init => BoundToStation
  BY DEF Init, BoundToStation
<1> QED
  BY <1>1, TypeCorrect, StepBound, PTL DEF Spec
=============================================================================
