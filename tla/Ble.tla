---------------------------------- MODULE Ble ----------------------------------
(***************************************************************************)
(* BLE profiles and advertising: src/app/src/ble.c.  The Bluetooth stack   *)
(* (connections, pairing, what is on the air) is external.                 *)
(***************************************************************************)
EXTENDS Naturals, FiniteSets

CONSTANTS
  Profiles,  \* ZMK_BLE_PROFILE_COUNT of them, from 0
  Hosts,
  Nobody     \* BT_ADDR_LE_ANY: the profile is open

ASSUME BleAssumption == 0 \in Profiles /\ IsFiniteSet(Profiles) /\ Nobody \notin Hosts

VARIABLES
  ble,    \* profiles[].peer, active_profile, advertising_status, ble_started; of the
          \* stack, the connections and those whose pairing was accepted
  works   \* work items of the system work queue that are submitted or scheduled

BleStates == [bond : [Profiles -> Hosts \cup {Nobody}], active : Profiles, adv : BOOLEAN,
              up : BOOLEAN, linked : SUBSET Hosts, pairing : SUBSET Hosts]

IsOpen(b) == b.bond[b.active] = Nobody
ActiveConnected(b) == b.bond[b.active] \in b.linked
IsActiveProfile(b, h) == b.bond[b.active] = h

\* update_advertising
UpdateAdvertising(b) == IF b.up THEN [b EXCEPT !.adv = ~ActiveConnected(b)] ELSE b

\* zmk_ble_prof_select of another profile
ProfSelect(b, i) == UpdateAdvertising([b EXCEPT !.active = i])

\* zmk_ble_stop, with the connections gone, or when bt_disable fails
BleStop(b) == [b EXCEPT !.adv = FALSE, !.up = FALSE, !.linked = {}, !.pairing = {}]
BleStopFails(b) == UpdateAdvertising([b EXCEPT !.adv = FALSE])
\* zmk_ble_start, zmk_ble_ready
BleStart(b) == IF b.up THEN b ELSE UpdateAdvertising([b EXCEPT !.up = TRUE])

\* The work that reports a change of the connection of host h
IfActive(h) == IF IsActiveProfile(ble, h) THEN {"profile"} ELSE {}
-----------------------------------------------------------------------------
(* Callbacks of the stack *)

\* connected, of a host that heard the advertising
Connected(h) ==
  /\ ble.up /\ ble.adv /\ h \notin ble.linked
  /\ ble' = UpdateAdvertising([ble EXCEPT !.linked = @ \cup {h}, !.adv = FALSE])
  /\ works' = works \cup IfActive(h)

\* disconnected
Disconnected(h) ==
  /\ h \in ble.linked
  /\ ble' = [ble EXCEPT !.linked = @ \ {h}, !.pairing = @ \ {h}]
  /\ works' = works \cup {"advertising"} \cup IfActive(h)

\* update_advertising_work
AdvertisingWork ==
  /\ "advertising" \in works
  /\ works' = works \ {"advertising"}
  /\ ble' = UpdateAdvertising(ble)
=============================================================================
