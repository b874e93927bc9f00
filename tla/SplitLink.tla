----------------------------- MODULE SplitLink -----------------------------
(***************************************************************************)
(* The connections of a split keyboard: the slots and the scanning of      *)
(* src/app/src/split/bluetooth/central.c, and the advertising of           *)
(* split/bluetooth/peripheral.c.                                           *)
(*                                                                         *)
(* Each action is a callback on the Bluetooth thread or a work handler,    *)
(* and runs to completion.  What the Bluetooth stack does is external: its *)
(* calls may fail.  A failure that the code answers with nothing but a log *)
(* message counts in `failures'; one that it handles is free.              *)
(***************************************************************************)
EXTENDS SplitNodes

CONSTANTS
  MaxFailures,   \* bound on the number of unhandled failures
  MaxDrops,      \* bound on the number of connections lost
  None           \* no connection, no address

ASSUME SplitLinkAssumption ==
  /\ MaxFailures \in Nat /\ MaxDrops \in Nat
  /\ None \notin Peripherals

VARIABLES
  isEnabled,     \* is_enabled of the central
  state,         \* peripherals[].state
  conn,          \* peripherals[].conn
  listening,     \* what became of peripherals[].subscribe_params
  addrs,         \* peripheral_addrs, kept in flash
  isScanning,    \* is_scanning
  scanning,      \* does the stack of the central scan?
  link,          \* per peripheral, the connection: "down", "pending", "up" or "lost"
  isConnected,   \* per peripheral, is_connected
  adv,           \* per peripheral, the advertising work or what it started
  lowDuty,       \* per peripheral, low_duty_advertising
  bonded,        \* per peripheral, is there a bond, with notifications enabled?
  failures,      \* how many calls failed unhandled
  drops          \* how many connections were lost
peripheralVars == <<isConnected, adv, lowDuty, bonded>>
linkVars == <<isEnabled, state, conn, listening, addrs, isScanning, scanning, link,
              isConnected, adv, lowDuty, bonded, failures, drops>>

SlotStates == {"OPEN", "CONNECTING", "CONNECTED"}
Listening == {"no", "discovering", "yes"}
Adverts == {"off", "work", "open", "high", "low"}

Works == UNCHANGED failures
Fails == failures < MaxFailures /\ failures' = failures + 1
OnAir(p) == adv[p] \in {"open", "high", "low"}
Pending == {p \in Peripherals : link[p] = "pending"}
-----------------------------------------------------------------------------
(* The central.  Operators whose comment starts with "Fault:" are faulty    *)
(* variants of the definition that follows, which nothing uses: put in its  *)
(* place they show that a property notices.                                 *)

\* start_scanning, called with is_scanning = flag and the stack scanning when `on': the
\* flag is set before the stack is asked, and stays set when that fails.
StartScanning(flag, on) ==
  IF ~isEnabled' \/ flag \/ \A s \in Slots : conn'[s] # None
  THEN isScanning' = flag /\ scanning' = on /\ Works
  ELSE isScanning' = TRUE /\ (\/ scanning' = TRUE /\ Works
                              \/ scanning' = on /\ Fails)

\* Fault: the state is left as it was.
ReleaseConnOnly(s) ==
  /\ conn' = [conn EXCEPT ![s] = None]
  /\ listening' = [listening EXCEPT ![s] = "no"]
  /\ UNCHANGED state
\* release_peripheral_slot, but for its positions, which SplitKeys releases
Release(s) ==
  /\ conn' = [conn EXCEPT ![s] = None]
  /\ listening' = [listening EXCEPT ![s] = "no"]
  /\ state' = [state EXCEPT ![s] = "OPEN"]
IsSlotOf(s, p) == conn[s] = p

\* finish_init: the transport is available, so it is selected and enabled.
FinishInit ==
  /\ ~isEnabled /\ isEnabled' = TRUE
  /\ UNCHANGED <<state, conn, listening, addrs, link, drops, peripheralVars>>
  /\ StartScanning(isScanning, scanning)

\* zmk_ble_put_peripheral_addr: the first slot that has this address or none
SlotFor(s, p) == /\ addrs[s] \in {p, None}
                 /\ \A r \in 1 .. s - 1 : addrs[r] \notin {p, None}

\* split_central_eir_found, for an advertisement that the scanning stack reports.
\* A scan that cannot be stopped leaves the slot reserved.
DeviceFound(p, s) ==
  /\ scanning /\ OnAir(p) /\ SlotFor(s, p)
  /\ addrs' = [addrs EXCEPT ![s] = p]
  /\ IF state[s] # "OPEN"
     THEN UNCHANGED <<state, conn, isScanning, scanning, link, failures>>
     ELSE /\ state' = [state EXCEPT ![s] = "CONNECTING"]
          /\ isScanning' = FALSE
          /\ \/ /\ Pending = {} /\ Works
                /\ conn' = [conn EXCEPT ![s] = p]
                /\ link' = [link EXCEPT ![p] = "pending"]
                /\ scanning' = FALSE
             \/ Fails /\ UNCHANGED <<conn, link, scanning>>
  /\ UNCHANGED <<isEnabled, listening, drops, peripheralVars>>

\* The same when the connection cannot be created, as while another one is pending: the
\* slot is released and the scan, which has been stopped, started again.
CreateFails(p, s) ==
  /\ scanning /\ OnAir(p) /\ SlotFor(s, p) /\ state[s] = "OPEN"
  /\ addrs' = [addrs EXCEPT ![s] = p]
  /\ UNCHANGED <<isEnabled, state, conn, listening, link, drops, peripheralVars>>
  /\ StartScanning(FALSE, FALSE)

\* split_central_connected; a discovery that cannot be started ends it early.
Connected(p, s) ==
  /\ link[p] = "pending" /\ IsSlotOf(s, p) /\ OnAir(p)
  /\ link' = [link EXCEPT ![p] = "up"]
  /\ state' = [state EXCEPT ![s] = "CONNECTED"]
  /\ isConnected' = [isConnected EXCEPT ![p] = TRUE]
  /\ adv' = [adv EXCEPT ![p] = "off"]
  /\ UNCHANGED <<isEnabled, conn, addrs, drops, lowDuty, bonded>>
  /\ \/ listening' = [listening EXCEPT ![s] = "discovering"] /\ StartScanning(isScanning, scanning)
     \/ Fails /\ UNCHANGED <<listening, isScanning, scanning>>

\* split_central_connected with an error, as when the attempt takes too long
ConnectFails(p, s) ==
  /\ link[p] = "pending" /\ IsSlotOf(s, p)
  /\ link' = [link EXCEPT ![p] = "down"]
  /\ Release(s)
  /\ UNCHANGED <<isEnabled, addrs, drops, peripheralVars>>
  /\ StartScanning(isScanning, scanning)

\* The end of split_central_chrc_discovery_func: the position state is subscribed to,
\* which takes an encrypted connection and with it a bond; a failure is only logged.
Subscribe(p, s) ==
  /\ link[p] = "up" /\ IsSlotOf(s, p) /\ listening[s] = "discovering"
  /\ \/ /\ Works
        /\ listening' = [listening EXCEPT ![s] = "yes"]
        /\ bonded' = [bonded EXCEPT ![p] = TRUE]
     \/ Fails /\ listening' = [listening EXCEPT ![s] = "no"] /\ UNCHANGED bonded
  /\ UNCHANGED <<isEnabled, state, conn, addrs, isScanning, scanning, link, isConnected, adv,
                 lowDuty, drops>>

\* split_central_disconnected
Disconnected(p, s) ==
  /\ link[p] = "lost" /\ IsSlotOf(s, p)
  /\ link' = [link EXCEPT ![p] = "down"]
  /\ Release(s)
  /\ UNCHANGED <<isEnabled, addrs, drops, peripheralVars>>
  /\ StartScanning(isScanning, scanning)
-----------------------------------------------------------------------------
(* The peripheral.                                                          *)

centralVars == <<isEnabled, state, conn, listening, addrs, isScanning, scanning, link, drops>>

\* Fault: after a timeout the high duty cycle, which times out, is tried again and again
\* until the next connection; the work is not submitted.
AdvertisingTimeoutForgotten(p) ==
  /\ adv[p] = "high"
  /\ adv' = [adv EXCEPT ![p] = "off"]
  /\ lowDuty' = [lowDuty EXCEPT ![p] = TRUE]
  /\ UNCHANGED <<isConnected, bonded, failures, centralVars>>
\* connected with BT_HCI_ERR_ADV_TIMEOUT: directed advertising at a high duty ends
AdvertisingTimeout(p) ==
  /\ adv[p] = "high"
  /\ isConnected' = [isConnected EXCEPT ![p] = FALSE]
  /\ adv' = [adv EXCEPT ![p] = "work"]
  /\ lowDuty' = [lowDuty EXCEPT ![p] = TRUE]
  /\ UNCHANGED <<bonded, failures, centralVars>>

\* advertising_cb: directed at the central of the bond, if there is one
AdvertisingWork(p) ==
  /\ adv[p] = "work"
  /\ \/ /\ Works
        /\ adv' = [adv EXCEPT ![p] = IF ~bonded[p] THEN "open"
                                     ELSE IF lowDuty[p] THEN "low" ELSE "high"]
     \/ Fails /\ adv' = [adv EXCEPT ![p] = "off"]
  /\ UNCHANGED <<isConnected, lowDuty, bonded, centralVars>>

\* disconnected
PeripheralDisconnected(p) ==
  /\ isConnected[p] /\ link[p] # "up"
  /\ isConnected' = [isConnected EXCEPT ![p] = FALSE]
  /\ lowDuty' = [lowDuty EXCEPT ![p] = FALSE]
  /\ adv' = [adv EXCEPT ![p] = "work"]
  /\ UNCHANGED <<bonded, failures, centralVars>>

\* The radio link breaks, and each side will notice in its time.
LinkLost(p) ==
  /\ link[p] = "up" /\ drops < MaxDrops
  /\ link' = [link EXCEPT ![p] = "lost"]
  /\ drops' = drops + 1
  /\ UNCHANGED <<isEnabled, state, conn, listening, addrs, isScanning, scanning,
                 peripheralVars, failures>>
-----------------------------------------------------------------------------
LinkInit ==
  /\ isEnabled = FALSE
  /\ state = [s \in Slots |-> "OPEN"] /\ conn = [s \in Slots |-> None]
  /\ listening = [s \in Slots |-> "no"] /\ addrs = [s \in Slots |-> None]
  /\ isScanning = FALSE /\ scanning = FALSE
  /\ link = [p \in Peripherals |-> "down"]
  /\ isConnected = [p \in Peripherals |-> FALSE]
  /\ adv = [p \in Peripherals |-> "work"] /\ lowDuty = [p \in Peripherals |-> FALSE]
  /\ bonded = [p \in Peripherals |-> FALSE]
  /\ failures = 0 /\ drops = 0

LinkTypeOK ==
  /\ isEnabled \in BOOLEAN /\ isScanning \in BOOLEAN /\ scanning \in BOOLEAN
  /\ state \in [Slots -> SlotStates] /\ listening \in [Slots -> Listening]
  /\ conn \in [Slots -> Peripherals \cup {None}] /\ addrs \in [Slots -> Peripherals \cup {None}]
  /\ link \in [Peripherals -> {"down", "pending", "up", "lost"}]
  /\ isConnected \in [Peripherals -> BOOLEAN] /\ adv \in [Peripherals -> Adverts]
  /\ lowDuty \in [Peripherals -> BOOLEAN] /\ bonded \in [Peripherals -> BOOLEAN]
  /\ failures \in 0 .. MaxFailures /\ drops \in 0 .. MaxDrops

\* The slots follow the connections: each peripheral that is connected or being connected
\* to has exactly one slot, that of its address, in the matching state, and no other slot
\* has a connection, nor a reservation unless the scan could not be stopped.
SlotsFollowLinks ==
  /\ \A p \in Peripherals :
       Cardinality({s \in Slots : conn[s] = p}) = IF link[p] = "down" THEN 0 ELSE 1
  /\ \A s \in Slots :
       IF conn[s] = None
       THEN state[s] = "OPEN" \/ (failures > 0 /\ state[s] = "CONNECTING")
       ELSE /\ addrs[s] = conn[s]
            /\ state[s] = IF link[conn[s]] = "pending" THEN "CONNECTING" ELSE "CONNECTED"
  /\ \A r, s \in Slots : addrs[r] = addrs[s] /\ addrs[r] # None => r = s

\* While a slot has no connection and none is being made, the central scans: of the ways
\* through the callbacks none ends with the scan stopped, unless the stack failed.
ScanningWhenNeeded ==
  isEnabled /\ failures = 0 /\ Pending = {} /\ (\E s \in Slots : conn[s] = None) => scanning
=============================================================================
