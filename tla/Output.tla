-------------------------------- MODULE Output --------------------------------
(***************************************************************************)
(* Reports on their way out in a build with BLE and USB: profiles and      *)
(* their bonds (ble.c, behavior_bt.c), the choice between USB and BLE      *)
(* (endpoints.c, usb.c) and the queue of reports for the Bluetooth stack   *)
(* (hog.c).  A report is the set of keys held, cut down to 0 or 1 key.     *)
(*                                                                         *)
(* Operators whose comment starts with "Fault:" are faulty variants of the *)
(* definition that follows, which nothing uses.                            *)
(***************************************************************************)
EXTENDS Ble, Sequences

CONSTANTS
  QueueSize,    \* CONFIG_ZMK_BLE_KEYBOARD_REPORT_QUEUE_SIZE
  MaxTyped,     \* bound on presses and releases
  MaxRequests   \* bound on commands of the user, changes of USB and restarts

ASSUME OutputAssumption ==
  /\ QueueSize \in Nat \ {0} /\ MaxTyped \in Nat /\ MaxRequests \in Nat
  /\ "usb" \notin Hosts

VARIABLES
  bonded,    \* hosts the Bluetooth stack holds a bond with
  usb,       \* "none", "ready" or "suspended"
  ep,        \* current_instance and preferred_transport
  flash,     \* ble/active_profile and endpoints/preferred; the bonds are saved at once
  keyReport,    \* the keyboard report
  hog,       \* zmk_hog_keyboard_msgq, and whether hog_keyboard_work is submitted or runs
  view,      \* the last report each host knows of
  budget,    \* what is left of MaxTyped and MaxRequests
  history    \* whether the last report was lost, a host was paired into two profiles,
             \* the endpoint is not chosen again since the start

outputVars == <<ble, works, bonded, usb, ep, flash, keyReport, hog, view, budget, history>>

Works == {"advertising", "profile", "usb", "save_profile", "save_preferred"}
Instances == {<<"usb", 0>>} \cup ({"ble"} \X Profiles)

OutputTypeOK ==
  /\ ble \in BleStates /\ works \subseteq Works /\ bonded \subseteq Hosts
  /\ usb \in {"none", "ready", "suspended"}
  /\ ep \in [current : Instances, preferred : {"usb", "ble"}]
  /\ flash \in [active : Profiles, preferred : {"usb", "ble"}]
  /\ keyReport \in 0..1 /\ view \in [Hosts \cup {"usb"} -> 0..1]
  /\ Len(hog.queue) <= QueueSize /\ hog.running \in BOOLEAN
  /\ history \in [lost : BOOLEAN, twice : BOOLEAN, started : BOOLEAN]

Request == budget.requests > 0 /\ budget' = [budget EXCEPT !.requests = @ - 1]
-----------------------------------------------------------------------------
(* zmk_endpoints_send_report *)

\* Fault: the report that does not fit is dropped.
PutNewest(q, r) == IF Len(q) = QueueSize THEN q ELSE Append(q, r)
\* zmk_hog_send_keyboard_report: after 100 ms without room the oldest goes
Put(q, r) == Append(IF Len(q) = QueueSize THEN Tail(q) ELSE q, r)

\* A report leaves for the endpoint of e; over USB nothing is sent while suspended
SendReport(e, r, hist) ==
  IF e.current[1] = "ble"
  THEN /\ hog' = [queue |-> Put(hog.queue, r), running |-> TRUE]
       /\ history' = [hist EXCEPT !.lost = FALSE] /\ UNCHANGED view
  ELSE /\ view' = IF usb = "ready" THEN [view EXCEPT !["usb"] = r] ELSE view
       /\ history' = [hist EXCEPT !.lost = (usb # "ready")] /\ UNCHANGED hog

\* get_selected_transport and get_selected_instance
SelectedInstance(e, b) ==
  LET t == IF usb = "none" THEN "ble"
           ELSE IF ActiveConnected(b) THEN e.preferred ELSE "usb"
  IN <<t, IF t = "ble" THEN b.active ELSE 0>>

\* Fault: the endpoint is kept while a key is held.
UpdateCurrentAtRest(e, b, hist) ==
  LET to == [e EXCEPT !.current = IF keyReport = 0 THEN SelectedInstance(e, b) ELSE @]
      at == [hist EXCEPT !.started = FALSE, !.lost = @ \/ hist.started] IN
  /\ ep' = to /\ keyReport' = keyReport
  /\ IF to.current # e.current THEN SendReport(to, 0, at)
     ELSE history' = at /\ UNCHANGED <<hog, view>>
\* update_current_endpoint: the new endpoint starts from an empty report
UpdateCurrent(e, b, hist) ==
  LET to == [e EXCEPT !.current = SelectedInstance(e, b)]
      at == [hist EXCEPT !.started = FALSE, !.lost = @ \/ hist.started] IN
  /\ ep' = to
  /\ IF to.current # e.current THEN keyReport' = 0 /\ SendReport(to, 0, at)
     ELSE history' = at /\ UNCHANGED <<keyReport, hog, view>>

\* A key is pressed or released
Type ==
  /\ budget.typed > 0 /\ budget' = [budget EXCEPT !.typed = @ - 1]
  /\ keyReport' = 1 - keyReport /\ SendReport(ep, 1 - keyReport, history)
  /\ UNCHANGED <<ble, works, bonded, usb, ep, flash>>

\* One round of send_keyboard_report_callback, on its own work queue
HogRound ==
  /\ hog.running
  /\ LET last == Len(hog.queue) = 1
         Lost == history' = [history EXCEPT !.lost = @ \/ last] IN
     IF hog.queue = <<>>
     THEN hog' = [hog EXCEPT !.running = FALSE] /\ UNCHANGED <<view, history>>
     ELSE IF ~ActiveConnected(ble)  \* return, with what else is in the queue
     THEN hog' = [queue |-> Tail(hog.queue), running |-> FALSE] /\ Lost /\ UNCHANGED view
     ELSE /\ hog' = [hog EXCEPT !.queue = Tail(@)]
          /\ \/ view' = [view EXCEPT ![ble.bond[ble.active]] = Head(hog.queue)] /\ UNCHANGED history
             \/ Lost /\ UNCHANGED view  \* bt_gatt_notify_cb fails: not encrypted, or no buffer
  /\ UNCHANGED <<ble, works, bonded, usb, ep, flash, keyReport, budget>>
-----------------------------------------------------------------------------
(* Commands of the user *)

\* zmk_ble_prof_select
SelectProfile(i) ==
  /\ i # ble.active /\ Request
  /\ ble' = ProfSelect(ble, i) /\ works' = works \cup {"save_profile"}
  /\ UpdateCurrent(ep, ble', history)
  /\ UNCHANGED <<bonded, usb, flash>>

\* The reports of the active profile have nowhere to go
Orphan(hist) == [hist EXCEPT !.lost = TRUE]

\* zmk_ble_clear_bonds; bt_unpair ends a connection, which is reported later
ClearBonds ==
  /\ ~IsOpen(ble) /\ Request
  /\ ble' = UpdateAdvertising([ble EXCEPT !.bond[ble.active] = Nobody])
  /\ bonded' = bonded \ {ble.bond[ble.active]}
  /\ works' = works \cup {"profile"} /\ history' = Orphan(history)
  /\ UNCHANGED <<usb, ep, flash, keyReport, hog, view>>

\* zmk_ble_clear_all_bonds
ClearAllBonds ==
  /\ (\E i \in Profiles : ble.bond[i] # Nobody) /\ Request
  /\ LET cleared == [ble EXCEPT !.bond = [i \in Profiles |-> Nobody]] IN
     /\ ble' = UpdateAdvertising([cleared EXCEPT !.active = 0])
     /\ works' = works \cup {"profile"}
                       \cup (IF ble.active = 0 THEN {} ELSE {"save_profile"})
  /\ bonded' = bonded \ {ble.bond[i] : i \in Profiles}
  /\ IF ble.active = 0 THEN history' = Orphan(history) /\ UNCHANGED <<ep, keyReport, hog, view>>
     ELSE UpdateCurrent(ep, ble', Orphan(history))
  /\ UNCHANGED <<usb, flash>>

\* conn_unpair_profile of studio/connection_subsystem.c, of a profile not in use
StudioUnpairs(i) ==
  /\ i # ble.active /\ ble.bond[i] # Nobody /\ Request
  /\ ble' = [ble EXCEPT !.bond[i] = Nobody] /\ bonded' = bonded \ {ble.bond[i]}
  /\ works' = works \cup {"profile"}
  /\ UNCHANGED <<usb, ep, flash, keyReport, hog, view, history>>

\* zmk_endpoints_select_transport
SelectTransport(t) ==
  /\ t # ep.preferred /\ Request
  /\ works' = works \cup {"save_preferred"}
  /\ UpdateCurrent([ep EXCEPT !.preferred = t], ble, history)
  /\ UNCHANGED <<ble, bonded, usb, flash>>
\* zmk_endpoints_toggle_transport
ToggleTransport == SelectTransport(IF ep.preferred = "usb" THEN "ble" ELSE "usb")
-----------------------------------------------------------------------------
(* Callbacks of the Bluetooth stack and of USB *)

HostConnects(h) ==
  /\ Connected(h)
  /\ UNCHANGED <<bonded, usb, ep, flash, keyReport, hog, view, budget, history>>

\* A host that loses the keyboard lets go of its keys
HostDisconnects(h) ==
  /\ Disconnected(h)
  /\ view' = [view EXCEPT ![h] = 0]
  /\ history' = [history EXCEPT !.lost = @ \/ IsActiveProfile(ble, h)]
  /\ UNCHANGED <<bonded, usb, ep, flash, keyReport, hog, budget>>

\* pairing_allowed_for_current_profile
PairingAllowed(h) == IsOpen(ble) \/ IsActiveProfile(ble, h)

\* auth_pairing_accept
PairingAccept(h) ==
  /\ h \in ble.linked \ ble.pairing /\ PairingAllowed(h) /\ Request
  /\ ble' = [ble EXCEPT !.pairing = @ \cup {h}]
  /\ UNCHANGED <<works, bonded, usb, ep, flash, keyReport, hog, view, history>>

\* Fault: the bond of a host that is not wanted is kept.
PairingCompleteKeeping(h) ==
  /\ h \in ble.pairing
  /\ LET done == [ble EXCEPT !.pairing = @ \ {h}] IN
     IF PairingAllowed(h)
     THEN /\ ble' = UpdateAdvertising([done EXCEPT !.bond[ble.active] = h])
          /\ bonded' = bonded \cup {h} /\ works' = works \cup {"profile"}
          /\ history' = Orphan(history)
     ELSE ble' = done /\ bonded' = bonded \cup {h} /\ UNCHANGED <<works, history>>
  /\ UNCHANGED <<usb, ep, flash, keyReport, hog, view, budget>>
\* auth_pairing_complete: by now another profile may be the active one
PairingComplete(h) ==
  /\ h \in ble.pairing
  /\ LET done == [ble EXCEPT !.pairing = @ \ {h}] IN
     IF PairingAllowed(h)
     THEN /\ ble' = UpdateAdvertising([done EXCEPT !.bond[ble.active] = h])
          /\ bonded' = bonded \cup {h} /\ works' = works \cup {"profile"}
          /\ history' = [history EXCEPT !.lost = TRUE, !.twice = @ \/
                           \E i \in Profiles \ {ble.active} : ble.bond[i] = h]
     ELSE ble' = done /\ bonded' = bonded \ {h} /\ UNCHANGED works
          /\ history' = [history EXCEPT !.twice = @ \/ \E i \in Profiles : ble.bond[i] = h]
  /\ UNCHANGED <<usb, ep, flash, keyReport, hog, view, budget>>

\* usb_status_cb; a host that is unplugged lets go of its keys
UsbChanges(status) ==
  /\ status # usb /\ (status = "suspended" => usb = "ready") /\ Request
  /\ usb' = status /\ works' = works \cup {"usb"}
  /\ view' = IF status = "none" THEN [view EXCEPT !["usb"] = 0] ELSE view
  /\ history' = [history EXCEPT !.lost = @ \/ (ep.current[1] = "usb" /\ status = "none")]
  /\ UNCHANGED <<ble, bonded, ep, flash, keyReport, hog>>
-----------------------------------------------------------------------------
(* Work items *)

\* endpoint_listener, of a change of USB or of the active profile
EndpointWork(w) ==
  /\ w \in works \cap {"usb", "profile"} /\ works' = works \ {w}
  /\ UpdateCurrent(ep, ble, history)
  /\ UNCHANGED <<ble, bonded, usb, flash, budget>>

AdvertiseWork ==
  /\ AdvertisingWork
  /\ UNCHANGED <<bonded, usb, ep, flash, keyReport, hog, view, budget, history>>

\* ble_save_profile_work and endpoints_save_preferred_work
SaveWork(w) ==
  /\ w \in works \cap {"save_profile", "save_preferred"} /\ works' = works \ {w}
  /\ flash' = IF w = "save_profile" THEN [flash EXCEPT !.active = ble.active]
              ELSE [flash EXCEPT !.preferred = ep.preferred]
  /\ UNCHANGED <<ble, bonded, usb, ep, keyReport, hog, view, budget, history>>

\* Power is lost and comes back: zmk_endpoints_init, the settings, zmk_ble_complete_startup
Restart ==
  /\ Request
  /\ ble' = BleStart([ble EXCEPT !.active = flash.active, !.adv = FALSE, !.up = FALSE,
                                 !.linked = {}, !.pairing = {}])
  /\ ep' = [current |-> <<"ble", 0>>, preferred |-> flash.preferred]
  /\ works' = {} /\ usb' = "none" /\ keyReport' = 0
  /\ hog' = [queue |-> <<>>, running |-> FALSE]
  /\ view' = [t \in Hosts \cup {"usb"} |-> 0]
  /\ history' = [history EXCEPT !.lost = TRUE, !.started = TRUE]
  /\ UNCHANGED <<bonded, flash>>
-----------------------------------------------------------------------------
OutputInit ==
  /\ \E bond \in [Profiles -> Hosts \cup {Nobody}] :
       /\ \A i, j \in Profiles : bond[i] = bond[j] => i = j \/ bond[i] = Nobody
       /\ ble = [bond |-> bond, active |-> 0, adv |-> TRUE, up |-> TRUE,
                 linked |-> {}, pairing |-> {}]
       /\ bonded = {bond[i] : i \in Profiles} \ {Nobody}
  /\ works = {} /\ usb = "none" /\ keyReport = 0
  /\ ep = [current |-> <<"ble", 0>>, preferred |-> "usb"]
  /\ flash = [active |-> 0, preferred |-> "usb"]
  /\ hog = [queue |-> <<>>, running |-> FALSE]
  /\ view = [t \in Hosts \cup {"usb"} |-> 0]
  /\ budget = [typed |-> MaxTyped, requests |-> MaxRequests]
  /\ history = [lost |-> FALSE, twice |-> FALSE, started |-> TRUE]

OutputNext ==
  \/ Type \/ HogRound
  \/ \E i \in Profiles : SelectProfile(i) \/ StudioUnpairs(i)
  \/ ClearBonds \/ ClearAllBonds
  \/ \E t \in {"usb", "ble"} : SelectTransport(t)
  \/ ToggleTransport
  \/ \E h \in Hosts : HostConnects(h) \/ HostDisconnects(h) \/ PairingAccept(h) \/ PairingComplete(h)
  \/ \E status \in {"none", "ready", "suspended"} : UsbChanges(status)
  \/ \E w \in Works : EndpointWork(w) \/ SaveWork(w)
  \/ AdvertiseWork \/ Restart

OutputSpec == OutputInit /\ [][OutputNext]_outputVars
-----------------------------------------------------------------------------
(***************************************************************************)
(* The keyboard advertises exactly while the host of the active profile is *)
(* not connected: through connections, pairings, bonds that are cleared    *)
(* and profiles that are selected in between (update_advertising).         *)
(***************************************************************************)
Advertises == "advertising" \notin works => ble.adv = ~ActiveConnected(ble)

(***************************************************************************)
(* Once the events of USB and BLE are handled, reports go where the        *)
(* connections say: to the only one that is there, or to the preferred one.*)
(***************************************************************************)
EndpointFollows ==
  works \cap {"usb", "profile"} = {} /\ ~history.started =>
    ep.current = SelectedInstance(ep, ble)

(***************************************************************************)
(* Every bond of the Bluetooth stack belongs to a profile and every taken  *)
(* profile has its bond: a pairing that completes after the profile was    *)
(* changed or taken leaves nothing behind.  Unless the user pairs one host *)
(* into two profiles.                                                      *)
(***************************************************************************)
BondsMatch == ~history.twice => bonded = {ble.bond[i] : i \in Profiles} \ {Nobody}

(***************************************************************************)
(* When the queue is drained, the host in use knows the keyboard's report, *)
(* however full the queue was and wherever earlier reports went, unless    *)
(* the last report itself was lost on a connection that is not there.      *)
(***************************************************************************)
ReportsArrive ==
  hog = [queue |-> <<>>, running |-> FALSE] /\ ~history.lost /\ ~history.started =>
    LET target == IF ep.current[1] = "usb" THEN "usb" ELSE ble.bond[ble.active] IN
    target # Nobody => view[target] = keyReport

\* What holds of the endpoint and of advertising together
OutputSound == OutputTypeOK /\ Advertises /\ EndpointFollows
=============================================================================
