------------------------------- MODULE Endpoints -------------------------------
(***************************************************************************)
(* Where reports go in a build with BLE and 2.4G: src/app/src/endpoints.c  *)
(* with usb.c and the connection thread of studio/connection_subsystem.c.  *)
(* Only one radio may run.  A switch of radios writes flash, sleeps and    *)
(* waits for the Bluetooth stack: it is called on the work queue, from     *)
(* main and from Studio's thread, and whatever waits lets the others run.  *)
(*                                                                         *)
(* Operators whose comment starts with "Fault:" are faulty variants of the *)
(* definition that follows, which nothing uses.                            *)
(***************************************************************************)
EXTENDS Ble

CONSTANTS
  MaxMishaps,   \* bound on failures of flash and radio, late switches and restarts
  MaxRequests   \* bound on selections, changes of USB and restarts after pairing

ASSUME EndpointsAssumption == MaxMishaps \in Nat /\ MaxRequests \in Nat

VARIABLES
  usb,       \* "none", "powered" or "ready": zmk_usb_get_conn_state, is_configured
  ep,        \* current_instance, the preferred wireless transport, manual, usb_was_ready
  rf,        \* active_wireless_transport, radio_switching; whether 2.4G is started, and
             \* whether the RPC thread is restarting it
  call,      \* per thread, the selection of a transport it is in the middle of
  flash,     \* endpoints/preferred
  mishaps, requests,
  astray     \* history: why the parts need not agree

vars == <<ble, works, usb, ep, rf, call, flash, mishaps, requests, astray>>

Wireless == {"ble", "2g4"}
Threads == {"work", "low"}   \* the system work queue; main, then Studio's thread
Works == {"advertising", "profile", "usb", "recover", "save"}
Stages == {"none", "asked", "persist", "switch", "claim", "reserve", "stop", "start",
           "enable", "applied", "rollback"}
\* sel is the transport selected, to the one being switched to (it differs while the
\* previous one is restored), was the preferred and prev the active one before
NoCall == [at |-> "none", to |-> "ble", sel |-> "ble", was |-> "ble", prev |-> "ble"]
Calls == [at : Stages, to : Wireless, sel : Wireless \cup {"usb"}, was : Wireless, prev : Wireless]
Reasons == {"lazy", "missed", "refused", "crossed", "unrestored", "raced"}

TypeOK ==
  /\ ble \in BleStates /\ works \subseteq Works /\ usb \in {"none", "powered", "ready"}
  /\ ep \in [current : Wireless \cup {"usb"}, preferred : Wireless, manual : BOOLEAN,
             was_ready : BOOLEAN]
  /\ rf \in [active : Wireless, switching : BOOLEAN, started : BOOLEAN, restarting : BOOLEAN]
  /\ call \in [Threads -> Calls] /\ flash \in Wireless
  /\ mishaps \in 0..MaxMishaps /\ requests \in 0..MaxRequests /\ astray \subseteq Reasons

\* Where a thread waits for flash, the Bluetooth stack or a timer
Waits(th) == call[th].at \in {"none", "asked", "persist", "reserve", "stop", "start", "enable",
                              "rollback"}
\* The work queue is cooperative: the low thread runs when it has nothing to do or waits
MayRun(th) == th = "work" \/ Waits("work")
WorkFree == call["work"].at = "none"
At(th, stage) == call[th].at = stage /\ MayRun(th)
Other(th) == CHOOSE o \in Threads : o # th

\* A failure happens, or does not
Fails == mishaps < MaxMishaps /\ mishaps' = mishaps + 1
Works0 == UNCHANGED mishaps
Request == requests < MaxRequests /\ requests' = requests + 1
-----------------------------------------------------------------------------
\* get_selected_transport
Selected(e) == IF usb = "ready" /\ ~e.manual THEN "usb" ELSE e.preferred
\* update_current_endpoint
UpdateCurrent(e) == [e EXCEPT !.current = Selected(e)]

Goto(th, stage) == call' = [call EXCEPT ![th] = IF stage = "none" THEN NoCall ELSE [@ EXCEPT !.at = stage]]
SwitchTo(th, t) == call' = [call EXCEPT ![th].to = t, ![th].at = "switch"]
-----------------------------------------------------------------------------
(* zmk_endpoints_select_transport *)

\* Selecting the transport t, up to the first wait
Select(th, t) ==
  IF t = "usb"
  THEN /\ ep' = UpdateCurrent([ep EXCEPT !.manual = FALSE])
       /\ call' = [call EXCEPT ![th] = NoCall]
       /\ astray' = astray \ {"missed"}
  ELSE /\ ep' = [ep EXCEPT !.manual = TRUE]
       /\ call' = [call EXCEPT ![th] =
            [at |-> IF t = "2g4" /\ ep.preferred # t THEN "persist" ELSE "switch",
             to |-> t, sel |-> t, was |-> ep.preferred, prev |-> rf.active]]
       /\ astray' = IF call[Other(th)].at \in {"none", "asked"} THEN astray
                    ELSE astray \cup {"crossed"}

\* zmk_endpoints_toggle_transport
ToggleTarget ==
  CASE ep.current = "usb" -> "ble"
    [] ep.current = "ble" -> "2g4"
    [] OTHER -> IF usb = "ready" THEN "usb" ELSE "ble"

\* behavior_outputs.c: a key of &out, on the work queue
KeySelects(t) ==
  /\ WorkFree /\ Request /\ Select("work", t)
  /\ UNCHANGED <<ble, works, usb, rf, flash, mishaps>>
KeyToggles == KeySelects(ToggleTarget)

\* conn_schedule, called by the RPC thread
StudioAsks(t) ==
  /\ WorkFree /\ Request /\ call["low"].at = "none" /\ t # ep.current
  /\ call' = [call EXCEPT !["low"] = [NoCall EXCEPT !.at = "asked", !.sel = t]]
  /\ UNCHANGED <<ble, works, usb, ep, rf, flash, mishaps, astray>>
\* conn_switch_run, after its delay
StudioSelects ==
  /\ At("low", "asked") /\ Select("low", call["low"].sel)
  /\ UNCHANGED <<ble, works, usb, rf, flash, mishaps, requests>>

\* apply_wireless_transport, up to the switch
BeginSwitch(th) == call' = [call EXCEPT ![th].at = "switch", ![th].prev = rf.active]
\* endpoints_save_preferred_now, before a switch to 2.4G
Persist(th) ==
  /\ At(th, "persist")
  /\ \/ /\ Works0 /\ flash' = call[th].sel /\ BeginSwitch(th)
        /\ UNCHANGED astray
     \/ /\ Fails /\ Goto(th, "none") /\ astray' = astray \cup {"missed"}
        /\ UNCHANGED flash
  /\ UNCHANGED <<ble, works, usb, ep, rf, requests>>
-----------------------------------------------------------------------------
(* switch_radio_transport *)

\* The switch failed: the previous transport is restored, and a preferred transport
\* that was saved early is saved back
Failed(th, why) ==
  LET c == call[th] IN
  /\ IF c.to = c.sel /\ c.prev # c.sel THEN SwitchTo(th, c.prev)
     ELSE Goto(th, IF c.sel = "2g4" /\ c.was # c.sel THEN "rollback" ELSE "none")
  /\ astray' = astray \cup {"missed"} \cup why
                 \cup (IF c.to = c.sel /\ c.prev # c.sel THEN {} ELSE {"unrestored"})

\* The label done, after success
Switched(th, radio) ==
  LET c == call[th] IN
  /\ rf' = [radio EXCEPT !.active = c.to, !.switching = FALSE]
  /\ Goto(th, IF c.to = c.sel THEN "applied"
              ELSE IF c.sel = "2g4" /\ c.was # c.sel THEN "rollback" ELSE "none")
  /\ UNCHANGED astray

\* if (radio_switching) return -EBUSY;
Check(th) ==
  /\ At(th, "switch")
  /\ IF rf.switching THEN Failed(th, {"refused"}) ELSE Goto(th, "claim") /\ UNCHANGED astray
  /\ UNCHANGED <<ble, works, usb, ep, rf, flash, mishaps, requests>>

\* The flag is set; the work queue may have set it since the low thread read it
Claim(th) ==
  /\ At(th, "claim")
  /\ rf' = [rf EXCEPT !.switching = TRUE]
  /\ astray' = IF rf.switching THEN astray \cup {"raced"} ELSE astray
  /\ Goto(th, IF call[th].to = "2g4" THEN "reserve" ELSE "enable")
  /\ UNCHANGED <<ble, works, usb, ep, flash, mishaps, requests>>

\* Fault: the flag stays when the session cannot be reserved.
ReserveKeepsFlag(th) ==
  /\ At(th, "reserve")
  /\ \/ Works0 /\ Goto(th, "stop") /\ UNCHANGED <<rf, astray>>
     \/ Fails /\ Failed(th, {}) /\ UNCHANGED rf
  /\ UNCHANGED <<ble, works, usb, ep, flash, requests>>
\* zmk_2g4_crypto_reserve_session_id; then the BLE hosts are asked to disconnect
Reserve(th) ==
  /\ At(th, "reserve")
  /\ \/ Works0 /\ Goto(th, "stop") /\ UNCHANGED <<rf, astray>>
     \/ Fails /\ rf' = [rf EXCEPT !.switching = FALSE] /\ Failed(th, {})
  /\ UNCHANGED <<ble, works, usb, ep, flash, requests>>

\* The callbacks of the connections that end with bt_disable
StopWorks == (works \ {"advertising"})
             \cup (IF ble.linked = {} THEN {} ELSE {"advertising"})
             \cup UNION {IfActive(h) : h \in ble.linked}

\* Fault: a failure of bt_disable is not propagated.
StopIgnored(th) ==
  /\ At(th, "stop")
  /\ \/ Works0 /\ ble' = BleStop(ble) /\ works' = StopWorks /\ Goto(th, "start") /\ UNCHANGED <<rf, astray>>
     \/ Fails /\ ble' = BleStopFails(ble) /\ works' = works \ {"advertising"} /\ Goto(th, "start")
        /\ UNCHANGED <<rf, astray>>
  /\ UNCHANGED <<usb, ep, flash, requests>>
\* zmk_ble_stop, 50 ms after the disconnects
Stop(th) ==
  /\ At(th, "stop")
  /\ \/ /\ Works0 /\ Goto(th, "start") /\ UNCHANGED <<rf, astray>>
        /\ IF ble.up THEN ble' = BleStop(ble) /\ works' = StopWorks ELSE UNCHANGED <<ble, works>>
     \/ /\ ble.up /\ Fails
        /\ ble' = BleStopFails(ble) /\ works' = works \ {"advertising"}
        /\ rf' = [rf EXCEPT !.switching = FALSE] /\ Failed(th, {})
  /\ UNCHANGED <<usb, ep, flash, requests>>

\* zmk_2g4_start, 50 ms later
Start(th) ==
  /\ At(th, "start")
  /\ \/ Works0 /\ Switched(th, [rf EXCEPT !.started = TRUE]) /\ UNCHANGED ble
     \/ /\ ~rf.started /\ Fails
        /\ ble' = BleStart(ble) /\ rf' = [rf EXCEPT !.switching = FALSE]
        /\ Failed(th, {})
  /\ UNCHANGED <<works, usb, ep, flash, requests>>

\* zmk_2g4_stop and zmk_ble_start; bt_enable waits for the controller
Enable(th) ==
  /\ At(th, "enable")
  /\ \/ Works0 /\ ble' = BleStart(ble) /\ Switched(th, [rf EXCEPT !.started = FALSE])
     \/ /\ ~ble.up /\ Fails
        /\ rf' = [rf EXCEPT !.switching = FALSE, !.started = FALSE] /\ Failed(th, {})
        /\ UNCHANGED ble
  /\ UNCHANGED <<works, usb, ep, flash, requests>>
-----------------------------------------------------------------------------
\* Fault: the selection of BLE is not saved.
AppliedUnsaved(th) ==
  /\ At(th, "applied") /\ Goto(th, "none")
  /\ ep' = UpdateCurrent([ep EXCEPT !.preferred = call[th].sel])
  /\ astray' = astray \ {"missed", "lazy"}
  /\ UNCHANGED <<ble, works, usb, rf, flash, mishaps, requests>>
\* The end of apply_wireless_transport; the selection of BLE is saved later
Applied(th) ==
  LET c == call[th] IN
  /\ At(th, "applied") /\ Goto(th, "none")
  /\ ep' = UpdateCurrent([ep EXCEPT !.preferred = c.sel])
  /\ works' = IF c.sel = "ble" /\ c.was # c.sel THEN works \cup {"save"} ELSE works
  /\ astray' = astray \ {"missed", "lazy"}
  /\ UNCHANGED <<ble, usb, rf, flash, mishaps, requests>>

\* The preferred transport is saved back after a failed switch
Rollback(th) ==
  /\ At(th, "rollback") /\ Goto(th, "none")
  /\ \/ Works0 /\ flash' = call[th].was /\ UNCHANGED astray
     \/ Fails /\ astray' = astray \cup {"unrestored"} /\ UNCHANGED flash
  /\ UNCHANGED <<ble, works, usb, ep, rf, requests>>

\* endpoints_save_preferred_work; in the middle of a selection it saves what is
\* preferred until then
SaveWork ==
  /\ WorkFree /\ "save" \in works /\ works' = works \ {"save"}
  /\ flash' = ep.preferred
  /\ astray' = IF call["low"].at \in {"none", "asked"} THEN astray ELSE astray \cup {"crossed"}
  /\ UNCHANGED <<ble, usb, ep, rf, call, mishaps, requests>>
-----------------------------------------------------------------------------
(* USB, profiles, advertising *)

\* usb_status_cb
UsbChanges(status) ==
  /\ status # usb /\ Request
  /\ usb' = status /\ works' = works \cup {"usb"}
  /\ UNCHANGED <<ble, ep, rf, call, flash, mishaps, astray>>

\* apply_wireless_transport of the preferred one; it counts as a selection that
\* changes nothing
Apply(th, e) ==
  /\ ep' = e
  /\ call' = [call EXCEPT ![th] = [at |-> "switch", to |-> e.preferred, sel |-> e.preferred,
                                    was |-> e.preferred, prev |-> rf.active]]

\* endpoint_listener, of a change of the USB connection
UsbWork ==
  /\ WorkFree /\ "usb" \in works /\ works' = works \ {"usb"}
  /\ LET e == [ep EXCEPT !.manual = @ /\ ~(usb = "ready" /\ ~ep.was_ready),
                         !.was_ready = (usb = "ready")]
     IN IF usb = "none"
        THEN /\ Apply("work", e)
             /\ astray' = IF call["low"].at \in {"none", "asked"} THEN astray
                          ELSE astray \cup {"crossed"}
        ELSE ep' = UpdateCurrent(e) /\ astray' = astray \ {"missed"} /\ UNCHANGED call
  /\ UNCHANGED <<ble, usb, rf, flash, mishaps, requests>>

\* raise_profile_changed_event_work
ProfileWork ==
  /\ WorkFree /\ "profile" \in works /\ works' = works \ {"profile"}
  /\ ep' = UpdateCurrent(ep) /\ astray' = astray \ {"missed"}
  /\ UNCHANGED <<ble, usb, rf, call, flash, mishaps, requests>>

AdvertiseWork ==
  /\ WorkFree /\ AdvertisingWork
  /\ UNCHANGED <<usb, ep, rf, call, flash, mishaps, astray, requests>>
HostConnects(h) == Connected(h) /\ UNCHANGED <<usb, ep, rf, call, flash, mishaps, astray, requests>>
HostDisconnects(h) == Disconnected(h) /\ UNCHANGED <<usb, ep, rf, call, flash, mishaps, astray, requests>>
\* pairing_restart_radio, on the RPC thread, which has the lowest priority: the work
\* queue and Studio's thread may switch radios between its two steps
PairingStops ==
  /\ WorkFree /\ Request /\ rf.started /\ ~rf.restarting
  /\ rf' = [rf EXCEPT !.started = FALSE, !.restarting = TRUE]
  /\ UNCHANGED <<ble, works, usb, ep, call, flash, mishaps, astray>>
PairingStarts ==
  /\ Waits("work") /\ rf.restarting
  /\ \/ Works0 /\ rf' = [rf EXCEPT !.started = TRUE, !.restarting = FALSE]
        /\ astray' = IF rf.switching \/ ble.up THEN astray \cup {"raced"} ELSE astray
     \/ Fails /\ rf' = [rf EXCEPT !.restarting = FALSE] /\ astray' = astray \cup {"unrestored"}
  /\ UNCHANGED <<ble, works, usb, ep, call, flash, requests>>
-----------------------------------------------------------------------------
(* Watchdog and restart *)

\* radio_switch_watchdog_expired: a wait took longer than 3 s
WatchdogExpires ==
  /\ rf.switching /\ \E th \in Threads : call[th].at \in {"stop", "start", "enable"}
  /\ "recover" \notin works /\ Fails
  /\ works' = works \cup {"recover"}
  /\ UNCHANGED <<ble, usb, ep, rf, call, flash, astray, requests>>

\* What is in RAM when main has loaded the settings, before it applies them
Boot(saved, status) ==
  /\ ble' = [ble EXCEPT !.adv = TRUE, !.up = TRUE, !.linked = {}, !.pairing = {}]
  /\ usb' = status
  /\ works' = IF status = "none" THEN {} ELSE {"usb"}
  /\ rf' = [active |-> "ble", switching |-> FALSE, started |-> FALSE,
           restarting |-> FALSE]
  /\ flash' = saved /\ astray' = IF saved = "ble" THEN {} ELSE {"lazy"}
  /\ LET e == [current |-> "ble", preferred |-> saved, manual |-> FALSE,
               was_ready |-> (status = "ready")]
     IN IF status = "ready"
        THEN /\ ep' = [e EXCEPT !.current = "usb"] /\ call' = [th \in Threads |-> NoCall]
        ELSE /\ ep' = e
             /\ call' = [work |-> NoCall,
                         low |-> [at |-> "switch", to |-> saved, sel |-> saved, was |-> saved,
                                  prev |-> "ble"]]

\* Power is lost and comes back
Restart == Fails /\ UNCHANGED requests /\ \E status \in {"none", "powered", "ready"} : Boot(flash, status)

\* radio_switch_watchdog_recover
RecoverWork ==
  /\ WorkFree /\ "recover" \in works
  /\ IF rf.started
     THEN /\ works' = works \ {"recover"}
          /\ rf' = [rf EXCEPT !.switching = FALSE]
          /\ ep' = UpdateCurrent(ep)
          /\ astray' = (astray \ {"missed"}) \cup (IF rf.switching THEN {"raced"} ELSE {})
          /\ UNCHANGED <<ble, usb, call, flash>>
     ELSE \E status \in {"none", "powered", "ready"} : Boot(flash, status)
  /\ UNCHANGED <<mishaps, requests>>
-----------------------------------------------------------------------------
Init ==
  \E saved \in Wireless, host \in Hosts :
    /\ ble = [bond |-> [i \in Profiles |-> host], active |-> 0, adv |-> TRUE, up |-> TRUE,
              linked |-> {}, pairing |-> {}]
    /\ works = {} /\ usb = "none" /\ flash = saved /\ mishaps = 0 /\ requests = 0
    /\ astray = (IF saved = "ble" THEN {} ELSE {"lazy"})
    /\ rf = [active |-> "ble", switching |-> FALSE, started |-> FALSE,
           restarting |-> FALSE]
    /\ ep = [current |-> "ble", preferred |-> saved, manual |-> FALSE, was_ready |-> FALSE]
    /\ call = [work |-> NoCall, low |-> [at |-> "switch", to |-> saved, sel |-> saved,
                                         was |-> saved, prev |-> "ble"]]

Step(th) == \/ Persist(th) \/ Check(th) \/ Claim(th) \/ Reserve(th) \/ Stop(th)
            \/ Start(th) \/ Enable(th) \/ Applied(th) \/ Rollback(th)
Work == SaveWork \/ UsbWork \/ ProfileWork \/ AdvertiseWork \/ RecoverWork

Next ==
  \/ \E t \in Wireless \cup {"usb"} : KeySelects(t) \/ StudioAsks(t)
  \/ KeyToggles \/ StudioSelects
  \/ \E th \in Threads : Step(th)
  \/ Work
  \/ \E status \in {"none", "powered", "ready"} : UsbChanges(status)
  \/ \E h \in Hosts : HostConnects(h) \/ HostDisconnects(h)
  \/ PairingStops \/ PairingStarts
  \/ WatchdogExpires \/ Restart

Spec == Init /\ [][Next]_vars

\* The work queue runs what is submitted, and the low thread whenever the work queue
\* leaves the processor: a wait ends
FairSpec == Spec /\ WF_vars(Step("work")) /\ WF_vars(Step("low"))
-----------------------------------------------------------------------------
AtRest == works = {} /\ \A th \in Threads : call[th].at = "none"

(***************************************************************************)
(* BLE and 2.4G never run at the same time, "so ESB never starts with the  *)
(* BLE controller active" (ble.c): whatever fails on the way and whoever   *)
(* asks, unless two threads passed the check of radio_switching together,  *)
(* the watchdog cleared the flag of a late switch, or a restart of 2.4G    *)
(* after pairing was overtaken by a switch.                                *)
(***************************************************************************)
OneRadio == "raced" \notin astray => ~(ble.up /\ rf.started)

(***************************************************************************)
(* When nothing is in progress, the radio that runs, the one that the      *)
(* endpoints believe to run, the preferred one and the one saved for the   *)
(* next start are the same: also after a failure that was made good.       *)
(***************************************************************************)
RadiosAgree ==
  AtRest /\ astray \subseteq {"missed"} /\ ~rf.restarting =>
    /\ rf.active = ep.preferred /\ flash = ep.preferred
    /\ ble.up = (rf.active = "ble") /\ rf.started = (rf.active = "2g4")

(***************************************************************************)
(* When nothing is in progress, reports go where the selection says: to    *)
(* USB when it is ready and no radio was selected by hand, else to the     *)
(* preferred radio, unless the last selection failed.                      *)
(***************************************************************************)
EndpointFollows == AtRest /\ "missed" \notin astray => ep.current = Selected(ep)

(***************************************************************************)
(* The keyboard advertises exactly while BLE is up and the host of the     *)
(* active profile is not connected: after any order of connections, work   *)
(* items and radio switches.                                               *)
(***************************************************************************)
Advertises == "advertising" \notin works => ble.adv = (ble.up /\ ~ActiveConnected(ble))

(***************************************************************************)
(* A switch ends: radio_switching never stays set, which would refuse all  *)
(* later selections.                                                       *)
(***************************************************************************)
SwitchEnds == rf.switching ~> ~rf.switching

\* What the radios, the endpoints and advertising must agree on
EndpointsAgree == TypeOK /\ RadiosAgree /\ EndpointFollows /\ Advertises
=============================================================================
