---------------------------- MODULE EndpointsProofs ----------------------------
(* Proofs about Endpoints: types, that BLE and 2.4G never run together, and    *)
(* that the radios, the endpoints, flash and advertising agree.                *)
EXTENDS Endpoints, TLAPS

LEMMA ThreadCases == \A th \in Threads : th = "work" \/ th = "low"
BY DEF Threads

LEMMA OtherThread ==
  ASSUME NEW th \in Threads
  PROVE  Other(th) \in Threads /\ Other(th) # th
BY DEF Threads, Other

\* The records that make up the state
LEMMA CallType ==
  ASSUME TypeOK, NEW th \in Threads
  PROVE  /\ call[th] \in Calls
         /\ call[th].at \in Stages /\ call[th].to \in Wireless
         /\ call[th].sel \in Wireless \cup {"usb"}
         /\ call[th].was \in Wireless /\ call[th].prev \in Wireless
BY DEF TypeOK, Calls
LEMMA NoCallAt == NoCall.at = "none" /\ NoCall \in Calls
BY DEF NoCall, Calls, Stages, Wireless
-----------------------------------------------------------------------------
(* Types *)

LEMMA UpdateAdvertisingType ==
  ASSUME NEW b \in BleStates
  PROVE  UpdateAdvertising(b) \in BleStates
BY DEF UpdateAdvertising, BleStates, ActiveConnected

LEMMA BleStopType ==
  ASSUME NEW b \in BleStates
  PROVE  BleStop(b) \in BleStates /\ BleStopFails(b) \in BleStates
<1>1. [b EXCEPT !.adv = FALSE] \in BleStates
  BY DEF BleStates
<1> QED
  BY <1>1, UpdateAdvertisingType DEF BleStop, BleStopFails, BleStates

LEMMA BleStartType ==
  ASSUME NEW b \in BleStates
  PROVE  BleStart(b) \in BleStates
<1>1. [b EXCEPT !.up = TRUE] \in BleStates
  BY DEF BleStates
<1> QED
  BY <1>1, UpdateAdvertisingType DEF BleStart

Eps == [current : Wireless \cup {"usb"}, preferred : Wireless, manual : BOOLEAN, was_ready : BOOLEAN]
Rfs == [active : Wireless, switching : BOOLEAN, started : BOOLEAN, restarting : BOOLEAN]

LEMMA UpdateCurrentType ==
  ASSUME NEW e \in Eps
  PROVE  UpdateCurrent(e) \in Eps
BY DEF UpdateCurrent, Selected, Eps, Wireless

\* What the steps of a thread do to its call, and that they leave the other thread's alone
LEMMA GotoEffect ==
  ASSUME TypeOK, NEW th \in Threads, NEW stage \in Stages, Goto(th, stage)
  PROVE  /\ call' \in [Threads -> Calls]
         /\ \A o \in Threads : o # th => call'[o] = call[o]
         /\ call'[th].at = stage
         /\ IF stage = "none" THEN call'[th] = NoCall
            ELSE /\ call'[th].to = call[th].to /\ call'[th].sel = call[th].sel
                 /\ call'[th].was = call[th].was /\ call'[th].prev = call[th].prev
<1>1. NoCall \in Calls
  BY DEF NoCall, Calls, Stages, Wireless
<1>2. [call[th] EXCEPT !.at = stage] \in Calls
  BY CallType DEF Calls
<1>3. call \in [Threads -> Calls] /\ call[th] \in Calls
  BY CallType DEF TypeOK
<1>4. call' = [call EXCEPT ![th] = IF stage = "none" THEN NoCall ELSE [call[th] EXCEPT !.at = stage]]
  BY <1>3 DEF Goto
<1>5. CASE stage = "none"
  BY <1>1, <1>3, <1>4, <1>5 DEF NoCall
<1>6. CASE stage # "none"
  BY <1>2, <1>3, <1>4, <1>6 DEF Calls
<1> QED
  BY <1>5, <1>6

LEMMA BeginEffect ==
  ASSUME TypeOK, NEW th \in Threads, BeginSwitch(th)
  PROVE  /\ call' \in [Threads -> Calls]
         /\ \A o \in Threads : o # th => call'[o] = call[o]
         /\ call'[th].at = "switch" /\ call'[th].to = call[th].to /\ call'[th].sel = call[th].sel
         /\ call'[th].was = call[th].was /\ call'[th].prev = rf.active
<1>1. call \in [Threads -> Calls] /\ call[th] \in Calls /\ rf.active \in Wireless
  BY CallType DEF TypeOK
<1>2. [call[th] EXCEPT !.at = "switch", !.prev = rf.active] \in Calls
  BY <1>1 DEF Calls, Stages
<1>3. call' = [call EXCEPT ![th] = [call[th] EXCEPT !.at = "switch", !.prev = rf.active]]
  BY <1>1 DEF BeginSwitch
<1> QED
  BY <1>1, <1>2, <1>3 DEF Calls

LEMMA SwitchToEffect ==
  ASSUME TypeOK, NEW th \in Threads, NEW t \in Wireless, SwitchTo(th, t)
  PROVE  /\ call' \in [Threads -> Calls]
         /\ \A o \in Threads : o # th => call'[o] = call[o]
         /\ call'[th].at = "switch" /\ call'[th].to = t /\ call'[th].sel = call[th].sel
         /\ call'[th].was = call[th].was /\ call'[th].prev = call[th].prev
<1>1. [call[th] EXCEPT !.to = t, !.at = "switch"] \in Calls
  BY CallType DEF Calls, Stages
<1>2. call' = [call EXCEPT ![th] = [call[th] EXCEPT !.to = t, !.at = "switch"]]
  BY DEF SwitchTo, TypeOK
<1>3. call \in [Threads -> Calls] /\ call[th] \in Calls
  BY CallType DEF TypeOK
<1> QED
  BY <1>1, <1>2, <1>3 DEF Calls

\* A call that is under way, past the point where Studio's thread has only been asked
Mid(th) == call[th].at \notin {"none", "asked"}

\* Nobody switches to USB
SwitchesRadios == \A th \in Threads : Mid(th) => call[th].sel \in Wireless

LEMMA BootType ==
  ASSUME TypeOK, NEW saved \in Wireless, NEW status \in {"none", "powered", "ready"},
         Boot(saved, status)
  PROVE  /\ ble' \in BleStates /\ works' \subseteq Works /\ usb' \in {"none", "powered", "ready"}
         /\ ep' \in Eps /\ rf' \in Rfs /\ call' \in [Threads -> Calls]
         /\ flash' \in Wireless /\ astray' \subseteq Reasons
<1>1. ble' \in BleStates
  BY DEF Boot, TypeOK, BleStates
<1>2. ep' \in Eps /\ rf' \in Rfs
  <2>1. ep' = [current |-> IF status = "ready" THEN "usb" ELSE "ble", preferred |-> saved,
               manual |-> FALSE, was_ready |-> (status = "ready")]
    BY DEF Boot
  <2>2. (status = "ready") \in BOOLEAN
    OBVIOUS
  <2> QED
    BY <2>1, <2>2 DEF Boot, Eps, Rfs, Wireless
<1>3. call' \in [Threads -> Calls]
  BY DEF Boot, Calls, NoCall, Threads, Wireless, Stages
<1> QED
  BY <1>1, <1>2, <1>3 DEF Boot, Works, Reasons

LEMMA TypeInit == Init => TypeOK
<1> SUFFICES ASSUME NEW saved \in Wireless, NEW host \in Hosts,
                    ble = [bond |-> [i \in Profiles |-> host], active |-> 0, adv |-> TRUE, up |-> TRUE,
                           linked |-> {}, pairing |-> {}],
                    works = {}, usb = "none", flash = saved, mishaps = 0, requests = 0,
                    astray = (IF saved = "ble" THEN {} ELSE {"lazy"}),
                    rf = [active |-> "ble", switching |-> FALSE, started |-> FALSE,
                          restarting |-> FALSE],
                    ep = [current |-> "ble", preferred |-> saved, manual |-> FALSE,
                          was_ready |-> FALSE],
                    call = [work |-> NoCall,
                            low |-> [at |-> "switch", to |-> saved, sel |-> saved,
                                     was |-> saved, prev |-> "ble"]]
             PROVE  TypeOK
  BY DEF Init
<1>1. ble \in BleStates
  BY BleAssumption DEF BleStates
<1>2. call \in [Threads -> Calls]
  BY DEF Calls, NoCall, Threads, Wireless, Stages
<1> QED
  BY <1>1, <1>2, EndpointsAssumption DEF TypeOK, Wireless, Works, Reasons

LEMMA FailedType ==
  ASSUME TypeOK, NEW th \in Threads, NEW why \in SUBSET Reasons, Failed(th, why)
  PROVE  call' \in [Threads -> Calls] /\ astray' \subseteq Reasons
<1>1. call' \in [Threads -> Calls]
  <2>1. CASE SwitchTo(th, call[th].prev)
    BY <2>1, CallType, SwitchToEffect
  <2>2. CASE Goto(th, "rollback")
    BY <2>2, GotoEffect DEF Stages
  <2>3. CASE Goto(th, "none")
    BY <2>3, GotoEffect DEF Stages
  <2> QED
    BY <2>1, <2>2, <2>3 DEF Failed
<1>2. astray' \subseteq Reasons
  BY DEF Failed, TypeOK, Reasons
<1> QED
  BY <1>1, <1>2

LEMMA SwitchedType ==
  ASSUME TypeOK, NEW th \in Threads, NEW radio \in Rfs, Switched(th, radio)
  PROVE  call' \in [Threads -> Calls] /\ rf' \in Rfs /\ astray' \subseteq Reasons
<1>1. call' \in [Threads -> Calls]
  <2>1. CASE Goto(th, "applied")
    BY <2>1, GotoEffect DEF Stages
  <2>2. CASE Goto(th, "rollback")
    BY <2>2, GotoEffect DEF Stages
  <2>3. CASE Goto(th, "none")
    BY <2>3, GotoEffect DEF Stages
  <2> QED
    BY <2>1, <2>2, <2>3 DEF Switched
<1>2. rf' \in Rfs
  BY CallType DEF Switched, Rfs
<1> QED
  BY <1>1, <1>2 DEF Switched, TypeOK

LEMMA SelectType ==
  ASSUME TypeOK, NEW th \in Threads, NEW t \in Wireless \cup {"usb"}, Select(th, t)
  PROVE  ep' \in Eps /\ call' \in [Threads -> Calls] /\ astray' \subseteq Reasons
<1>0. ep \in Eps /\ rf \in Rfs
  BY DEF TypeOK, Eps, Rfs
<1>1. CASE t = "usb"
  <2>1. [ep EXCEPT !.manual = FALSE] \in Eps
    BY <1>0 DEF Eps
  <2>2. ep' \in Eps
    BY <1>1, <2>1, UpdateCurrentType DEF Select
  <2>3. NoCall \in Calls
    BY DEF NoCall, Calls, Stages, Wireless
  <2> QED
    BY <1>1, <2>2, <2>3 DEF Select, TypeOK
<1>2. CASE t # "usb"
  <2>1. ep' \in Eps
    BY <1>0, <1>2 DEF Select, Eps
  <2>2. [at |-> IF t = "2g4" /\ ep.preferred # t THEN "persist" ELSE "switch",
         to |-> t, sel |-> t, was |-> ep.preferred, prev |-> rf.active] \in Calls
    BY <1>0, <1>2 DEF Eps, Rfs, Calls, Stages
  <2>3. call' \in [Threads -> Calls]
    BY <1>2, <2>2 DEF Select, TypeOK
  <2>4. astray' \subseteq Reasons
    BY <1>2 DEF Select, TypeOK, Reasons
  <2> QED
    BY <2>1, <2>3, <2>4
<1> QED
  BY <1>1, <1>2

\* The counters stay within their bounds
LEMMA Budgets ==
  ASSUME TypeOK
  PROVE  /\ Works0 => mishaps' \in 0..MaxMishaps
         /\ Fails => mishaps' \in 0..MaxMishaps
         /\ Request => requests' \in 0..MaxRequests
BY EndpointsAssumption DEF TypeOK, Works0, Fails, Request

LEMMA StepType ==
  ASSUME TypeOK, SwitchesRadios, NEW th \in Threads, Step(th)
  PROVE  TypeOK'
<1> USE DEF TypeOK, Eps, Rfs
<1>0. ep \in Eps /\ rf \in Rfs
  OBVIOUS
<1>1. CASE Persist(th)
  <2>1. call' \in [Threads -> Calls]
    BY <1>1, GotoEffect, BeginEffect DEF Persist, Stages
  <2>2. flash' \in Wireless
    BY <1>1, CallType DEF Persist, At, SwitchesRadios, Mid
  <2> QED
    BY <1>1, <2>1, <2>2, Budgets DEF Persist, Reasons
<1>2. CASE Check(th)
  <2>1. call' \in [Threads -> Calls] /\ astray' \subseteq Reasons
    BY <1>2, GotoEffect, FailedType DEF Check, Stages, Reasons
  <2> QED
    BY <1>2, <2>1 DEF Check
<1>3. CASE Claim(th)
  <2>1. call' \in [Threads -> Calls]
    BY <1>3, GotoEffect DEF Claim, Stages
  <2> QED
    BY <1>3, <2>1 DEF Claim, Reasons
<1>4. CASE Reserve(th)
  <2>1. call' \in [Threads -> Calls] /\ astray' \subseteq Reasons
    BY <1>4, GotoEffect, FailedType DEF Reserve, Stages, Reasons
  <2> QED
    BY <1>4, <2>1, Budgets DEF Reserve
<1>5. CASE Stop(th)
  <2>1. call' \in [Threads -> Calls] /\ astray' \subseteq Reasons
    BY <1>5, GotoEffect, FailedType DEF Stop, Stages, Reasons
  <2>2. ble' \in BleStates
    BY <1>5, BleStopType DEF Stop
  <2>3. works' \subseteq Works
    BY <1>5 DEF Stop, StopWorks, Works, IfActive
  <2> QED
    BY <1>5, <2>1, <2>2, <2>3, Budgets DEF Stop
<1>6. CASE Start(th)
  <2>1. [rf EXCEPT !.started = TRUE] \in Rfs
    OBVIOUS
  <2>2. CASE Switched(th, [rf EXCEPT !.started = TRUE]) /\ Works0 /\ UNCHANGED ble
    <3>1. call' \in [Threads -> Calls] /\ rf' \in Rfs /\ astray' \subseteq Reasons
      BY <2>1, <2>2, SwitchedType DEF Start
    <3> QED
      BY <1>6, <2>2, <3>1, Budgets DEF Start
  <2>3. CASE Failed(th, {}) /\ Fails /\ ble' = BleStart(ble) /\ rf' = [rf EXCEPT !.switching = FALSE]
    <3>1. call' \in [Threads -> Calls] /\ astray' \subseteq Reasons
      BY <2>3, FailedType
    <3> QED
      BY <1>6, <2>3, <3>1, BleStartType, Budgets DEF Start
  <2> QED
    BY <1>6, <2>2, <2>3 DEF Start
<1>7. CASE Enable(th)
  <2>1. [rf EXCEPT !.started = FALSE] \in Rfs
    OBVIOUS
  <2>2. CASE Switched(th, [rf EXCEPT !.started = FALSE]) /\ Works0 /\ ble' = BleStart(ble)
    <3>1. call' \in [Threads -> Calls] /\ rf' \in Rfs /\ astray' \subseteq Reasons
      BY <2>1, <2>2, SwitchedType
    <3> QED
      BY <1>7, <2>2, <3>1, BleStartType, Budgets DEF Enable
  <2>3. CASE /\ Failed(th, {}) /\ Fails /\ UNCHANGED ble
             /\ rf' = [rf EXCEPT !.switching = FALSE, !.started = FALSE]
    <3>1. call' \in [Threads -> Calls] /\ astray' \subseteq Reasons
      BY <2>3, FailedType
    <3> QED
      BY <1>7, <2>3, <3>1, Budgets DEF Enable
  <2> QED
    BY <1>7, <2>2, <2>3 DEF Enable
<1>8. CASE Applied(th)
  <2>1. call' \in [Threads -> Calls]
    BY <1>8, GotoEffect DEF Applied, Stages
  <2>2. call[th].sel \in Wireless
    BY <1>8 DEF Applied, At, SwitchesRadios, Mid
  <2>3. [ep EXCEPT !.preferred = call[th].sel] \in Eps
    BY <2>2
  <2>4. ep' \in Eps
    BY <1>8, <2>3, UpdateCurrentType DEF Applied
  <2> QED
    BY <1>8, <2>1, <2>4 DEF Applied, Works
<1>9. CASE Rollback(th)
  <2>1. call' \in [Threads -> Calls]
    BY <1>9, GotoEffect DEF Rollback, Stages
  <2> QED
    BY <1>9, <2>1, CallType, Budgets DEF Rollback, Reasons
<1> QED
  BY <1>1, <1>2, <1>3, <1>4, <1>5, <1>6, <1>7, <1>8, <1>9 DEF Step

\* A failed switch goes on with the previous radio or ends
LEMMA FailedEffect ==
  ASSUME TypeOK, NEW th \in Threads, NEW why, Failed(th, why)
  PROVE  /\ \A o \in Threads : o # th => call'[o] = call[o]
         /\ IF call[th].to = call[th].sel /\ call[th].prev # call[th].sel
            THEN /\ call'[th].at = "switch" /\ call'[th].to = call[th].prev
                 /\ astray' = astray \cup {"missed"} \cup why
            ELSE /\ call'[th].at \in {"none", "rollback"}
                 /\ astray' = astray \cup {"missed", "unrestored"} \cup why
         /\ call'[th] = NoCall \/ /\ call'[th].at # "none"
                                  /\ call'[th].sel = call[th].sel /\ call'[th].was = call[th].was
                                  /\ call'[th].prev = call[th].prev
<1>1. CASE call[th].to = call[th].sel /\ call[th].prev # call[th].sel
  BY <1>1, CallType, SwitchToEffect DEF Failed
<1>2. CASE ~(call[th].to = call[th].sel /\ call[th].prev # call[th].sel)
  <2>1. PICK stage \in {"none", "rollback"} : Goto(th, stage)
    BY <1>2 DEF Failed
  <2>2. astray' = astray \cup {"missed", "unrestored"} \cup why
    BY <1>2 DEF Failed
  <2> QED
    BY <1>2, <2>1, <2>2, GotoEffect DEF Stages
<1> QED
  BY <1>1, <1>2

LEMMA SwitchedEffect ==
  ASSUME TypeOK, NEW th \in Threads, NEW radio, Switched(th, radio)
  PROVE  /\ \A o \in Threads : o # th => call'[o] = call[o]
         /\ rf' = [radio EXCEPT !.active = call[th].to, !.switching = FALSE]
         /\ IF call[th].to = call[th].sel
            THEN call'[th].at = "applied"
            ELSE call'[th].at = IF call[th].sel = "2g4" /\ call[th].was # call[th].sel
                                THEN "rollback" ELSE "none"
         /\ astray' = astray
         /\ call'[th] = NoCall \/ /\ call'[th].at # "none" /\ call'[th].to = call[th].to
                                  /\ call'[th].sel = call[th].sel /\ call'[th].was = call[th].was
                                  /\ call'[th].prev = call[th].prev
BY GotoEffect DEF Switched, Stages

LEMMA SwitchedRadio ==
  ASSUME TypeOK, NEW th \in Threads, NEW radio \in Rfs, Switched(th, radio)
  PROVE  /\ rf'.active = call[th].to /\ rf'.switching = FALSE
         /\ rf'.started = radio.started /\ rf'.restarting = radio.restarting
<1>1. rf' = [radio EXCEPT !.active = call[th].to, !.switching = FALSE]
  BY DEF Switched
<1> QED
  BY <1>1 DEF Rfs

\* A step of a thread is a step of its call, which keeps what was selected
LEMMA StepEffect ==
  ASSUME TypeOK, NEW th \in Threads, Step(th)
  PROVE  /\ Mid(th)
         /\ \A o \in Threads : o # th => call'[o] = call[o]
         /\ call'[th] = NoCall \/ /\ Mid(th)' /\ call'[th].sel = call[th].sel
                                  /\ call'[th].was = call[th].was
<1>1. CASE Persist(th)
  BY <1>1, GotoEffect, BeginEffect DEF Persist, At, Mid, Stages
<1>2. CASE Check(th)
  BY <1>2, GotoEffect, FailedEffect DEF Check, At, Mid, Stages
<1>3. CASE Claim(th)
  BY <1>3, GotoEffect DEF Claim, At, Mid, Stages
<1>4. CASE Reserve(th)
  BY <1>4, GotoEffect, FailedEffect DEF Reserve, At, Mid, Stages
<1>5. CASE Stop(th)
  BY <1>5, GotoEffect, FailedEffect DEF Stop, At, Mid, Stages
<1>6. CASE Start(th)
  BY <1>6, SwitchedEffect, FailedEffect DEF Start, At, Mid
<1>7. CASE Enable(th)
  BY <1>7, SwitchedEffect, FailedEffect DEF Enable, At, Mid
<1>8. CASE Applied(th)
  BY <1>8, GotoEffect DEF Applied, At, Mid, Stages
<1>9. CASE Rollback(th)
  BY <1>9, GotoEffect DEF Rollback, At, Mid, Stages
<1> QED
  BY <1>1, <1>2, <1>3, <1>4, <1>5, <1>6, <1>7, <1>8, <1>9 DEF Step

\* The selection of a radio starts a call of the thread
LEMMA SelectEffect ==
  ASSUME TypeOK, NEW th \in Threads, NEW t \in Wireless \cup {"usb"}, Select(th, t)
  PROVE  /\ \A o \in Threads : o # th => call'[o] = call[o]
         /\ t = "usb" => call'[th] = NoCall
         /\ t # "usb" => /\ call'[th].at = IF t = "2g4" /\ ep.preferred # t THEN "persist" ELSE "switch"
                         /\ call'[th].to = t /\ call'[th].sel = t
                         /\ call'[th].was = ep.preferred /\ call'[th].prev = rf.active
BY DEF Select, TypeOK

LEMMA ApplyEffect ==
  ASSUME TypeOK, NEW th \in Threads, NEW e \in Eps, Apply(th, e)
  PROVE  /\ call' \in [Threads -> Calls] /\ ep' = e
         /\ \A o \in Threads : o # th => call'[o] = call[o]
         /\ call'[th].at = "switch" /\ call'[th].prev = rf.active
         /\ call'[th].to = e.preferred /\ call'[th].sel = e.preferred /\ call'[th].was = e.preferred
         /\ e.preferred \in Wireless
<1>1. [at |-> "switch", to |-> e.preferred, sel |-> e.preferred,
       was |-> e.preferred, prev |-> rf.active] \in Calls
  BY DEF Calls, Eps, TypeOK, Stages
<1> QED
  BY <1>1 DEF Apply, TypeOK, Eps

\* endpoint_listener sees the USB connection come
UsbSeen == [ep EXCEPT !.manual = @ /\ ~(usb = "ready" /\ ~ep.was_ready),
                      !.was_ready = (usb = "ready")]

LEMMA UsbSeenType ==
  ASSUME TypeOK
  PROVE  UsbSeen \in Eps /\ UsbSeen.preferred = ep.preferred
<1>1. ep \in Eps
  BY DEF TypeOK, Eps
<1>2. (usb = "ready") \in BOOLEAN /\ (ep.manual /\ ~(usb = "ready" /\ ~ep.was_ready)) \in BOOLEAN
  OBVIOUS
<1> QED
  BY <1>1, <1>2 DEF Eps, UsbSeen

LEMMA BootEffect ==
  ASSUME NEW saved \in Wireless, NEW status, Boot(saved, status)
  PROVE  /\ call'["work"] = NoCall
         /\ status = "ready" => call'["low"] = NoCall
         /\ status # "ready" => /\ call'["low"].at = "switch" /\ call'["low"].to = saved
                                /\ call'["low"].sel = saved /\ call'["low"].was = saved
                                /\ call'["low"].prev = "ble"
BY DEF Boot, Threads

LEMMA OtherStepsType ==
  ASSUME TypeOK, SwitchesRadios,
         \/ \E t \in Wireless \cup {"usb"} : KeySelects(t) \/ StudioAsks(t)
         \/ KeyToggles \/ StudioSelects \/ Work
         \/ \E status \in {"none", "powered", "ready"} : UsbChanges(status)
         \/ \E h \in Hosts : HostConnects(h) \/ HostDisconnects(h)
         \/ PairingStops \/ PairingStarts \/ WatchdogExpires \/ Restart
  PROVE  TypeOK' /\ SwitchesRadios'
<1>0. ep \in Eps /\ rf \in Rfs /\ "work" \in Threads /\ "low" \in Threads
  BY DEF TypeOK, Eps, Rfs, Threads
<1>a. ASSUME NEW t \in Wireless \cup {"usb"}, KeySelects(t)
      PROVE  TypeOK' /\ SwitchesRadios'
  <2>1. /\ ep' \in Eps /\ call' \in [Threads -> Calls] /\ astray' \subseteq Reasons
    BY <1>0, <1>a, SelectType DEF KeySelects
  <2>2. TypeOK'
    BY <1>a, <2>1, Budgets DEF KeySelects, TypeOK, Eps
  <2> QED
    BY <1>0, <1>a, <2>2, SelectEffect, NoCallAt DEF KeySelects, SwitchesRadios, Mid
<1>1. ASSUME NEW t \in Wireless \cup {"usb"}, StudioAsks(t)
      PROVE  TypeOK' /\ SwitchesRadios'
  <2>1. [NoCall EXCEPT !.at = "asked", !.sel = t] \in Calls
    BY DEF NoCall, Calls, Stages, Wireless
  <2>2. call' \in [Threads -> Calls]
    BY <1>1, <2>1 DEF StudioAsks, TypeOK
  <2>3. call'["low"].at = "asked" /\ call'["work"] = call["work"]
    BY <1>1, <2>1 DEF StudioAsks, TypeOK, Threads, NoCall
  <2> QED
    BY <1>1, <2>2, <2>3, Budgets, ThreadCases DEF StudioAsks, TypeOK, SwitchesRadios, Mid
<1>2. ASSUME KeyToggles
      PROVE  TypeOK' /\ SwitchesRadios'
  <2>1. ToggleTarget \in Wireless \cup {"usb"}
    BY DEF ToggleTarget, Wireless
  <2> QED
    BY <1>2, <1>a, <2>1 DEF KeyToggles
<1>3. ASSUME StudioSelects
      PROVE  TypeOK' /\ SwitchesRadios'
  <2>1. call["low"].sel \in Wireless \cup {"usb"}
    BY <1>0, CallType
  <2>2. /\ ep' \in Eps /\ call' \in [Threads -> Calls] /\ astray' \subseteq Reasons
    BY <1>0, <1>3, <2>1, SelectType DEF StudioSelects
  <2>3. TypeOK'
    BY <1>3, <2>2 DEF StudioSelects, TypeOK, Eps
  <2> QED
    BY <1>0, <1>3, <2>1, <2>3, SelectEffect, NoCallAt DEF StudioSelects, SwitchesRadios, Mid
<1>4. ASSUME NEW status \in {"none", "powered", "ready"}, Boot(flash, status), mishaps' \in 0..MaxMishaps,
             UNCHANGED requests
      PROVE  TypeOK' /\ SwitchesRadios'
  <2>1. flash \in Wireless
    BY DEF TypeOK
  <2>2. TypeOK'
    BY <1>4, <2>1, BootType DEF TypeOK, Eps, Rfs
  <2> QED
    BY <1>4, <2>1, <2>2, BootEffect, NoCallAt, ThreadCases DEF SwitchesRadios, Mid
<1>5. ASSUME Work
      PROVE  TypeOK' /\ SwitchesRadios'
  <2>1. CASE SaveWork
    BY <2>1 DEF SaveWork, TypeOK, SwitchesRadios, Mid, Reasons
  <2>2. CASE UsbWork
    <3>1. CASE usb = "none"
      <4>1. Apply("work", UsbSeen)
        BY <2>2, <3>1 DEF UsbWork, UsbSeen
      <4>2. /\ call' \in [Threads -> Calls] /\ ep' \in Eps
            /\ \A o \in Threads : Mid(o)' => call'[o].sel \in Wireless
        BY <1>0, <4>1, UsbSeenType, ApplyEffect DEF SwitchesRadios, Mid, Eps
      <4> QED
        BY <2>2, <3>1, <4>2 DEF UsbWork, TypeOK, SwitchesRadios, Eps, Reasons
    <3>2. CASE usb # "none"
      <4>1. ep' = UpdateCurrent(UsbSeen) /\ UNCHANGED call
        BY <2>2, <3>2 DEF UsbWork, UsbSeen
      <4>2. ep' \in Eps
        BY <4>1, UsbSeenType, UpdateCurrentType
      <4> QED
        BY <2>2, <3>2, <4>1, <4>2 DEF UsbWork, TypeOK, SwitchesRadios, Mid, Eps
    <3> QED
      BY <3>1, <3>2
  <2>3. CASE ProfileWork
    <3>1. ep' \in Eps
      BY <1>0, <2>3, UpdateCurrentType DEF ProfileWork
    <3> QED
      BY <2>3, <3>1 DEF ProfileWork, TypeOK, SwitchesRadios, Mid, Eps
  <2>4. CASE AdvertiseWork
    BY <2>4, UpdateAdvertisingType DEF AdvertiseWork, AdvertisingWork, TypeOK, SwitchesRadios, Mid
  <2>5. CASE RecoverWork
    <3>1. CASE rf.started
      <4>1. ep' \in Eps
        BY <1>0, <2>5, <3>1, UpdateCurrentType DEF RecoverWork
      <4> QED
        BY <1>0, <2>5, <3>1, <4>1 DEF RecoverWork, TypeOK, SwitchesRadios, Mid, Eps, Rfs, Reasons
    <3>2. CASE ~rf.started
      BY <2>5, <3>2, <1>4 DEF RecoverWork, TypeOK
    <3> QED
      BY <3>1, <3>2
  <2> QED
    BY <1>5, <2>1, <2>2, <2>3, <2>4, <2>5 DEF Work
<1>6. ASSUME NEW status \in {"none", "powered", "ready"}, UsbChanges(status)
      PROVE  TypeOK' /\ SwitchesRadios'
  BY <1>6, Budgets DEF UsbChanges, TypeOK, SwitchesRadios, Mid, Works
<1>7. ASSUME NEW h \in Hosts, HostConnects(h)
      PROVE  TypeOK' /\ SwitchesRadios'
  <2>1. [ble EXCEPT !.linked = @ \cup {h}, !.adv = FALSE] \in BleStates
    BY DEF TypeOK, BleStates
  <2>2. ble' \in BleStates
    BY <1>7, <2>1, UpdateAdvertisingType DEF HostConnects, Connected
  <2> QED
    BY <1>7, <2>2 DEF HostConnects, Connected, TypeOK, SwitchesRadios, Mid, Works, IfActive
<1>8. ASSUME NEW h \in Hosts, HostDisconnects(h)
      PROVE  TypeOK' /\ SwitchesRadios'
  <2>1. ble' \in BleStates
    BY <1>8 DEF HostDisconnects, Disconnected, TypeOK, BleStates
  <2> QED
    BY <1>8, <2>1 DEF HostDisconnects, Disconnected, TypeOK, SwitchesRadios, Mid, Works, IfActive
<1>9. ASSUME PairingStops
      PROVE  TypeOK' /\ SwitchesRadios'
  BY <1>9, Budgets DEF PairingStops, TypeOK, SwitchesRadios, Mid
<1>10. ASSUME PairingStarts
       PROVE  TypeOK' /\ SwitchesRadios'
  BY <1>10, Budgets DEF PairingStarts, TypeOK, SwitchesRadios, Mid, Reasons
<1>11. ASSUME WatchdogExpires
       PROVE  TypeOK' /\ SwitchesRadios'
  BY <1>11, Budgets DEF WatchdogExpires, TypeOK, SwitchesRadios, Mid, Works
<1>12. ASSUME Restart
       PROVE  TypeOK' /\ SwitchesRadios'
  BY <1>12, <1>4, Budgets DEF Restart
<1> QED
  BY <1>a, <1>1, <1>2, <1>3, <1>5, <1>6, <1>7, <1>8, <1>9, <1>10, <1>11, <1>12

Inv0 == TypeOK /\ SwitchesRadios

\* The steps that are not steps of a call
OtherStep ==
  \/ \E t \in Wireless \cup {"usb"} : KeySelects(t) \/ StudioAsks(t)
  \/ KeyToggles \/ StudioSelects \/ Work
  \/ \E status \in {"none", "powered", "ready"} : UsbChanges(status)
  \/ \E h \in Hosts : HostConnects(h) \/ HostDisconnects(h)
  \/ PairingStops \/ PairingStarts \/ WatchdogExpires \/ Restart

LEMMA NextSplits == Next => OtherStep \/ \E th \in Threads : Step(th)
BY DEF Next, OtherStep

LEMMA TypeStep == Inv0 /\ [Next]_vars => Inv0'
<1> SUFFICES ASSUME Inv0, [Next]_vars
             PROVE  Inv0'
  OBVIOUS
<1>1. CASE OtherStep
  BY <1>1, OtherStepsType DEF Inv0, OtherStep
<1>2. ASSUME NEW th \in Threads, Step(th)
      PROVE  Inv0'
  BY <1>2, StepType, StepEffect, NoCallAt DEF Inv0, SwitchesRadios, Mid
<1>3. CASE UNCHANGED vars
  BY <1>3 DEF vars, Inv0, TypeOK, SwitchesRadios, Mid
<1> QED
  BY <1>1, <1>2, <1>3, NextSplits

LEMMA Init0 == Init => Inv0
<1>1. Init => SwitchesRadios
  BY NoCallAt, ThreadCases DEF Init, SwitchesRadios, Mid
<1> QED
  BY <1>1, TypeInit DEF Inv0

(***************************************************************************)
(* The state keeps its types; Studio's thread never switches to USB, which *)
(* has no radio to start.                                                  *)
(***************************************************************************)
THEOREM EndpointsTypes == Spec => []Inv0
BY Init0, TypeStep, PTL DEF Spec
-----------------------------------------------------------------------------
(* One radio *)

LEMMA BleFacts ==
  ASSUME NEW b \in BleStates
  PROVE  /\ UpdateAdvertising(b).up = b.up
         /\ UpdateAdvertising(b).adv = IF b.up THEN ~ActiveConnected(b) ELSE b.adv
         /\ ActiveConnected(UpdateAdvertising(b)) = ActiveConnected(b)
BY DEF UpdateAdvertising, BleStates, ActiveConnected

LEMMA BleStops ==
  ASSUME NEW b \in BleStates
  PROVE  /\ ~BleStop(b).up /\ BleStop(b).adv = FALSE
         /\ BleStopFails(b).up = b.up
         /\ BleStopFails(b).adv = (b.up /\ ~ActiveConnected(BleStopFails(b)))
<1> DEFINE c == [b EXCEPT !.adv = FALSE]
<1>1. c \in BleStates /\ c.up = b.up /\ ~c.adv
  BY DEF BleStates
<1>2. BleStopFails(b) = UpdateAdvertising(c)
  BY DEF BleStopFails
<1>3. BleStop(b).up = FALSE /\ BleStop(b).adv = FALSE
  BY DEF BleStop, BleStates
<1> HIDE DEF c
<1>4. /\ UpdateAdvertising(c).up = b.up
      /\ UpdateAdvertising(c).adv = IF b.up THEN ~ActiveConnected(c) ELSE FALSE
      /\ ActiveConnected(UpdateAdvertising(c)) = ActiveConnected(c)
  BY <1>1, BleFacts DEF BleStates
<1>5. BleStopFails(b).adv = (b.up /\ ~ActiveConnected(BleStopFails(b)))
  BY <1>2, <1>4, Zenon
<1> QED
  BY <1>2, <1>3, <1>4, <1>5

LEMMA BleStarts ==
  ASSUME NEW b \in BleStates
  PROVE  /\ BleStart(b).up
         /\ b.up => BleStart(b) = b
         /\ ~b.up => BleStart(b).adv = ~ActiveConnected(BleStart(b))
<1> DEFINE c == [b EXCEPT !.up = TRUE]
<1>1. c \in BleStates /\ c.up
  BY DEF BleStates
<1>2. BleStart(b) = IF b.up THEN b ELSE UpdateAdvertising(c)
  BY DEF BleStart
<1> HIDE DEF c
<1> QED
  BY <1>1, <1>2, BleFacts

\* Between setting radio_switching and clearing it
InSwitch(th) == call[th].at \in {"reserve", "stop", "start", "enable"}

OneSwitch == \A th \in Threads :
  InSwitch(th) => rf.switching /\ \A o \in Threads : o # th => ~InSwitch(o)

\* BLE is stopped before 2.4G starts
StartsAlone == \A th \in Threads : call[th].at = "start" => ~ble.up

RadioInv == "raced" \notin astray => OneSwitch /\ StartsAlone /\ ~(ble.up /\ rf.started)

LEMMA StepRadio ==
  ASSUME Inv0, RadioInv, NEW th \in Threads, Step(th)
  PROVE  RadioInv'
<1> SUFFICES ASSUME "raced" \notin astray'
             PROVE  (OneSwitch /\ StartsAlone /\ ~(ble.up /\ rf.started))'
  BY DEF RadioInv
<1> USE DEF Inv0
<1>0. \A o \in Threads : o # th => call'[o] = call[o]
  BY StepEffect
<1>1. CASE Persist(th)
  <2>1. call'[th].at \in {"switch", "none"}
    BY <1>1, GotoEffect, BeginEffect DEF Persist, Stages
  <2> QED
    BY <1>0, <1>1, <2>1 DEF Persist, RadioInv, OneSwitch, StartsAlone, InSwitch
<1>2. CASE Check(th)
  <2>1. call'[th].at \in {"claim", "switch", "none", "rollback"}
    BY <1>2, GotoEffect, FailedEffect DEF Check, Stages
  <2>2. "raced" \notin astray
    BY <1>2, FailedEffect DEF Check
  <2> QED
    BY <1>0, <1>2, <2>1, <2>2 DEF Check, RadioInv, OneSwitch, StartsAlone, InSwitch
<1>3. CASE Claim(th)
  <2>1. call'[th].at \in {"reserve", "enable"}
    BY <1>3, GotoEffect DEF Claim, Stages
  <2>2. "raced" \notin astray /\ ~rf.switching
    BY <1>3 DEF Claim
  <2>3. rf'.switching /\ rf'.started = rf.started
    BY <1>3 DEF Claim, TypeOK
  <2> QED
    BY <1>0, <1>3, <2>1, <2>2, <2>3 DEF Claim, RadioInv, OneSwitch, StartsAlone, InSwitch
<1>4. CASE Reserve(th)
  <2>1. "raced" \notin astray /\ InSwitch(th)
    BY <1>4, FailedEffect DEF Reserve, At, InSwitch
  <2>2. \/ call'[th].at = "stop" /\ rf' = rf
        \/ call'[th].at \in {"switch", "none", "rollback"} /\ rf'.started = rf.started
    BY <1>4, GotoEffect, FailedEffect DEF Reserve, Stages, TypeOK
  <2> QED
    BY <1>0, <1>4, <2>1, <2>2 DEF Reserve, RadioInv, OneSwitch, StartsAlone, InSwitch
<1>5. CASE Stop(th)
  <2>1. "raced" \notin astray /\ InSwitch(th)
    BY <1>5, FailedEffect DEF Stop, At, InSwitch
  <2>2. \/ call'[th].at = "start" /\ rf' = rf /\ ~ble'.up
        \/ /\ call'[th].at \in {"switch", "none", "rollback"} /\ rf'.started = rf.started
           /\ ble'.up = ble.up
    <3>1. CASE /\ Goto(th, "start") /\ rf' = rf
               /\ IF ble.up THEN ble' = BleStop(ble) ELSE ble' = ble
      <4>1. call'[th].at = "start"
        BY <3>1, GotoEffect DEF Stages
      <4>2. ~ble'.up
        <5>1. ble \in BleStates
          BY DEF TypeOK
        <5>2. CASE ble' = BleStop(ble)
          BY <5>1, <5>2, BleStops
        <5>3. CASE ~ble.up /\ ble' = ble
          BY <5>3
        <5> QED
          BY <3>1, <5>2, <5>3
      <4> QED
        BY <3>1, <4>1, <4>2
    <3>2. CASE Failed(th, {}) /\ rf' = [rf EXCEPT !.switching = FALSE] /\ ble' = BleStopFails(ble)
      BY <3>2, FailedEffect, BleStops DEF TypeOK
    <3> QED
      BY <1>5, <3>1, <3>2 DEF Stop
  <2> QED
    BY <1>0, <2>1, <2>2 DEF RadioInv, OneSwitch, StartsAlone, InSwitch
<1>6. CASE Start(th)
  <2>1. "raced" \notin astray /\ InSwitch(th) /\ call[th].at = "start"
    BY <1>6, FailedEffect, SwitchedEffect DEF Start, At, InSwitch
  <2>2. /\ call'[th].at \in {"switch", "none", "rollback", "applied"}
        /\ ~(ble'.up /\ rf'.started)
    <3>1. ~ble.up
      BY <2>1 DEF RadioInv, StartsAlone
    <3>2. CASE Switched(th, [rf EXCEPT !.started = TRUE]) /\ UNCHANGED ble
      BY <3>1, <3>2, SwitchedEffect
    <3>3. CASE Failed(th, {}) /\ ~rf.started /\ rf' = [rf EXCEPT !.switching = FALSE]
      BY <3>3, FailedEffect DEF TypeOK
    <3> QED
      BY <1>6, <3>2, <3>3 DEF Start
  <2>3. \A o \in Threads : ~InSwitch(o)' /\ call'[o].at # "start"
    BY <1>0, <2>1, <2>2 DEF RadioInv, OneSwitch, InSwitch
  <2> QED
    BY <2>2, <2>3 DEF OneSwitch, StartsAlone
<1>7. CASE Enable(th)
  <2>1. "raced" \notin astray /\ InSwitch(th)
    BY <1>7, FailedEffect, SwitchedEffect DEF Enable, At, InSwitch
  <2>2. call'[th].at \in {"switch", "none", "rollback", "applied"} /\ ~rf'.started
    <3>1. CASE Switched(th, [rf EXCEPT !.started = FALSE])
      <4> DEFINE radio == [rf EXCEPT !.started = FALSE]
      <4>1. radio \in Rfs /\ ~radio.started
        BY DEF TypeOK, Rfs
      <4>2. Switched(th, radio)
        BY <3>1
      <4> HIDE DEF radio
      <4>3. ~rf'.started
        BY <4>1, <4>2, SwitchedRadio
      <4> QED
        BY <4>2, <4>3, SwitchedEffect
    <3>2. CASE Failed(th, {}) /\ rf' = [rf EXCEPT !.switching = FALSE, !.started = FALSE]
      BY <3>2, FailedEffect DEF TypeOK
    <3> QED
      BY <1>7, <3>1, <3>2 DEF Enable
  <2>3. \A o \in Threads : ~InSwitch(o)' /\ call'[o].at # "start"
    BY <1>0, <2>1, <2>2 DEF RadioInv, OneSwitch, InSwitch
  <2> QED
    BY <2>2, <2>3 DEF OneSwitch, StartsAlone
<1>8. CASE Applied(th)
  <2>1. call'[th].at = "none" /\ "raced" \notin astray
    BY <1>8, GotoEffect DEF Applied, Stages
  <2> QED
    BY <1>0, <1>8, <2>1 DEF Applied, RadioInv, OneSwitch, StartsAlone, InSwitch
<1>9. CASE Rollback(th)
  <2>1. call'[th].at = "none" /\ "raced" \notin astray
    BY <1>9, GotoEffect DEF Rollback, Stages
  <2> QED
    BY <1>0, <1>9, <2>1 DEF Rollback, RadioInv, OneSwitch, StartsAlone, InSwitch
<1> QED
  BY <1>1, <1>2, <1>3, <1>4, <1>5, <1>6, <1>7, <1>8, <1>9 DEF Step

\* What starts, asks for or ends a call outside a switch leaves the radios to the others
LEMMA KeepsRadio ==
  ASSUME RadioInv, "raced" \notin astray, ble'.up = ble.up, rf'.switching = rf.switching,
         rf'.started => rf.started,
         \A th \in Threads : call'[th].at = call[th].at \/ ~InSwitch(th)'
  PROVE  RadioInv'
BY DEF RadioInv, OneSwitch, StartsAlone, InSwitch

LEMMA BootRadio ==
  ASSUME NEW saved \in Wireless, NEW status, Boot(saved, status)
  PROVE  RadioInv'
<1>1. \A th \in Threads : call'[th].at \in {"none", "switch"}
  BY BootEffect, NoCallAt, ThreadCases
<1>2. ~rf'.started
  BY DEF Boot
<1> QED
  BY <1>1, <1>2 DEF RadioInv, OneSwitch, StartsAlone, InSwitch

LEMMA OtherRadio ==
  ASSUME Inv0, RadioInv, OtherStep
  PROVE  RadioInv'
<1> SUFFICES ASSUME "raced" \notin astray'
             PROVE  RadioInv'
  BY DEF RadioInv
<1>0. "work" \in Threads /\ "low" \in Threads /\ TypeOK
  BY DEF Threads, Inv0
<1>1. ASSUME NEW t \in Wireless \cup {"usb"}, KeySelects(t)
      PROVE  RadioInv'
  <2>1. "raced" \notin astray
    BY <1>1 DEF KeySelects, Select
  <2>2. call'["work"].at \in {"none", "persist", "switch"} /\ call'["low"] = call["low"]
    BY <1>0, <1>1, SelectEffect, NoCallAt DEF KeySelects
  <2> QED
    BY <1>1, <2>1, <2>2, KeepsRadio, ThreadCases DEF KeySelects, InSwitch
<1>2. ASSUME NEW t \in Wireless \cup {"usb"}, StudioAsks(t)
      PROVE  RadioInv'
  <2>1. call'["low"].at = "asked" /\ call'["work"] = call["work"]
    BY <1>0, <1>2 DEF StudioAsks, TypeOK, NoCall
  <2> QED
    BY <1>2, <2>1, KeepsRadio, ThreadCases DEF StudioAsks, InSwitch
<1>3. CASE KeyToggles
  BY <1>1, <1>3 DEF KeyToggles, ToggleTarget, Wireless
<1>4. CASE StudioSelects
  <2>1. call["low"].sel \in Wireless \cup {"usb"} /\ Select("low", call["low"].sel)
    BY <1>0, <1>4, CallType DEF StudioSelects
  <2>2. call'["low"].at \in {"none", "persist", "switch"} /\ call'["work"] = call["work"]
    BY <1>0, <2>1, SelectEffect, NoCallAt
  <2>3. "raced" \notin astray
    BY <2>1 DEF Select
  <2> QED
    BY <1>4, <2>2, <2>3, KeepsRadio, ThreadCases DEF StudioSelects, InSwitch
<1>5. CASE SaveWork
  BY <1>5, KeepsRadio DEF SaveWork
<1>6. CASE UsbWork
  <2>1. call'["work"].at \in {"none", "switch"} /\ call'["low"] = call["low"]
    <3>1. CASE usb = "none"
      <4>1. Apply("work", UsbSeen)
        BY <1>6, <3>1 DEF UsbWork, UsbSeen
      <4> QED
        BY <1>0, <4>1, UsbSeenType, ApplyEffect
    <3>2. CASE usb # "none"
      BY <1>6, <3>2 DEF UsbWork, WorkFree
    <3> QED
      BY <3>1, <3>2
  <2>2. "raced" \notin astray
    BY <1>6 DEF UsbWork
  <2> QED
    BY <1>6, <2>1, <2>2, KeepsRadio, ThreadCases DEF UsbWork, InSwitch
<1>7. CASE ProfileWork
  BY <1>7, KeepsRadio DEF ProfileWork
<1>8. CASE AdvertiseWork
  BY <1>0, <1>8, KeepsRadio, BleFacts DEF AdvertiseWork, AdvertisingWork, TypeOK
<1>9. CASE RecoverWork
  <2>1. CASE rf.started
    <3>1. "raced" \notin astray /\ ~rf.switching
      BY <1>9, <2>1 DEF RecoverWork
    <3>2. rf'.switching = FALSE /\ rf'.started = rf.started
      BY <1>0, <1>9, <2>1 DEF RecoverWork, TypeOK
    <3> QED
      BY <1>0, <1>9, <2>1, <3>1, <3>2, KeepsRadio DEF RecoverWork, TypeOK
  <2>2. CASE ~rf.started
    BY <1>0, <1>9, <2>2, BootRadio DEF RecoverWork, TypeOK
  <2> QED
    BY <2>1, <2>2
<1>10. ASSUME NEW status, UsbChanges(status)
       PROVE  RadioInv'
  BY <1>10, KeepsRadio DEF UsbChanges
<1>11. ASSUME NEW h \in Hosts, HostConnects(h)
       PROVE  RadioInv'
  <2> DEFINE c == [ble EXCEPT !.linked = @ \cup {h}, !.adv = FALSE]
  <2>1. c \in BleStates /\ c.up = ble.up
    BY <1>0 DEF TypeOK, BleStates
  <2>2. ble' = UpdateAdvertising(c)
    BY <1>11 DEF HostConnects, Connected
  <2> HIDE DEF c
  <2>3. ble'.up = ble.up
    BY <2>1, <2>2, BleFacts
  <2> QED
    BY <1>11, <2>3, KeepsRadio DEF HostConnects
<1>12. ASSUME NEW h \in Hosts, HostDisconnects(h)
       PROVE  RadioInv'
  <2>1. ble'.up = ble.up
    BY <1>0, <1>12 DEF HostDisconnects, Disconnected, TypeOK, BleStates
  <2> QED
    BY <1>12, <2>1, KeepsRadio DEF HostDisconnects
<1>13. CASE PairingStops
  BY <1>0, <1>13, KeepsRadio DEF PairingStops, TypeOK
<1>14. CASE PairingStarts
  <2>1. CASE rf' = [rf EXCEPT !.restarting = FALSE] /\ astray' = astray \cup {"unrestored"}
    BY <1>0, <1>14, <2>1, KeepsRadio DEF PairingStarts, TypeOK
  <2>2. CASE astray' = (IF rf.switching \/ ble.up THEN astray \cup {"raced"} ELSE astray)
    <3>1. "raced" \notin astray /\ ~rf.switching /\ ~ble.up
      BY <2>2
    <3> QED
      BY <1>14, <3>1 DEF PairingStarts, RadioInv, OneSwitch, StartsAlone, InSwitch
  <2> QED
    BY <1>14, <2>1, <2>2 DEF PairingStarts
<1>15. CASE WatchdogExpires
  BY <1>15, KeepsRadio DEF WatchdogExpires
<1>16. CASE Restart
  BY <1>0, <1>16, BootRadio DEF Restart, TypeOK
<1> QED
  BY <1>1, <1>2, <1>3, <1>4, <1>5, <1>6, <1>7, <1>8, <1>9, <1>10, <1>11, <1>12, <1>13, <1>14,
     <1>15, <1>16 DEF OtherStep, Work

LEMMA RadioStep == Inv0 /\ RadioInv /\ [Next]_vars => RadioInv'
<1> SUFFICES ASSUME Inv0, RadioInv, [Next]_vars
             PROVE  RadioInv'
  OBVIOUS
<1>1. CASE UNCHANGED vars
  BY <1>1 DEF vars, RadioInv, OneSwitch, StartsAlone, InSwitch
<1> QED
  BY <1>1, NextSplits, OtherRadio, StepRadio

LEMMA RadioInit == Init => RadioInv
<1> SUFFICES ASSUME Init
             PROVE  RadioInv
  OBVIOUS
<1>1. \A th \in Threads : call[th].at \in {"none", "switch"}
  BY NoCallAt, ThreadCases DEF Init
<1>2. ~rf.started
  BY DEF Init
<1> QED
  BY <1>1, <1>2 DEF RadioInv, OneSwitch, StartsAlone, InSwitch

(***************************************************************************)
(* BLE and 2.4G never run together unless radio_switching failed to keep   *)
(* two switches apart: the flag covers a call from its claim to its end    *)
(* (OneSwitch), and between bt_disable and zmk_2g4_start nothing enables   *)
(* BLE again (StartsAlone).                                                *)
(***************************************************************************)
THEOREM EndpointsOneRadio == Spec => []OneRadio
<1>1. RadioInv => OneRadio
  BY DEF RadioInv, OneRadio
<1> QED
  BY <1>1, Init0, TypeStep, RadioInit, RadioStep, PTL DEF Spec
-----------------------------------------------------------------------------
(* Advertising *)

\* Advertising is off while BLE is down, and right unless work will put it right
AdvInv ==
  /\ "advertising" \notin works => ble.adv = (ble.up /\ ~ActiveConnected(ble))
  /\ ble.up \/ ~ble.adv

\* BLE goes down, or advertising is updated
LEMMA AdvKept ==
  ASSUME Inv0, AdvInv, works' = works \/ "advertising" \in works'
                       \/ works' = works \cup {"save"} \/ works' = works \ {"save"}
                       \/ works' = works \ {"usb"} \/ works' = works \ {"profile"}
                       \/ works' = works \ {"recover"} \/ works' = works \cup {"recover"}
                       \/ works' = works \cup {"usb"},
         \/ ble' = ble
         \/ \E b \in BleStates : ble' = UpdateAdvertising(b) /\ b.up
         \/ ble' = BleStart(ble)
  PROVE  AdvInv'
<1> USE DEF Inv0
<1>0. ble \in BleStates
  BY DEF TypeOK
<1>1. CASE ble' = ble
  BY <1>1 DEF AdvInv
<1>2. ASSUME NEW b \in BleStates, b.up, ble' = UpdateAdvertising(b)
      PROVE  AdvInv'
  BY <1>2, BleFacts DEF AdvInv
<1>3. CASE ble' = BleStart(ble)
  BY <1>0, <1>1, <1>3, BleStarts DEF AdvInv
<1> QED
  BY <1>1, <1>2, <1>3

LEMMA BootAdv ==
  ASSUME Inv0, NEW saved, NEW status, Boot(saved, status)
  PROVE  AdvInv'
BY DEF Boot, AdvInv, Inv0, TypeOK, BleStates, ActiveConnected

LEMMA AdvStep ==
  ASSUME Inv0, AdvInv, [Next]_vars
  PROVE  AdvInv'
<1>0. TypeOK /\ ble \in BleStates
  BY DEF Inv0, TypeOK
<1>1. CASE UNCHANGED vars
  BY <1>1 DEF vars, AdvInv
<1>2. ASSUME NEW th \in Threads, Step(th)
      PROVE  AdvInv'
  <2>1. CASE Stop(th)
    <3>1. CASE ble' = BleStop(ble)
      BY <1>0, <3>1, BleStops DEF AdvInv
    <3>2. CASE ble' = BleStopFails(ble)
      BY <1>0, <3>2, BleStops DEF AdvInv
    <3>3. CASE UNCHANGED <<ble, works>>
      BY <3>3 DEF AdvInv
    <3> QED
      BY <2>1, <3>1, <3>2, <3>3 DEF Stop
  <2>2. CASE Start(th)
    BY <2>2, AdvKept DEF Start
  <2>3. CASE Enable(th)
    BY <2>3, AdvKept DEF Enable
  <2>4. CASE Applied(th)
    BY <2>4, AdvKept DEF Applied
  <2>5. CASE Persist(th) \/ Check(th) \/ Claim(th) \/ Reserve(th) \/ Rollback(th)
    BY <2>5 DEF Persist, Check, Claim, Reserve, Rollback, AdvInv
  <2> QED
    BY <1>2, <2>1, <2>2, <2>3, <2>4, <2>5 DEF Step
<1>3. CASE OtherStep
  <2>1. ASSUME NEW t, KeySelects(t) \/ StudioAsks(t)
        PROVE  AdvInv'
    BY <2>1 DEF KeySelects, StudioAsks, AdvInv
  <2>2. CASE KeyToggles \/ StudioSelects \/ PairingStops \/ PairingStarts
    BY <2>2 DEF KeyToggles, KeySelects, StudioSelects, PairingStops, PairingStarts, AdvInv
  <2>3. CASE SaveWork \/ UsbWork \/ ProfileWork \/ WatchdogExpires
    BY <2>3, AdvKept DEF SaveWork, UsbWork, ProfileWork, WatchdogExpires
  <2>4. CASE AdvertiseWork
    <3>1. ble' = UpdateAdvertising(ble) /\ ble.adv \in BOOLEAN
      BY <1>0, <2>4 DEF AdvertiseWork, AdvertisingWork, BleStates
    <3>2. CASE ble.up
      BY <1>0, <3>1, <3>2, BleFacts DEF AdvInv
    <3>3. CASE ~ble.up
      <4>1. ble'.up = ble.up /\ ble'.adv = FALSE
        BY <1>0, <3>1, <3>3, BleFacts DEF AdvInv
      <4> QED
        BY <3>3, <4>1 DEF AdvInv
    <3> QED
      BY <3>2, <3>3
  <2>5. CASE RecoverWork
    BY <2>5, AdvKept, BootAdv DEF RecoverWork
  <2>6. ASSUME NEW status, UsbChanges(status)
        PROVE  AdvInv'
    BY <2>6, AdvKept DEF UsbChanges
  <2>7. ASSUME NEW h \in Hosts, HostConnects(h)
        PROVE  AdvInv'
    <3> DEFINE b == [ble EXCEPT !.linked = @ \cup {h}, !.adv = FALSE]
    <3>1. b \in BleStates /\ b.up
      BY <1>0, <2>7 DEF BleStates, HostConnects, Connected
    <3>2. ble' = UpdateAdvertising(b)
      BY <2>7 DEF HostConnects, Connected
    <3> HIDE DEF b
    <3> QED
      BY <3>1, <3>2, BleFacts DEF AdvInv
  <2>8. ASSUME NEW h \in Hosts, HostDisconnects(h)
        PROVE  AdvInv'
    BY <1>0, <2>8 DEF HostDisconnects, Disconnected, AdvInv, BleStates
  <2>9. CASE Restart
    BY <2>9, BootAdv DEF Restart
  <2> QED
    BY <1>3, <2>1, <2>2, <2>3, <2>4, <2>5, <2>6, <2>7, <2>8, <2>9 DEF OtherStep, Work
<1> QED
  BY <1>1, <1>2, <1>3, NextSplits

LEMMA AdvInit == Init => AdvInv
<1> SUFFICES ASSUME Init
             PROVE  AdvInv
  OBVIOUS
<1>1. ble.adv = TRUE /\ ble.up = TRUE /\ ble.linked = {}
  BY DEF Init
<1> QED
  BY <1>1 DEF AdvInv, ActiveConnected
-----------------------------------------------------------------------------
(* The endpoint follows the selection *)

\* A selection that has not failed yet, and will update the endpoint when it ends
Pending(th) ==
  /\ call[th].at \in {"persist", "switch", "claim", "reserve", "stop", "start", "enable", "applied"}
  /\ call[th].to = call[th].sel

FollowInv ==
  \/ ep.current = Selected(ep) \/ "missed" \in astray \/ "usb" \in works
  \/ \E th \in Threads : Pending(th)

LEMMA UpdateCurrentFollows ==
  ASSUME NEW e \in Eps
  PROVE  /\ UpdateCurrent(e).current = Selected(UpdateCurrent(e))
         /\ UpdateCurrent(e).preferred = e.preferred
BY DEF UpdateCurrent, Selected, Eps

\* A step after which the endpoint follows, with USB as it was
LEMMA FollowUpdates ==
  ASSUME NEW e \in Eps, ep' = UpdateCurrent(e), UNCHANGED usb
  PROVE  FollowInv'
BY UpdateCurrentFollows DEF FollowInv, Selected

LEMMA FollowKept ==
  ASSUME FollowInv, UNCHANGED <<ep, usb>>, "missed" \in astray => "missed" \in astray',
         "usb" \in works => "usb" \in works',
         \A th \in Threads : Pending(th) => Pending(th)' \/ "missed" \in astray'
  PROVE  FollowInv'
BY DEF FollowInv, Selected

LEMMA BootFollows ==
  ASSUME NEW saved \in Wireless, NEW status, Boot(saved, status)
  PROVE  FollowInv'
<1>1. CASE status = "ready"
  BY <1>1 DEF Boot, FollowInv, Selected
<1>2. CASE status # "ready"
  BY <1>2, BootEffect DEF FollowInv, Pending, Threads
<1> QED
  BY <1>1, <1>2

\* The selection of a transport follows at once or is pending
LEMMA SelectFollows ==
  ASSUME TypeOK, NEW th \in Threads, NEW t \in Wireless \cup {"usb"}, Select(th, t), UNCHANGED usb
  PROVE  FollowInv'
<1>1. CASE t = "usb"
  <2>1. [ep EXCEPT !.manual = FALSE] \in Eps
    BY DEF TypeOK, Eps
  <2> QED
    BY <1>1, <2>1, FollowUpdates DEF Select
<1>2. CASE t # "usb"
  BY <1>2, SelectEffect DEF FollowInv, Pending
<1> QED
  BY <1>1, <1>2

LEMMA FollowStep ==
  ASSUME Inv0, FollowInv, NEW th \in Threads, Step(th)
  PROVE  FollowInv'
<1> USE DEF Inv0
<1>0. /\ \A o \in Threads : o # th => call'[o] = call[o]
      /\ ep \in Eps
  BY StepEffect DEF TypeOK, Eps
<1>a. ASSUME "missed" \in astray'
      PROVE  FollowInv'
  BY <1>a DEF FollowInv
<1>b. ASSUME UNCHANGED <<ep, usb>>, "missed" \in astray => "missed" \in astray',
             "usb" \in works => "usb" \in works', Pending(th) => Pending(th)'
      PROVE  FollowInv'
  BY <1>0, <1>b, FollowKept DEF Pending
<1>1. CASE Persist(th)
  BY <1>1, <1>a, <1>b, GotoEffect, BeginEffect DEF Persist, Pending, Stages
<1>2. CASE Check(th)
  BY <1>2, <1>a, <1>b, GotoEffect, FailedEffect DEF Check, Pending, Stages
<1>3. CASE Claim(th)
  BY <1>3, <1>b, GotoEffect DEF Claim, Pending, Stages
<1>4. CASE Reserve(th)
  BY <1>4, <1>a, <1>b, GotoEffect, FailedEffect DEF Reserve, Pending, Stages
<1>5. CASE Stop(th)
  <2>1. UNCHANGED <<ep, usb>> /\ ("usb" \in works => "usb" \in works')
    BY <1>5 DEF Stop, StopWorks
  <2> QED
    BY <1>5, <1>a, <1>b, <2>1, GotoEffect, FailedEffect DEF Stop, Pending, Stages
<1>6. CASE Start(th)
  <2>1. UNCHANGED <<works, usb, ep>>
    BY <1>6 DEF Start
  <2>2. CASE Switched(th, [rf EXCEPT !.started = TRUE])
    <3>1. Pending(th) => Pending(th)'
      BY <2>2, SwitchedEffect, NoCallAt DEF Pending
    <3> QED
      BY <2>1, <2>2, <3>1, <1>b, SwitchedEffect
  <2>3. CASE Failed(th, {})
    BY <2>3, <1>a, FailedEffect
  <2> QED
    BY <1>6, <2>2, <2>3 DEF Start
<1>7. CASE Enable(th)
  <2>1. UNCHANGED <<works, usb, ep>>
    BY <1>7 DEF Enable
  <2>2. CASE Switched(th, [rf EXCEPT !.started = FALSE])
    <3>1. Pending(th) => Pending(th)'
      BY <2>2, SwitchedEffect, NoCallAt DEF Pending
    <3> QED
      BY <2>1, <2>2, <3>1, <1>b, SwitchedEffect
  <2>3. CASE Failed(th, {})
    BY <2>3, <1>a, FailedEffect
  <2> QED
    BY <1>7, <2>2, <2>3 DEF Enable
<1>8. CASE Applied(th)
  <2>1. call[th].sel \in Wireless
    BY <1>8 DEF Applied, At, SwitchesRadios, Mid
  <2>2. [ep EXCEPT !.preferred = call[th].sel] \in Eps
    BY <1>0, <2>1 DEF Eps
  <2> QED
    BY <1>8, <2>2, FollowUpdates DEF Applied
<1>9. CASE Rollback(th)
  <2>1. ~Pending(th)
    BY <1>9 DEF Rollback, At, Pending
  <2> QED
    BY <1>9, <1>b, <2>1 DEF Rollback
<1> QED
  BY <1>1, <1>2, <1>3, <1>4, <1>5, <1>6, <1>7, <1>8, <1>9 DEF Step

LEMMA OtherFollows ==
  ASSUME Inv0, FollowInv, OtherStep
  PROVE  FollowInv'
<1>0. "work" \in Threads /\ "low" \in Threads /\ TypeOK /\ ep \in Eps
  BY DEF Threads, Inv0, TypeOK, Eps
<1>1. ASSUME NEW t \in Wireless \cup {"usb"}, KeySelects(t)
      PROVE  FollowInv'
  BY <1>0, <1>1, SelectFollows DEF KeySelects
<1>2. ASSUME NEW t \in Wireless \cup {"usb"}, StudioAsks(t)
      PROVE  FollowInv'
  <2>1. call'["work"] = call["work"] /\ ~Pending("low")
    BY <1>0, <1>2 DEF StudioAsks, TypeOK, Pending
  <2> QED
    BY <1>2, <2>1, FollowKept, ThreadCases DEF StudioAsks, Pending
<1>3. CASE KeyToggles
  BY <1>1, <1>3 DEF KeyToggles, ToggleTarget, Wireless
<1>4. CASE StudioSelects
  BY <1>0, <1>4, CallType, SelectFollows DEF StudioSelects
<1>5. CASE SaveWork
  BY <1>5, FollowKept DEF SaveWork, Pending
<1>6. CASE UsbWork
  <2>1. CASE usb = "none"
    <3>1. Apply("work", UsbSeen)
      BY <1>6, <2>1 DEF UsbWork, UsbSeen
    <3>2. call'["work"].at = "switch" /\ call'["work"].to = call'["work"].sel
      BY <1>0, <3>1, UsbSeenType, ApplyEffect
    <3> QED
      BY <1>0, <3>2 DEF FollowInv, Pending
  <2>2. CASE usb # "none"
    <3>1. ep' = UpdateCurrent(UsbSeen) /\ UNCHANGED usb
      BY <1>6, <2>2 DEF UsbWork, UsbSeen
    <3> QED
      BY <1>0, <3>1, UsbSeenType, FollowUpdates
  <2> QED
    BY <2>1, <2>2
<1>7. CASE ProfileWork
  BY <1>0, <1>7, FollowUpdates DEF ProfileWork
<1>8. CASE AdvertiseWork
  BY <1>8, FollowKept DEF AdvertiseWork, AdvertisingWork, Pending
<1>9. CASE RecoverWork
  BY <1>0, <1>9, FollowUpdates, BootFollows DEF RecoverWork, TypeOK
<1>10. ASSUME NEW status, UsbChanges(status)
       PROVE  FollowInv'
  BY <1>10 DEF UsbChanges, FollowInv
<1>11. ASSUME NEW h \in Hosts, HostConnects(h) \/ HostDisconnects(h)
       PROVE  FollowInv'
  BY <1>11, FollowKept DEF HostConnects, HostDisconnects, Connected, Disconnected, Pending
<1>12. CASE PairingStops
  BY <1>12, FollowKept DEF PairingStops, Pending
<1>13. CASE PairingStarts
  BY <1>13, FollowKept DEF PairingStarts, Pending
<1>14. CASE WatchdogExpires
  BY <1>14, FollowKept DEF WatchdogExpires, Pending
<1>15. CASE Restart
  BY <1>0, <1>15, BootFollows DEF Restart, TypeOK
<1> QED
  BY <1>1, <1>2, <1>3, <1>4, <1>5, <1>6, <1>7, <1>8, <1>9, <1>10, <1>11, <1>12, <1>13, <1>14,
     <1>15 DEF OtherStep, Work

LEMMA FollowNext ==
  ASSUME Inv0, FollowInv, [Next]_vars
  PROVE  FollowInv'
<1>1. CASE UNCHANGED vars
  BY <1>1 DEF vars, FollowInv, Selected, Pending
<1> QED
  BY <1>1, NextSplits, OtherFollows, FollowStep

LEMMA FollowInit == Init => FollowInv
BY DEF Init, FollowInv, Pending, Threads
-----------------------------------------------------------------------------
(* The radios agree *)

\* The radio that runs is the one the endpoints believe to run
Settled == /\ ble.up = (rf.active = "ble")
           /\ rf.restarting \/ rf.started = (rf.active = "2g4")

\* A call that has not failed so far, and one that restores the previous radio
Going(c) ==
  /\ c.to = c.sel /\ rf.active = c.prev
  /\ IF c.at = "start" THEN ~ble.up /\ (rf.restarting \/ ~rf.started \/ rf.active = "2g4") ELSE Settled
Restoring(c) ==
  /\ c.to = c.prev /\ c.sel # c.prev /\ rf.active = c.prev
  /\ IF c.prev = "2g4" THEN ~ble.up ELSE Settled

\* The radios at each stage, and what was saved on the way
Stage(c) ==
  CASE c.at = "persist" -> Going(c) /\ c.sel = "2g4" /\ c.was = "ble"
    [] c.at = "applied" -> c.to = c.sel /\ rf.active = c.sel /\ Settled
    [] c.at = "rollback" -> rf.active = c.prev /\ Settled /\ c.sel = "2g4" /\ c.was = "ble"
    [] OTHER -> Going(c) \/ Restoring(c)
Saved == flash = ep.preferred \/ "save" \in works
SavedBy(c) ==
  IF c.sel = "2g4" /\ c.was = "ble" /\ c.at # "persist"
  THEN c.at # "rollback" => flash = "2g4"
  ELSE Saved
CallInv(c) ==
  /\ c.sel \in Wireless /\ c.was = ep.preferred
  /\ "lazy" \in astray \/ c.prev = c.was
  /\ c.at \in {"reserve", "stop", "start"} => c.to = "2g4"
  /\ c.at = "enable" => c.to = "ble"
  /\ Stage(c) /\ SavedBy(c)

\* With no call under way
RestInv == Settled /\ ("lazy" \in astray \/ rf.active = ep.preferred) /\ Saved

MadeGood == astray \subseteq {"missed", "lazy"}
AgreeInv ==
  MadeGood =>
    /\ \A th, o \in Threads : Mid(th) /\ Mid(o) => th = o
    /\ \A th \in Threads : Mid(th) => CallInv(call[th])
    /\ (\A th \in Threads : ~Mid(th)) => RestInv

\* A failed switch of a call whose first switch it was goes back to the previous radio
LEMMA FailedGoesBack ==
  ASSUME TypeOK, NEW th \in Threads, NEW why, Failed(th, why), MadeGood', Mid(th),
         CallInv(call[th]), call[th].at \notin {"persist", "applied", "rollback"}
  PROVE  /\ Going(call[th]) /\ call[th].to = call[th].sel /\ call[th].prev # call[th].sel
         /\ call'[th].at = "switch" /\ call'[th].to = call[th].prev
         /\ call'[th].sel = call[th].sel /\ call'[th].was = call[th].was
         /\ call'[th].prev = call[th].prev
         /\ "lazy" \in astray => "lazy" \in astray'
<1>1. "unrestored" \notin astray'
  BY DEF MadeGood
<1>2. call[th].to = call[th].sel /\ call[th].prev # call[th].sel
  BY <1>1, FailedEffect
<1>3. Going(call[th])
  BY <1>2 DEF CallInv, Stage, Restoring
<1>4. call'[th] # NoCall
  BY <1>2, FailedEffect, NoCallAt
<1> QED
  BY <1>2, <1>3, <1>4, FailedEffect

\* Then the call restores the radio, which is at rest or off
LEMMA RestoringAgrees ==
  ASSUME TypeOK, NEW th \in Threads, MadeGood, Mid(th), CallInv(call[th]),
         call[th].at \notin {"persist", "applied", "rollback"},
         Failed(th, {}), MadeGood', UNCHANGED <<ep, flash>>,
         "save" \in works => "save" \in works',
         rf'.active = rf.active,
         IF rf.active = "2g4" THEN ~ble'.up ELSE Settled'
  PROVE  CallInv(call[th])'
<1>1. /\ Going(call[th]) /\ call[th].to = call[th].sel /\ call[th].prev # call[th].sel
      /\ call'[th].at = "switch" /\ call'[th].to = call[th].prev
      /\ call'[th].sel = call[th].sel /\ call'[th].was = call[th].was
      /\ call'[th].prev = call[th].prev
      /\ "lazy" \in astray => "lazy" \in astray'
  BY FailedGoesBack
<1>2. Restoring(call[th])'
  BY <1>1 DEF Restoring, Going
<1>3. Stage(call[th])'
  BY <1>1, <1>2 DEF Stage
<1>4. SavedBy(call[th])'
  BY <1>1 DEF CallInv, SavedBy, Saved
<1> QED
  BY <1>1, <1>3, <1>4 DEF CallInv

\* A step forgives a failure, never a disorder
LEMMA AstrayKept ==
  ASSUME TypeOK, NEW th \in Threads, Step(th)
  PROVE  astray \ {"missed", "lazy"} \subseteq astray'
<1>1. ASSUME NEW why, Failed(th, why)
      PROVE  astray \subseteq astray'
  BY <1>1, FailedEffect
<1>2. ASSUME NEW radio, Switched(th, radio)
      PROVE  astray \subseteq astray'
  BY <1>2, SwitchedEffect
<1> QED
  BY <1>1, <1>2 DEF Step, Persist, Check, Claim, Reserve, Stop, Start, Enable, Applied, Rollback

\* A call moves on to a stage before the switch of radios
LEMMA MovesOn ==
  ASSUME TypeOK, NEW th \in Threads, Mid(th), CallInv(call[th]),
         NEW stage \in {"claim", "reserve", "stop", "enable"}, Goto(th, stage),
         call[th].at \in {"switch", "claim", "reserve"},
         stage \in {"reserve", "stop"} => call[th].to = "2g4",
         stage = "enable" => call[th].to = "ble",
         UNCHANGED <<ble, works, ep, flash, astray>>,
         rf'.active = rf.active, rf'.started = rf.started, rf'.restarting = rf.restarting
  PROVE  CallInv(call[th])' /\ Mid(th)'
<1>1. /\ call'[th].at = stage /\ call'[th].to = call[th].to /\ call'[th].sel = call[th].sel
      /\ call'[th].was = call[th].was /\ call'[th].prev = call[th].prev
  BY GotoEffect DEF Stages
<1>2. Settled' = Settled
  BY DEF Settled
<1>3. Stage(call[th])'
  BY <1>1, <1>2 DEF CallInv, Stage, Going, Restoring
<1>4. SavedBy(call[th])'
  BY <1>1 DEF CallInv, SavedBy, Saved
<1> QED
  BY <1>1, <1>3, <1>4 DEF CallInv, Mid

\* The radio has been switched
LEMMA SwitchedAgrees ==
  ASSUME TypeOK, MadeGood, NEW th \in Threads, Mid(th), CallInv(call[th]),
         call[th].at \in {"start", "enable"}, NEW radio \in Rfs, Switched(th, radio),
         radio.started = (call[th].to = "2g4"), ble'.up = (call[th].to = "ble"),
         UNCHANGED <<works, ep, flash>>
  PROVE  /\ Mid(th)' => CallInv(call[th])'
         /\ ~Mid(th)' => RestInv'
<1>1. Settled' /\ rf'.active = call[th].to
  BY SwitchedRadio, CallType DEF Settled, Wireless
<1>2. CASE call[th].to = call[th].sel
  <2>1. call'[th].at = "applied" /\ astray' = astray
    BY <1>2, SwitchedEffect
  <2>2. /\ call'[th].to = call[th].to /\ call'[th].sel = call[th].sel
        /\ call'[th].was = call[th].was /\ call'[th].prev = call[th].prev
    BY <2>1, SwitchedEffect, NoCallAt
  <2>3. Stage(call[th])'
    BY <1>1, <1>2, <2>1, <2>2 DEF Stage
  <2>4. SavedBy(call[th])'
    BY <2>1, <2>2 DEF CallInv, SavedBy, Saved
  <2> QED
    BY <2>1, <2>2, <2>3, <2>4 DEF CallInv, Mid
<1>3. CASE call[th].to # call[th].sel
  <2>1. /\ call[th].to = call[th].prev /\ rf.active = call[th].prev /\ astray' = astray
        /\ "lazy" \in astray \/ call[th].prev = call[th].was
        /\ call[th].was = ep.preferred
    BY <1>3, SwitchedEffect DEF CallInv, Stage, Going, Restoring
  <2>2. CASE call[th].sel = "2g4" /\ call[th].was # call[th].sel
    <3>1. call'[th].at = "rollback" /\ call[th].was = "ble"
      BY <1>3, <2>2, SwitchedEffect, CallType DEF Wireless
    <3>2. /\ call'[th].to = call[th].to /\ call'[th].sel = call[th].sel
          /\ call'[th].was = call[th].was /\ call'[th].prev = call[th].prev
      BY <3>1, SwitchedEffect, NoCallAt
    <3>3. Stage(call[th])'
      BY <1>1, <2>1, <2>2, <3>1, <3>2 DEF Stage
    <3>4. SavedBy(call[th])'
      BY <2>2, <3>1, <3>2 DEF SavedBy
    <3> QED
      BY <2>1, <3>1, <3>2, <3>3, <3>4 DEF CallInv, Mid
  <2>3. CASE ~(call[th].sel = "2g4" /\ call[th].was # call[th].sel)
    <3>1. call'[th].at = "none"
      BY <1>3, <2>3, SwitchedEffect
    <3>2. Saved'
      BY <2>3 DEF CallInv, SavedBy, Saved
    <3> QED
      BY <1>1, <2>1, <3>1, <3>2 DEF RestInv, Mid
  <2> QED
    BY <2>2, <2>3
<1> QED
  BY <1>2, <1>3

LEMMA StepAgrees ==
  ASSUME Inv0, RadioInv, AgreeInv, NEW th \in Threads, Step(th)
  PROVE  AgreeInv'
<1> SUFFICES ASSUME MadeGood'
             PROVE  AgreeInv'
  BY DEF AgreeInv
<1>0. TypeOK /\ MadeGood /\ Mid(th) /\ \A o \in Threads : o # th => ~Mid(o) /\ call'[o] = call[o]
  <2>1. MadeGood
    BY AstrayKept DEF MadeGood, Inv0
  <2> QED
    BY <2>1, StepEffect DEF AgreeInv, Inv0
<1>1. CallInv(call[th])
  BY <1>0 DEF AgreeInv
<1> SUFFICES (Mid(th)' => CallInv(call[th])') /\ (~Mid(th)' => RestInv')
  BY <1>0 DEF AgreeInv, Mid
<1>2. /\ call[th].to \in Wireless /\ call[th].sel \in Wireless /\ call[th].prev \in Wireless
      /\ call[th].was \in Wireless /\ rf \in Rfs /\ ble \in BleStates
      /\ rf.active \in Wireless
  BY <1>0, <1>1, CallType DEF CallInv, TypeOK, Rfs
<1>3. CASE Persist(th)
  <2>1. /\ call[th].at = "persist" /\ UNCHANGED <<ble, works, ep, rf>>
    BY <1>3 DEF Persist, At
  <2>2. Going(call[th]) /\ call[th].sel = "2g4" /\ call[th].was = "ble" /\ Saved
    BY <1>1, <2>1 DEF CallInv, Stage, SavedBy
  <2>3. Settled' /\ Settled
    BY <2>1, <2>2 DEF Going, Settled
  <2>4. CASE flash' = call[th].sel /\ BeginSwitch(th) /\ UNCHANGED astray
    <3>1. /\ call'[th].at = "switch" /\ call'[th].to = call[th].to /\ call'[th].sel = call[th].sel
          /\ call'[th].was = call[th].was /\ call'[th].prev = call[th].prev
      BY <1>0, <2>2, <2>4, BeginEffect DEF Going
    <3>2. Stage(call[th])'
      BY <2>1, <2>2, <2>3, <3>1 DEF Stage, Going
    <3>3. SavedBy(call[th])'
      BY <2>2, <2>4, <3>1 DEF SavedBy
    <3> QED
      BY <1>1, <2>1, <2>4, <3>1, <3>2, <3>3 DEF CallInv, Mid
  <2>5. CASE Goto(th, "none") /\ UNCHANGED flash /\ astray' = astray \cup {"missed"}
    <3>1. call'[th].at = "none"
      BY <1>0, <2>5, GotoEffect DEF Stages
    <3>2. "lazy" \in astray' \/ rf'.active = ep'.preferred
      BY <1>1, <2>1, <2>2, <2>5 DEF CallInv, Going
    <3>3. Saved'
      BY <2>1, <2>2, <2>5 DEF Saved
    <3> QED
      BY <2>3, <3>1, <3>2, <3>3 DEF RestInv, Mid
  <2> QED
    BY <1>3, <2>4, <2>5 DEF Persist
<1>4. CASE Check(th)
  <2>1. ~rf.switching
    <3>1. ASSUME Failed(th, {"refused"})
          PROVE  FALSE
      BY <1>0, <3>1, FailedEffect DEF MadeGood
    <3> QED
      BY <1>4, <3>1 DEF Check
  <2> QED
    BY <1>0, <1>1, <1>4, <2>1, MovesOn DEF Check, At
<1>5. CASE Claim(th)
  <2>1. UNCHANGED <<ble, works, ep, flash, astray>>
    BY <1>5 DEF Claim, MadeGood
  <2>2. rf'.active = rf.active /\ rf'.started = rf.started /\ rf'.restarting = rf.restarting
    BY <1>2, <1>5 DEF Claim, Rfs
  <2>3. CASE call[th].to = "2g4" /\ Goto(th, "reserve")
    BY <1>0, <1>1, <1>5, <2>1, <2>2, <2>3, MovesOn DEF Claim, At
  <2>4. CASE call[th].to = "ble" /\ Goto(th, "enable")
    BY <1>0, <1>1, <1>5, <2>1, <2>2, <2>4, MovesOn DEF Claim, At
  <2> QED
    BY <1>2, <1>5, <2>3, <2>4 DEF Claim, Wireless
<1>6. CASE Reserve(th)
  <2>0. call[th].at = "reserve" /\ call[th].to = "2g4"
    BY <1>1, <1>6 DEF Reserve, At, CallInv
  <2>1. CASE Goto(th, "stop") /\ UNCHANGED <<rf, astray>>
    BY <1>0, <1>1, <1>6, <2>0, <2>1, MovesOn DEF Reserve
  <2>2. CASE rf' = [rf EXCEPT !.switching = FALSE] /\ Failed(th, {})
    <3>1. Going(call[th]) /\ call'[th].at = "switch"
      BY <1>0, <1>1, <2>0, <2>2, FailedGoesBack
    <3>2. rf'.active = rf.active /\ rf'.started = rf.started /\ rf'.restarting = rf.restarting
      BY <1>2, <2>2 DEF Rfs
    <3>3. Settled' /\ rf.active # "2g4"
      BY <1>0, <1>1, <1>6, <2>0, <2>2, <3>1, <3>2, FailedGoesBack DEF Reserve, Going, Settled
    <3>4. CallInv(call[th])'
      BY <1>0, <1>1, <1>6, <2>0, <2>2, <3>2, <3>3, RestoringAgrees DEF Reserve
    <3> QED
      BY <3>1, <3>4 DEF Mid
  <2> QED
    BY <1>6, <2>1, <2>2 DEF Reserve
<1>7. CASE Stop(th)
  <2>0. call[th].at = "stop" /\ call[th].to = "2g4" /\ UNCHANGED <<ep, flash>>
    BY <1>1, <1>7 DEF Stop, At, CallInv
  <2>a. "save" \in works => "save" \in works'
    BY <1>7 DEF Stop, StopWorks
  <2>1. CASE /\ Goto(th, "start") /\ UNCHANGED <<rf, astray>>
             /\ IF ble.up THEN ble' = BleStop(ble) ELSE ble' = ble
    <3>1. /\ call'[th].at = "start" /\ call'[th].to = call[th].to /\ call'[th].sel = call[th].sel
          /\ call'[th].was = call[th].was /\ call'[th].prev = call[th].prev
      BY <1>0, <2>1, GotoEffect DEF Stages
    <3>2. ~ble'.up
      <4>1. CASE ble' = BleStop(ble)
        BY <1>2, <4>1, BleStops
      <4>2. CASE ~ble.up /\ ble' = ble
        BY <4>2
      <4> QED
        BY <2>1, <4>1, <4>2
    <3>3. Going(call[th]) => Going(call[th])'
      BY <1>2, <2>0, <2>1, <3>1, <3>2 DEF Going, Settled, Rfs
    <3>4. Restoring(call[th]) => Restoring(call[th])'
      BY <2>0, <2>1, <3>1, <3>2 DEF Restoring
    <3>5. Stage(call[th])'
      BY <1>1, <2>0, <3>1, <3>3, <3>4 DEF CallInv, Stage
    <3>6. SavedBy(call[th])'
      BY <1>1, <2>0, <2>a, <3>1 DEF CallInv, SavedBy, Saved
    <3> QED
      BY <1>1, <2>0, <2>1, <3>1, <3>5, <3>6 DEF CallInv, Mid
  <2>2. CASE Failed(th, {}) /\ rf' = [rf EXCEPT !.switching = FALSE] /\ ble' = BleStopFails(ble)
    <3>1. Going(call[th]) /\ call'[th].at = "switch" /\ call[th].to = call[th].sel
          /\ call[th].prev # call[th].sel
      BY <1>0, <1>1, <2>0, <2>2, FailedGoesBack
    <3>2. /\ rf'.active = rf.active /\ rf'.started = rf.started /\ rf'.restarting = rf.restarting
          /\ ble'.up = ble.up
      BY <1>2, <2>2, BleStops DEF Rfs
    <3>3. Settled' /\ rf.active # "2g4"
      BY <2>0, <3>1, <3>2 DEF Going, Settled
    <3>4. CallInv(call[th])'
      BY <1>0, <1>1, <2>0, <2>a, <2>2, <3>2, <3>3, RestoringAgrees
    <3> QED
      BY <3>1, <3>4 DEF Mid
  <2> QED
    BY <1>7, <2>1, <2>2 DEF Stop
<1>8. CASE Start(th)
  <2>0. call[th].at = "start" /\ call[th].to = "2g4" /\ UNCHANGED <<works, ep, flash>>
    BY <1>1, <1>8 DEF Start, At, CallInv
  <2>1. ~ble.up
    BY <1>1, <2>0 DEF CallInv, Stage, Going, Restoring
  <2>2. CASE Switched(th, [rf EXCEPT !.started = TRUE]) /\ UNCHANGED ble
    <3> DEFINE radio == [rf EXCEPT !.started = TRUE]
    <3>1. radio \in Rfs /\ radio.started = TRUE
      BY <1>2 DEF Rfs
    <3>2. Switched(th, radio)
      BY <2>2
    <3>3. ble.up \in BOOLEAN
      BY <1>2 DEF BleStates
    <3> HIDE DEF radio
    <3> QED
      BY <1>0, <1>1, <2>0, <2>1, <2>2, <3>1, <3>2, <3>3, SwitchedAgrees
  <2>3. CASE /\ ~rf.started /\ ble' = BleStart(ble) /\ rf' = [rf EXCEPT !.switching = FALSE]
             /\ Failed(th, {})
    <3>1. Going(call[th]) /\ call'[th].at = "switch" /\ call[th].to = call[th].sel
          /\ call[th].prev # call[th].sel
      BY <1>0, <1>1, <2>0, <2>3, FailedGoesBack
    <3>2. /\ rf'.active = rf.active /\ rf'.started = rf.started /\ rf'.restarting = rf.restarting
          /\ ble'.up
      BY <1>2, <2>3, BleStarts DEF Rfs
    <3>3. rf.active = "ble"
      BY <1>2, <2>0, <3>1 DEF Going, Wireless
    <3>4. ble'.up \in BOOLEAN
      BY <1>2, <2>3, BleStartType DEF BleStates
    <3>5. Settled'
      BY <1>2, <2>3, <3>2, <3>3, <3>4 DEF Settled, Rfs
    <3>6. CallInv(call[th])'
      BY <1>0, <1>1, <2>0, <2>3, <3>2, <3>3, <3>5, RestoringAgrees
    <3> QED
      BY <3>1, <3>6 DEF Mid
  <2> QED
    BY <1>8, <2>2, <2>3 DEF Start
<1>9. CASE Enable(th)
  <2>0. call[th].at = "enable" /\ call[th].to = "ble" /\ UNCHANGED <<works, ep, flash>>
    BY <1>1, <1>9 DEF Enable, At, CallInv
  <2>1. CASE Switched(th, [rf EXCEPT !.started = FALSE]) /\ ble' = BleStart(ble)
    <3> DEFINE radio == [rf EXCEPT !.started = FALSE]
    <3>1. radio \in Rfs /\ radio.started = FALSE
      BY <1>2 DEF Rfs
    <3>2. Switched(th, radio)
      BY <2>1
    <3>3. ble'.up = TRUE
      BY <1>2, <2>1, BleStarts, BleStartType DEF BleStates
    <3> HIDE DEF radio
    <3> QED
      BY <1>0, <1>1, <2>0, <2>1, <3>1, <3>2, <3>3, SwitchedAgrees
  <2>2. CASE /\ Failed(th, {}) /\ ~ble.up /\ UNCHANGED ble
             /\ rf' = [rf EXCEPT !.switching = FALSE, !.started = FALSE]
    <3>1. Going(call[th]) /\ call'[th].at = "switch" /\ call[th].to = call[th].sel
          /\ call[th].prev # call[th].sel
      BY <1>0, <1>1, <2>0, <2>2, FailedGoesBack
    <3>2. rf'.active = rf.active /\ ~ble'.up
      BY <1>2, <2>2 DEF Rfs
    <3>3. rf.active = "2g4"
      BY <1>2, <2>0, <3>1 DEF Going, Wireless
    <3>4. CallInv(call[th])'
      BY <1>0, <1>1, <2>0, <2>2, <3>2, <3>3, RestoringAgrees
    <3> QED
      BY <3>1, <3>4 DEF Mid
  <2> QED
    BY <1>9, <2>1, <2>2 DEF Enable
<1>10. CASE Applied(th)
  <2>1. call[th].at = "applied" /\ call'[th].at = "none"
    BY <1>0, <1>10, GotoEffect DEF Applied, At, Stages
  <2>2. rf.active = call[th].sel /\ Settled
    BY <1>1, <2>1 DEF CallInv, Stage
  <2>3. ep'.preferred = call[th].sel
    <3>1. [ep EXCEPT !.preferred = call[th].sel] \in Eps
      BY <1>0, <1>2 DEF TypeOK, Eps
    <3>2. ep' = UpdateCurrent([ep EXCEPT !.preferred = call[th].sel])
      BY <1>10 DEF Applied
    <3> QED
      BY <1>0, <3>1, <3>2, UpdateCurrentFollows DEF TypeOK
  <2>4. Settled' /\ flash' = flash /\ rf'.active = rf.active
    BY <1>10, <2>2 DEF Applied, Settled
  <2>5. flash' = ep'.preferred \/ "save" \in works'
    <3>1. CASE call[th].sel = "ble" /\ call[th].was # call[th].sel
      BY <1>10, <3>1 DEF Applied
    <3>2. CASE call[th].sel = call[th].was
      <4>1. Saved /\ call[th].was = ep.preferred
        BY <1>1, <3>2 DEF CallInv, SavedBy
      <4> QED
        BY <1>10, <2>3, <2>4, <3>2, <4>1 DEF Applied, Saved
    <3>3. CASE call[th].sel = "2g4" /\ call[th].was = "ble"
      BY <1>1, <2>1, <2>3, <2>4, <3>3 DEF CallInv, SavedBy
    <3> QED
      BY <1>2, <3>1, <3>2, <3>3 DEF Wireless
  <2> QED
    BY <2>1, <2>2, <2>3, <2>4, <2>5 DEF RestInv, Saved, Mid
<1>11. CASE Rollback(th)
  <2>1. call[th].at = "rollback" /\ call'[th].at = "none"
    BY <1>0, <1>11, GotoEffect DEF Rollback, At, Stages
  <2>2. rf.active = call[th].prev /\ Settled
    BY <1>1, <2>1 DEF CallInv, Stage
  <2>3. flash' = call[th].was /\ UNCHANGED <<ble, ep, rf, astray>>
    BY <1>11 DEF Rollback, MadeGood
  <2>4. Settled' /\ Saved' /\ ("lazy" \in astray' \/ rf'.active = ep'.preferred)
    BY <1>1, <2>2, <2>3 DEF Settled, Saved, CallInv
  <2> QED
    BY <2>1, <2>4 DEF RestInv, Mid
<1> QED
  BY <1>3, <1>4, <1>5, <1>6, <1>7, <1>8, <1>9, <1>10, <1>11 DEF Step

\* Whatever leaves the radios, the calls under way and what is saved alone
LEMMA AgreeKept ==
  ASSUME AgreeInv, astray \subseteq astray' \cup {"missed"}, UNCHANGED flash,
         "save" \in works => "save" \in works',
         ble'.up = ble.up, rf'.active = rf.active, ep'.preferred = ep.preferred,
         rf'.restarting \/ (rf'.started = rf.started /\ rf'.restarting = rf.restarting),
         \A th \in Threads : IF Mid(th) THEN call'[th] = call[th] ELSE ~Mid(th)'
  PROVE  AgreeInv'
<1> SUFFICES ASSUME MadeGood'
             PROVE  AgreeInv'
  BY DEF AgreeInv
<1>1. MadeGood /\ ("lazy" \in astray => "lazy" \in astray')
  BY DEF MadeGood
<1>2. Settled => Settled'
  BY DEF Settled
<1>3. ASSUME NEW th \in Threads, Mid(th)
      PROVE  CallInv(call[th])'
  <2>1. CallInv(call[th]) /\ call'[th] = call[th]
    BY <1>1, <1>3 DEF AgreeInv
  <2>2. Going(call[th]) => Going(call[th])'
    BY <1>2, <2>1 DEF Going
  <2>3. Restoring(call[th]) => Restoring(call[th])'
    BY <1>2, <2>1 DEF Restoring
  <2>4. Stage(call[th])'
    BY <1>2, <2>1, <2>2, <2>3 DEF CallInv, Stage
  <2>5. SavedBy(call[th])'
    BY <2>1 DEF CallInv, SavedBy, Saved
  <2> QED
    BY <1>1, <2>1, <2>4, <2>5 DEF CallInv
<1>4. RestInv => RestInv'
  BY <1>1, <1>2 DEF RestInv, Saved
<1>5. \A th \in Threads : Mid(th)' <=> Mid(th)
  BY DEF Mid
<1> QED
  BY <1>1, <1>3, <1>4, <1>5 DEF AgreeInv

\* A call that begins with nothing else under way
LEMMA CallBegins ==
  ASSUME MadeGood => RestInv, NEW th \in Threads, UNCHANGED <<ble, rf, flash>>,
         astray \subseteq astray', "save" \in works => "save" \in works',
         ep'.preferred = ep.preferred, ep.preferred \in Wireless,
         \A o \in Threads : o # th => ~Mid(o)',
         \/ call'[th].at = "switch"
         \/ call'[th].at = "persist" /\ call'[th].sel = "2g4" /\ ep.preferred # "2g4",
         call'[th].at = "switch" => call'[th].sel # "2g4" \/ ep.preferred = "2g4",
         call'[th].sel \in Wireless, call'[th].to = call'[th].sel,
         call'[th].was = ep.preferred, call'[th].prev = rf.active
  PROVE  AgreeInv'
<1> SUFFICES ASSUME MadeGood'
             PROVE  AgreeInv'
  BY DEF AgreeInv
<1>1. RestInv /\ ("lazy" \in astray => "lazy" \in astray')
  BY DEF MadeGood
<1>2. Settled' /\ Saved'
  BY <1>1 DEF RestInv, Settled, Saved
<1>3. Stage(call[th])'
  BY <1>2 DEF Stage, Going, Wireless
<1>4. SavedBy(call[th])'
  BY <1>2 DEF SavedBy
<1>5. CallInv(call[th])'
  BY <1>1, <1>3, <1>4 DEF CallInv, RestInv
<1> QED
  BY <1>5 DEF AgreeInv, Mid

LEMMA LowThread == "low" \in Threads
BY DEF Threads

LEMMA BootAgrees ==
  ASSUME TypeOK, NEW saved \in Wireless, NEW status, Boot(saved, status)
  PROVE  AgreeInv'
<1>1. /\ ble'.up = TRUE /\ rf'.active = "ble" /\ rf'.started = FALSE /\ flash' = saved
      /\ ep'.preferred = saved /\ (saved = "ble" \/ "lazy" \in astray')
  BY DEF Boot, TypeOK, BleStates
<1>2. Settled' /\ Saved'
  BY <1>1 DEF Settled, Saved
<1>3. CASE status = "ready"
  <2>1. \A th \in Threads : ~Mid(th)'
    BY <1>3, BootEffect, ThreadCases, NoCallAt DEF Mid
  <2> QED
    BY <1>1, <1>2, <2>1 DEF AgreeInv, RestInv
<1>4. CASE status # "ready"
  <2>1. /\ ~Mid("work")' /\ call'["low"].at = "switch" /\ call'["low"].to = saved
        /\ call'["low"].sel = saved /\ call'["low"].was = saved /\ call'["low"].prev = "ble"
    BY <1>4, BootEffect, NoCallAt DEF Mid
  <2>2. Stage(call["low"])'
    BY <1>1, <1>2, <2>1 DEF Stage, Going
  <2>3. SavedBy(call["low"])'
    BY <1>2, <2>1 DEF SavedBy
  <2>4. CallInv(call["low"])'
    BY <1>1, <2>1, <2>2, <2>3 DEF CallInv
  <2>5. Mid("low")' /\ \A th \in Threads : Mid(th)' => th = "low"
    BY <2>1, ThreadCases DEF Mid
  <2> QED
    BY <2>4, <2>5, LowThread DEF AgreeInv
<1> QED
  BY <1>3, <1>4

\* With nothing under way the radios are at rest
LEMMA AtRestAgrees ==
  ASSUME AgreeInv, MadeGood, WorkFree, call["low"].at \in {"none", "asked"}
  PROVE  RestInv /\ \A th \in Threads : ~Mid(th)
<1>1. \A th \in Threads : ~Mid(th)
  BY ThreadCases DEF WorkFree, Mid
<1> QED
  BY <1>1 DEF AgreeInv

LEMMA SelectAgrees ==
  ASSUME Inv0, AgreeInv, NEW th \in Threads, NEW t \in Wireless \cup {"usb"}, Select(th, t),
         call[th].at \in {"none", "asked"}, UNCHANGED <<ble, works, rf, flash>>
  PROVE  AgreeInv'
<1>0. TypeOK /\ ep \in Eps
  BY DEF Inv0, TypeOK, Eps
<1>1. CASE t = "usb"
  <2>1. [ep EXCEPT !.manual = FALSE] \in Eps /\ [ep EXCEPT !.manual = FALSE].preferred = ep.preferred
    BY <1>0 DEF Eps
  <2>2. ep'.preferred = ep.preferred
    BY <1>1, <2>1, UpdateCurrentFollows DEF Select
  <2>3. \A o \in Threads : IF Mid(o) THEN call'[o] = call[o] ELSE ~Mid(o)'
    BY <1>0, <1>1, SelectEffect, NoCallAt DEF Mid
  <2>4. astray' = astray \ {"missed"}
    BY <1>1 DEF Select
  <2> QED
    BY <2>2, <2>3, <2>4, AgreeKept
<1>2. CASE t # "usb"
  <2> SUFFICES ASSUME MadeGood'
               PROVE  AgreeInv'
    BY DEF AgreeInv
  <2>1. astray' = astray /\ call[Other(th)].at \in {"none", "asked"}
    BY <1>2 DEF Select, MadeGood
  <2>2. MadeGood
    BY <2>1 DEF MadeGood
  <2>3. \A o \in Threads : ~Mid(o)
    BY <2>1, OtherThread, ThreadCases DEF Mid
  <2>4. RestInv
    BY <2>2, <2>3 DEF AgreeInv
  <2>5. \A o \in Threads : o # th => ~Mid(o)'
    BY <1>0, <2>3, SelectEffect DEF Mid
  <2>6. ep'.preferred = ep.preferred /\ ep.preferred \in Wireless
    BY <1>0, <1>2 DEF Select, Eps
  <2> QED
    <3>1. /\ call'[th].at = IF t = "2g4" /\ ep.preferred # t THEN "persist" ELSE "switch"
          /\ call'[th].to = t /\ call'[th].sel = t /\ t \in Wireless
          /\ call'[th].was = ep.preferred /\ call'[th].prev = rf.active
      BY <1>0, <1>2, SelectEffect
    <3>2. \/ call'[th].at = "switch"
          \/ call'[th].at = "persist" /\ call'[th].sel = "2g4" /\ ep.preferred # "2g4"
      BY <3>1
    <3>3. call'[th].at = "switch" => call'[th].sel # "2g4" \/ ep.preferred = "2g4"
      BY <3>1
    <3> QED
      BY <2>1, <2>4, <2>5, <2>6, <3>1, <3>2, <3>3, CallBegins
<1> QED
  BY <1>1, <1>2

LEMMA OtherAgrees ==
  ASSUME Inv0, RadioInv, AgreeInv, OtherStep
  PROVE  AgreeInv'
<1>0. "work" \in Threads /\ "low" \in Threads /\ TypeOK /\ ep \in Eps /\ rf \in Rfs /\ ble \in BleStates
  BY DEF Threads, Inv0, TypeOK, Eps, Rfs
<1>1. ASSUME NEW t \in Wireless \cup {"usb"}, KeySelects(t)
      PROVE  AgreeInv'
  BY <1>0, <1>1, SelectAgrees DEF KeySelects, WorkFree
<1>2. ASSUME NEW t \in Wireless \cup {"usb"}, StudioAsks(t)
      PROVE  AgreeInv'
  <2>1. call'["work"] = call["work"] /\ call["low"].at = "none" /\ call'["low"].at = "asked"
    BY <1>0, <1>2 DEF StudioAsks, TypeOK, NoCall
  <2> QED
    BY <1>2, <2>1, AgreeKept, ThreadCases DEF StudioAsks, Mid
<1>3. CASE KeyToggles
  BY <1>1, <1>3 DEF KeyToggles, ToggleTarget, Wireless
<1>4. CASE StudioSelects
  <2>1. call["low"].at = "asked" /\ call["low"].sel \in Wireless \cup {"usb"}
    BY <1>0, <1>4, CallType DEF StudioSelects, At
  <2> QED
    BY <1>0, <1>4, <2>1, SelectAgrees DEF StudioSelects
<1>5. CASE SaveWork
  <2> SUFFICES ASSUME MadeGood'
               PROVE  AgreeInv'
    BY DEF AgreeInv
  <2>1. astray' = astray /\ call["low"].at \in {"none", "asked"} /\ WorkFree
    BY <1>5 DEF SaveWork, MadeGood
  <2>2. RestInv /\ \A th \in Threads : ~Mid(th)
    BY <2>1, AtRestAgrees DEF MadeGood
  <2>3. RestInv' /\ \A th \in Threads : ~Mid(th)'
    BY <1>5, <2>1, <2>2 DEF SaveWork, RestInv, Settled, Saved, Mid
  <2> QED
    BY <2>3 DEF AgreeInv
<1>6. CASE UsbWork
  <2> SUFFICES ASSUME MadeGood'
               PROVE  AgreeInv'
    BY DEF AgreeInv
  <2>1. CASE usb = "none"
    <3>1. Apply("work", UsbSeen) /\ UNCHANGED <<ble, rf, flash>> /\ works' = works \ {"usb"}
      BY <1>6, <2>1 DEF UsbWork, UsbSeen
    <3>2. astray' = astray /\ call["low"].at \in {"none", "asked"} /\ WorkFree
      BY <1>6, <2>1 DEF UsbWork, MadeGood
    <3>3. RestInv /\ \A th \in Threads : ~Mid(th)
      BY <3>2, AtRestAgrees DEF MadeGood
    <3>4. /\ call'["work"].at = "switch" /\ call'["work"].prev = rf.active
          /\ call'["work"].to = ep.preferred /\ call'["work"].sel = ep.preferred
          /\ call'["work"].was = ep.preferred /\ ep.preferred \in Wireless
          /\ ep' = UsbSeen /\ \A o \in Threads : o # "work" => call'[o] = call[o]
      BY <1>0, <3>1, UsbSeenType, ApplyEffect
    <3>5. \A o \in Threads : o # "work" => ~Mid(o)'
      BY <3>3, <3>4 DEF Mid
    <3>6. ep'.preferred = ep.preferred
      BY <1>0, <3>4, UsbSeenType
    <3> QED
      <4>1. "save" \in works => "save" \in works'
        BY <3>1
      <4>2. UNCHANGED <<ble, rf, flash>> /\ astray \subseteq astray' /\ (MadeGood => RestInv)
        BY <3>1, <3>2, <3>3
      <4> QED
        BY <1>0, <3>4, <3>5, <3>6, <4>1, <4>2, CallBegins
  <2>2. CASE usb # "none"
    <3>1. ep' = UpdateCurrent(UsbSeen)
      BY <1>6, <2>2 DEF UsbWork, UsbSeen
    <3>2. ep'.preferred = ep.preferred
      BY <1>0, <3>1, UsbSeenType, UpdateCurrentFollows
    <3> QED
      BY <1>6, <2>2, <3>2, AgreeKept DEF UsbWork, Mid
  <2> QED
    BY <2>1, <2>2
<1>7. CASE ProfileWork
  <2>1. ep'.preferred = ep.preferred
    BY <1>0, <1>7, UpdateCurrentFollows DEF ProfileWork
  <2> QED
    BY <1>7, <2>1, AgreeKept DEF ProfileWork, Mid
<1>8. CASE AdvertiseWork
  BY <1>0, <1>8, AgreeKept, BleFacts DEF AdvertiseWork, AdvertisingWork, Mid
<1>9. CASE RecoverWork
  <2>1. CASE rf.started
    <3>1. /\ works' = works \ {"recover"} /\ rf' = [rf EXCEPT !.switching = FALSE]
          /\ ep' = UpdateCurrent(ep) /\ UNCHANGED <<ble, call, flash>>
          /\ astray \subseteq astray' \cup {"missed"}
      BY <1>9, <2>1 DEF RecoverWork
    <3>2. ep'.preferred = ep.preferred
      BY <1>0, <3>1, UpdateCurrentFollows
    <3>3. rf'.active = rf.active /\ rf'.started = rf.started /\ rf'.restarting = rf.restarting
      BY <1>0, <3>1 DEF Rfs
    <3> QED
      BY <3>1, <3>2, <3>3, AgreeKept DEF Mid
  <2>2. CASE ~rf.started
    BY <1>0, <1>9, <2>2, BootAgrees DEF RecoverWork, TypeOK
  <2> QED
    BY <2>1, <2>2
<1>10. ASSUME NEW status, UsbChanges(status)
       PROVE  AgreeInv'
  BY <1>10, AgreeKept DEF UsbChanges, Mid
<1>11. ASSUME NEW h \in Hosts, HostConnects(h)
       PROVE  AgreeInv'
  <2> DEFINE c == [ble EXCEPT !.linked = @ \cup {h}, !.adv = FALSE]
  <2>1. c \in BleStates /\ c.up = ble.up
    BY <1>0 DEF BleStates
  <2>2. ble' = UpdateAdvertising(c)
    BY <1>11 DEF HostConnects, Connected
  <2> HIDE DEF c
  <2>3. ble'.up = ble.up
    BY <2>1, <2>2, BleFacts
  <2> QED
    BY <1>11, <2>3, AgreeKept DEF HostConnects, Connected, Mid
<1>12. ASSUME NEW h \in Hosts, HostDisconnects(h)
       PROVE  AgreeInv'
  <2>1. ble'.up = ble.up
    BY <1>0, <1>12 DEF HostDisconnects, Disconnected, BleStates
  <2> QED
    BY <1>12, <2>1, AgreeKept DEF HostDisconnects, Disconnected, Mid
<1>13. CASE PairingStops
  <2>1. rf'.restarting /\ rf'.active = rf.active
    BY <1>0, <1>13 DEF PairingStops, Rfs
  <2> QED
    BY <1>13, <2>1, AgreeKept DEF PairingStops, Mid
<1>14. CASE PairingStarts
  <2> SUFFICES ASSUME MadeGood'
               PROVE  AgreeInv'
    BY DEF AgreeInv
  <2>1. /\ rf' = [rf EXCEPT !.started = TRUE, !.restarting = FALSE] /\ astray' = astray
        /\ ~rf.switching /\ ~ble.up /\ UNCHANGED <<ble, works, ep, call, flash>>
    BY <1>14 DEF PairingStarts, MadeGood
  <2>2. "raced" \notin astray
    BY <2>1 DEF MadeGood
  <2>3. \A th \in Threads : call[th].at # "start"
    BY <2>1, <2>2 DEF RadioInv, OneSwitch, InSwitch
  <2>4. rf'.active = rf.active /\ rf'.started = TRUE /\ rf.active \in Wireless
    BY <1>0, <2>1 DEF Rfs
  <2>5. Settled => Settled'
    BY <2>1, <2>4 DEF Settled, Wireless
  <2>6. ASSUME NEW th \in Threads, Mid(th), CallInv(call[th])
        PROVE  CallInv(call[th])'
    <3>1. Going(call[th]) => Going(call[th])'
      BY <2>1, <2>3, <2>4, <2>5 DEF Going
    <3>2. Restoring(call[th]) => Restoring(call[th])'
      BY <2>1, <2>4, <2>5 DEF Restoring
    <3>3. Stage(call[th])'
      BY <2>1, <2>4, <2>5, <2>6, <3>1, <3>2 DEF CallInv, Stage
    <3> QED
      BY <2>1, <2>6, <3>3 DEF CallInv, SavedBy, Saved
  <2>7. RestInv => RestInv'
    BY <2>1, <2>4, <2>5 DEF RestInv, Saved
  <2> QED
    BY <2>1, <2>6, <2>7 DEF AgreeInv, MadeGood, Mid
<1>15. CASE WatchdogExpires
  BY <1>15, AgreeKept DEF WatchdogExpires, Mid
<1>16. CASE Restart
  BY <1>0, <1>16, BootAgrees DEF Restart, TypeOK
<1> QED
  BY <1>1, <1>2, <1>3, <1>4, <1>5, <1>6, <1>7, <1>8, <1>9, <1>10, <1>11, <1>12, <1>13, <1>14,
     <1>15, <1>16 DEF OtherStep, Work

LEMMA AgreeNext ==
  ASSUME Inv0, RadioInv, AgreeInv, [Next]_vars
  PROVE  AgreeInv'
<1>1. CASE UNCHANGED vars
  BY <1>1, AgreeKept DEF vars, Mid
<1> QED
  BY <1>1, NextSplits, OtherAgrees, StepAgrees

LEMMA AgreeInit == Init => AgreeInv
<1> SUFFICES ASSUME NEW saved \in Wireless,
                    ble.up = TRUE, rf.active = "ble", rf.started = FALSE, flash = saved,
                    ep.preferred = saved, saved = "ble" \/ "lazy" \in astray,
                    call["work"] = NoCall,
                    call["low"] = [at |-> "switch", to |-> saved, sel |-> saved, was |-> saved,
                                   prev |-> "ble"]
             PROVE  AgreeInv
  BY DEF Init
<1>1. Settled /\ Saved
  BY DEF Settled, Saved
<1>2. CallInv(call["low"])
  BY <1>1 DEF CallInv, Stage, Going, SavedBy
<1>3. Mid("low") /\ \A th \in Threads : Mid(th) => th = "low"
  BY ThreadCases, NoCallAt DEF Mid
<1> QED
  BY <1>2, <1>3, LowThread DEF AgreeInv

(***************************************************************************)
(* When nothing is in progress the radio that runs, the one believed to    *)
(* run, the preferred and the saved one are the same, reports go where the *)
(* selection says, and advertising is on exactly when it should be.  Each  *)
(* stage of a call keeps a part of this (CallInv), whether it goes towards *)
(* the selected radio or back to the previous one.                         *)
(***************************************************************************)
THEOREM EndpointsAgreement == Spec => []EndpointsAgree
<1>1. Inv0 /\ AdvInv /\ FollowInv /\ AgreeInv => EndpointsAgree
  <2> SUFFICES ASSUME Inv0, AdvInv, FollowInv, AgreeInv
               PROVE  EndpointsAgree
    OBVIOUS
  <2>1. TypeOK /\ Advertises
    BY DEF Inv0, AdvInv, Advertises
  <2>2. ASSUME AtRest
        PROVE  \A th \in Threads : ~Mid(th) /\ ~Pending(th)
    BY <2>2 DEF AtRest, Mid, Pending
  <2>3. EndpointFollows
    BY <2>2 DEF EndpointFollows, FollowInv, AtRest
  <2>4. RadiosAgree
    <3> SUFFICES ASSUME AtRest, astray \subseteq {"missed"}, ~rf.restarting
                 PROVE  /\ rf.active = ep.preferred /\ flash = ep.preferred
                        /\ ble.up = (rf.active = "ble") /\ rf.started = (rf.active = "2g4")
      BY DEF RadiosAgree
    <3>1. RestInv /\ "lazy" \notin astray /\ "save" \notin works
      BY <2>2 DEF AgreeInv, MadeGood, AtRest
    <3> QED
      BY <3>1 DEF RestInv, Saved, Settled
  <2> QED
    BY <2>1, <2>3, <2>4 DEF EndpointsAgree
<1>2. Init => Inv0 /\ RadioInv /\ AdvInv /\ FollowInv /\ AgreeInv
  BY Init0, RadioInit, AdvInit, FollowInit, AgreeInit
<1>3. /\ Inv0 /\ RadioInv /\ AdvInv /\ FollowInv /\ AgreeInv /\ [Next]_vars
      => (Inv0 /\ RadioInv /\ AdvInv /\ FollowInv /\ AgreeInv)'
  BY TypeStep, RadioStep, AdvStep, FollowNext, AgreeNext
<1> QED
  BY <1>1, <1>2, <1>3, PTL DEF Spec
=============================================================================
