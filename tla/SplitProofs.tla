------------------------------ MODULE SplitProofs ------------------------------
(* Proofs about Split: that slots and connections agree and the central scans  *)
(* when it should, and that the keymap follows the keys of the peripherals.    *)
(* Then about SplitWire: that on a cable that garbles and buffers that         *)
(* overflow, events and commands come out at most once and in order.           *)
EXTENDS Split, SplitWire, FiniteSetTheorems, SequenceTheorems, WellFoundedInduction, TLAPS

LEMMA SlotsInt == Slots \subseteq Int /\ IsFiniteSet(Slots)
BY SplitNodesAssumption, FS_CardinalityType

\* The steps of Next by what they are about
LinkSteps ==
  \/ FinishInit
  \/ \E p \in Peripherals, s \in Slots :
       DeviceFound(p, s) \/ CreateFails(p, s) \/ Connected(p, s) \/ ConnectFails(p, s) \/ Subscribe(p, s)
  \/ \E p \in Peripherals : AdvertisingTimeout(p) \/ AdvertisingWork(p) \/ PeripheralDisconnected(p)
KeySteps ==
  \/ \E p \in Peripherals, pos \in Positions : KeyChange(p, pos)
  \/ \E p \in Peripherals : StateTaken(p) \/ StateNotified(p)
  \/ \E p \in Peripherals, s \in Slots : Notification(p, s)
  \/ EventRaised

LEMMA NextSplits ==
  Next => \/ KeySteps \/ (LinkSteps /\ UNCHANGED keysVars)
          \/ \E p \in Peripherals : LinkBreaks(p)
          \/ \E p \in Peripherals, s \in Slots : SlotReleased(p, s)
BY DEF Next, KeySteps, LinkSteps

LEMMA KeyStepsKeepLink == KeySteps => UNCHANGED linkVars
BY DEF KeySteps, KeyChange, StateTaken, StateNotified, Notification, EventRaised
-----------------------------------------------------------------------------
(* Connections *)

\* The addresses: one slot each, filled from the first slot on
AddrsOnce == \A r, s \in Slots : addrs[r] = addrs[s] /\ addrs[r] # None => r = s
AddrsFill == \A r, s \in Slots : r < s /\ addrs[s] # None => addrs[r] # None

\* What a slot says of the connection of its peripheral
SlotHolds(s) ==
  IF conn[s] = None
  THEN state[s] = "OPEN" \/ (failures > 0 /\ state[s] = "CONNECTING")
  ELSE /\ addrs[s] = conn[s] /\ link[conn[s]] # "down"
       /\ state[s] = IF link[conn[s]] = "pending" THEN "CONNECTING" ELSE "CONNECTED"
LinkHeld(p) == link[p] # "down" => \E s \in Slots : conn[s] = p

\* Unless a call failed, is_scanning is set only while the stack scans
FlagTrue == failures = 0 /\ isScanning => scanning

LinkInv ==
  /\ LinkTypeOK /\ AddrsOnce /\ AddrsFill
  /\ \A s \in Slots : SlotHolds(s)
  /\ \A p \in Peripherals : LinkHeld(p)
  /\ FlagTrue /\ ScanningWhenNeeded

\* start_scanning, when nothing was wrong about the flag it was called with
LEMMA StartScanningSound ==
  ASSUME LinkInv, NEW flag \in BOOLEAN, NEW on \in BOOLEAN, StartScanning(flag, on),
         failures = 0 /\ flag => on
  PROVE  /\ isScanning' \in BOOLEAN /\ scanning' \in BOOLEAN /\ failures' \in 0 .. MaxFailures
         /\ failures' >= failures
         /\ FlagTrue' /\ ScanningWhenNeeded'
<1>0. failures \in 0 .. MaxFailures /\ MaxFailures \in Nat
  BY SplitLinkAssumption DEF LinkInv, LinkTypeOK
<1>1. CASE /\ ~isEnabled' \/ flag \/ \A r \in Slots : conn'[r] # None
           /\ isScanning' = flag /\ scanning' = on /\ failures' = failures
  BY <1>0, <1>1 DEF FlagTrue, ScanningWhenNeeded
<1>2. CASE isScanning' = TRUE /\ scanning' = TRUE /\ failures' = failures
  BY <1>0, <1>2 DEF FlagTrue, ScanningWhenNeeded
<1>3. CASE isScanning' = TRUE /\ scanning' = on /\ failures < MaxFailures /\ failures' = failures + 1
  BY <1>0, <1>3 DEF FlagTrue, ScanningWhenNeeded
<1> QED
  BY <1>1, <1>2, <1>3 DEF StartScanning, Works, Fails

\* A slot is released
LEMMA ReleaseSound ==
  ASSUME LinkInv, NEW s \in Slots, NEW p \in Peripherals, IsSlotOf(s, p), Release(s),
         link' = [link EXCEPT ![p] = "down"], UNCHANGED addrs, failures' >= failures, failures' \in Int
  PROVE  /\ state' \in [Slots -> SlotStates] /\ listening' \in [Slots -> Listening]
         /\ conn' \in [Slots -> Peripherals \cup {None}]
         /\ link' \in [Peripherals -> {"down", "pending", "up", "lost"}]
         /\ (\A r \in Slots : SlotHolds(r))' /\ (\A q \in Peripherals : LinkHeld(q))'
<1> USE DEF LinkInv, LinkTypeOK
<1>1. \A r \in Slots : r # s => conn[r] # p
  BY SplitLinkAssumption DEF SlotHolds, AddrsOnce, IsSlotOf
<1>2. /\ conn' = [conn EXCEPT ![s] = None] /\ state' = [state EXCEPT ![s] = "OPEN"]
      /\ listening' = [listening EXCEPT ![s] = "no"]
  BY DEF Release
<1>3. \A r \in Slots : SlotHolds(r)'
  BY <1>1, <1>2, SplitLinkAssumption DEF SlotHolds
<1>4. \A q \in Peripherals : LinkHeld(q)'
  <2> SUFFICES ASSUME NEW q \in Peripherals, link'[q] # "down"
               PROVE  \E r \in Slots : conn'[r] = q
    BY DEF LinkHeld
  <2>1. q # p /\ link[q] # "down"
    OBVIOUS
  <2>2. PICK r \in Slots : conn[r] = q
    BY <2>1 DEF LinkHeld
  <2> QED
    BY <1>2, <2>1, <2>2 DEF IsSlotOf
<1>5. /\ state' \in [Slots -> SlotStates] /\ listening' \in [Slots -> Listening]
      /\ conn' \in [Slots -> Peripherals \cup {None}]
      /\ link' \in [Peripherals -> {"down", "pending", "up", "lost"}]
  BY <1>2 DEF SlotStates, Listening
<1> QED
  BY <1>3, <1>4, <1>5

\* An advertisement goes to the slot of its address, or to the first without one
LEMMA SlotForSound ==
  ASSUME LinkInv, NEW s \in Slots, NEW p \in Peripherals, SlotFor(s, p),
         addrs' = [addrs EXCEPT ![s] = p]
  PROVE  /\ addrs' \in [Slots -> Peripherals \cup {None}]
         /\ AddrsOnce' /\ AddrsFill'
         /\ \A r \in Slots : addrs[r] = p => r = s
         /\ \A r \in Slots : conn[r] # None => addrs'[r] = addrs[r]
<1> USE DEF LinkInv, LinkTypeOK
<1>1. addrs[s] = p \/ addrs[s] = None
  BY DEF SlotFor
<1>2. \A r \in Slots : r < s => addrs[r] # p /\ addrs[r] # None
  BY SlotsInt, SplitNodesAssumption, FS_CardinalityType DEF SlotFor
<1>3. \A r \in Slots : addrs[r] = p => r = s
  <2> SUFFICES ASSUME NEW r \in Slots, addrs[r] = p
               PROVE  r = s
    OBVIOUS
  <2>1. ~(r < s)
    BY <1>2
  <2>2. CASE addrs[s] = p
    BY <2>2, SplitLinkAssumption DEF AddrsOnce
  <2>3. CASE addrs[s] = None
    BY <2>1, <2>3, SlotsInt, SplitLinkAssumption DEF AddrsFill
  <2> QED
    BY <1>1, <2>2, <2>3
<1>4. AddrsOnce'
  BY <1>3 DEF AddrsOnce
<1>5. AddrsFill'
  BY <1>2, SplitLinkAssumption DEF AddrsFill
<1>6. \A r \in Slots : conn[r] # None => addrs'[r] = addrs[r]
  BY <1>1 DEF SlotHolds
<1> QED
  BY <1>3, <1>4, <1>5, <1>6

LEMMA LinkInit0 ==
  ASSUME LinkInit
  PROVE  LinkInv
<1> USE SplitLinkAssumption DEF LinkInit
<1>1. LinkTypeOK
  <2>1. failures \in 0 .. MaxFailures /\ drops \in 0 .. MaxDrops
    <3>1. failures = 0 /\ drops = 0
      OBVIOUS
    <3> HIDE DEF LinkInit
    <3> QED
      BY <3>1
  <2>7. isEnabled \in BOOLEAN /\ isScanning \in BOOLEAN /\ scanning \in BOOLEAN
    BY Zenon
  <2>2. state \in [Slots -> SlotStates] /\ listening \in [Slots -> Listening]
    BY DEF SlotStates, Listening
  <2>3. conn \in [Slots -> Peripherals \cup {None}] /\ addrs \in [Slots -> Peripherals \cup {None}]
    OBVIOUS
  <2>4. isConnected \in [Peripherals -> BOOLEAN] /\ adv \in [Peripherals -> Adverts]
    BY DEF Adverts
  <2>5. lowDuty \in [Peripherals -> BOOLEAN] /\ bonded \in [Peripherals -> BOOLEAN]
    OBVIOUS
  <2>6. link \in [Peripherals -> {"down", "pending", "up", "lost"}]
    OBVIOUS
  <2> QED
    BY <2>1, <2>2, <2>3, <2>4, <2>5, <2>6, <2>7 DEF LinkTypeOK
<1>2. AddrsOnce /\ AddrsFill /\ \A s \in Slots : SlotHolds(s)
  BY DEF AddrsOnce, AddrsFill, SlotHolds
<1>3. (\A p \in Peripherals : LinkHeld(p)) /\ FlagTrue /\ ScanningWhenNeeded
  BY DEF LinkHeld, FlagTrue, ScanningWhenNeeded
<1> QED
  BY <1>1, <1>2, <1>3 DEF LinkInv

\* Whatever leaves slots, connections and the scan alone
LEMMA LinkKept ==
  ASSUME LinkInv, UNCHANGED <<isEnabled, state, conn, addrs, link>>,
         failures' >= failures, failures' \in Int,
         failures' = 0 => UNCHANGED <<isScanning, scanning>>
  PROVE  /\ AddrsOnce' /\ AddrsFill' /\ (\A s \in Slots : SlotHolds(s))'
         /\ (\A p \in Peripherals : LinkHeld(p))' /\ FlagTrue' /\ ScanningWhenNeeded'
<1>1. failures \in Int /\ failures >= 0
  BY SplitLinkAssumption DEF LinkInv, LinkTypeOK
<1>2. failures' = 0 => failures = 0
  BY <1>1
<1>3. failures > 0 => failures' > 0
  BY <1>1
<1>4. AddrsOnce' /\ AddrsFill' /\ (\A p \in Peripherals : LinkHeld(p))'
  BY DEF LinkInv, AddrsOnce, AddrsFill, LinkHeld
<1>5. (\A s \in Slots : SlotHolds(s))'
  BY <1>3 DEF LinkInv, SlotHolds
<1>6. FlagTrue' /\ ScanningWhenNeeded'
  BY <1>2 DEF LinkInv, FlagTrue, ScanningWhenNeeded, Pending
<1> QED
  BY <1>4, <1>5, <1>6

LEMMA LinkStep ==
  ASSUME LinkInv, LinkSteps
  PROVE  LinkInv'
<1> USE DEF LinkInv, LinkTypeOK
<1>0. /\ failures \in 0 .. MaxFailures /\ MaxFailures \in Nat /\ failures \in Int
      /\ failures = 0 /\ isScanning => scanning
  BY SplitLinkAssumption DEF FlagTrue
<1>1. CASE FinishInit
  <2>1. StartScanning(isScanning, scanning)
    BY <1>1 DEF FinishInit
  <2>2. /\ isScanning' \in BOOLEAN /\ scanning' \in BOOLEAN /\ failures' \in 0 .. MaxFailures
        /\ failures' >= failures /\ FlagTrue' /\ ScanningWhenNeeded'
    BY <1>0, <2>1, StartScanningSound
  <2>3. (\A s \in Slots : SlotHolds(s))'
    BY <1>0, <1>1, <2>2 DEF FinishInit, SlotHolds
  <2>4. AddrsOnce' /\ AddrsFill' /\ (\A p \in Peripherals : LinkHeld(p))'
    BY <1>1 DEF FinishInit, AddrsOnce, AddrsFill, LinkHeld
  <2> QED
    BY <1>1, <2>2, <2>3, <2>4 DEF FinishInit, peripheralVars
<1>2. ASSUME NEW p \in Peripherals, NEW s \in Slots, DeviceFound(p, s)
      PROVE  LinkInv'
  <2>0. SlotFor(s, p) /\ addrs' = [addrs EXCEPT ![s] = p]
    BY <1>2 DEF DeviceFound
  <2>1. /\ addrs' \in [Slots -> Peripherals \cup {None}] /\ AddrsOnce' /\ AddrsFill'
        /\ \A r \in Slots : addrs[r] = p => r = s
        /\ \A r \in Slots : conn[r] # None => addrs'[r] = addrs[r]
    BY <2>0, SlotForSound
  <2>2. CASE state[s] # "OPEN"
    <3>1. UNCHANGED <<isEnabled, state, conn, listening, isScanning, scanning, link, failures, drops,
                      peripheralVars>>
      BY <1>2, <2>2 DEF DeviceFound
    <3>2. (\A r \in Slots : SlotHolds(r))'
      BY <2>1, <3>1 DEF SlotHolds
    <3>3. (\A q \in Peripherals : LinkHeld(q))' /\ FlagTrue' /\ ScanningWhenNeeded'
      BY <3>1 DEF LinkHeld, FlagTrue, ScanningWhenNeeded, Pending
    <3> QED
      BY <2>1, <3>1, <3>2, <3>3 DEF peripheralVars
  <2>3. CASE state[s] = "OPEN"
    <3>1. /\ state' = [state EXCEPT ![s] = "CONNECTING"] /\ isScanning' = FALSE
          /\ UNCHANGED <<isEnabled, listening, drops, peripheralVars>>
      BY <1>2, <2>3 DEF DeviceFound
    <3>2. conn[s] = None /\ link[p] = "down"
      <4>1. conn[s] = None
        BY <2>3 DEF SlotHolds
      <4>2. \A r \in Slots : conn[r] # p
        BY <2>1, <4>1, SplitLinkAssumption DEF SlotHolds
      <4> QED
        BY <4>1, <4>2 DEF LinkHeld
    <3>3. CASE /\ Works /\ conn' = [conn EXCEPT ![s] = p] /\ link' = [link EXCEPT ![p] = "pending"]
               /\ scanning' = FALSE
      <4>1. (\A r \in Slots : SlotHolds(r))'
        BY <2>0, <2>1, <3>1, <3>2, <3>3, SplitLinkAssumption DEF SlotHolds, Works
      <4>2. (\A q \in Peripherals : LinkHeld(q))'
        BY <3>2, <3>3, SplitLinkAssumption DEF LinkHeld
      <4>3. FlagTrue' /\ ScanningWhenNeeded'
        <5>1. p \in Pending'
          BY <3>3 DEF Pending
        <5> QED
          BY <3>1, <5>1 DEF FlagTrue, ScanningWhenNeeded
      <4>4. /\ state' \in [Slots -> SlotStates] /\ conn' \in [Slots -> Peripherals \cup {None}]
            /\ link' \in [Peripherals -> {"down", "pending", "up", "lost"}]
        BY <3>1, <3>3 DEF SlotStates
      <4> QED
        BY <2>1, <3>1, <3>3, <4>1, <4>2, <4>3, <4>4 DEF peripheralVars, Works
    <3>4. CASE Fails /\ UNCHANGED <<conn, link, scanning>>
      <4>1. failures' > 0 /\ failures' \in 0 .. MaxFailures
        BY <1>0, <3>4 DEF Fails
      <4>2. (\A r \in Slots : SlotHolds(r))'
        BY <2>1, <3>1, <3>2, <3>4, <4>1 DEF SlotHolds
      <4>3. (\A q \in Peripherals : LinkHeld(q))' /\ FlagTrue' /\ ScanningWhenNeeded'
        BY <3>4, <4>1 DEF LinkHeld, FlagTrue, ScanningWhenNeeded
      <4>4. state' \in [Slots -> SlotStates]
        BY <3>1 DEF SlotStates
      <4> QED
        BY <2>1, <3>1, <3>4, <4>1, <4>2, <4>3, <4>4 DEF peripheralVars
    <3> QED
      BY <1>2, <2>3, <3>3, <3>4 DEF DeviceFound
  <2> QED
    BY <2>2, <2>3
<1>3. ASSUME NEW p \in Peripherals, NEW s \in Slots, CreateFails(p, s)
      PROVE  LinkInv'
  <2>1. /\ addrs' \in [Slots -> Peripherals \cup {None}] /\ AddrsOnce' /\ AddrsFill'
        /\ \A r \in Slots : conn[r] # None => addrs'[r] = addrs[r]
    BY <1>3, SlotForSound DEF CreateFails
  <2>2. /\ UNCHANGED <<isEnabled, state, conn, listening, link, drops, peripheralVars>>
        /\ StartScanning(FALSE, FALSE)
    BY <1>3 DEF CreateFails
  <2>3. /\ isScanning' \in BOOLEAN /\ scanning' \in BOOLEAN /\ failures' \in 0 .. MaxFailures
        /\ failures' >= failures /\ FlagTrue' /\ ScanningWhenNeeded'
    BY <2>2, StartScanningSound
  <2>4. (\A r \in Slots : SlotHolds(r))'
    BY <1>0, <2>1, <2>2, <2>3 DEF SlotHolds
  <2>5. (\A q \in Peripherals : LinkHeld(q))'
    BY <2>2 DEF LinkHeld
  <2> QED
    BY <2>1, <2>2, <2>3, <2>4, <2>5 DEF peripheralVars
<1>4. ASSUME NEW p \in Peripherals, NEW s \in Slots, Connected(p, s)
      PROVE  LinkInv'
  <2>1. /\ link[p] = "pending" /\ conn[s] = p /\ link' = [link EXCEPT ![p] = "up"]
        /\ state' = [state EXCEPT ![s] = "CONNECTED"]
        /\ isConnected' = [isConnected EXCEPT ![p] = TRUE] /\ adv' = [adv EXCEPT ![p] = "off"]
        /\ UNCHANGED <<isEnabled, conn, addrs, drops, lowDuty, bonded>>
    BY <1>4 DEF Connected, IsSlotOf
  <2>2. \A r \in Slots : r # s => conn[r] # p
    BY <2>1, SplitLinkAssumption DEF SlotHolds, AddrsOnce
  <2>3. /\ isScanning' \in BOOLEAN /\ scanning' \in BOOLEAN /\ failures' \in 0 .. MaxFailures
        /\ failures' >= failures /\ FlagTrue' /\ ScanningWhenNeeded'
        /\ listening' \in [Slots -> Listening]
    <3>1. CASE StartScanning(isScanning, scanning) /\ listening' = [listening EXCEPT ![s] = "discovering"]
      BY <1>0, <3>1, StartScanningSound DEF Listening
    <3>2. CASE Fails /\ UNCHANGED <<listening, isScanning, scanning>>
      BY <1>0, <3>2 DEF Fails, FlagTrue, ScanningWhenNeeded
    <3> QED
      BY <1>4, <3>1, <3>2 DEF Connected
  <2>4. (\A r \in Slots : SlotHolds(r))'
    BY <1>0, <2>1, <2>2, <2>3, SplitLinkAssumption DEF SlotHolds
  <2>5. (\A q \in Peripherals : LinkHeld(q))' /\ AddrsOnce' /\ AddrsFill'
    BY <2>1 DEF LinkHeld, AddrsOnce, AddrsFill
  <2>6. /\ state' \in [Slots -> SlotStates] /\ link' \in [Peripherals -> {"down", "pending", "up", "lost"}]
        /\ isConnected' \in [Peripherals -> BOOLEAN] /\ adv' \in [Peripherals -> Adverts]
    BY <2>1 DEF SlotStates, Adverts
  <2> QED
    BY <2>1, <2>3, <2>4, <2>5, <2>6
<1>5. ASSUME NEW p \in Peripherals, NEW s \in Slots, ConnectFails(p, s)
      PROVE  LinkInv'
  <2>1. /\ isScanning' \in BOOLEAN /\ scanning' \in BOOLEAN /\ failures' \in 0 .. MaxFailures
        /\ failures' >= failures /\ FlagTrue' /\ ScanningWhenNeeded'
    BY <1>0, <1>5, StartScanningSound DEF ConnectFails
  <2>2. /\ UNCHANGED <<isEnabled, addrs, drops, peripheralVars>> /\ IsSlotOf(s, p) /\ Release(s)
        /\ link' = [link EXCEPT ![p] = "down"]
    BY <1>5 DEF ConnectFails
  <2>3. AddrsOnce' /\ AddrsFill'
    BY <2>2 DEF AddrsOnce, AddrsFill
  <2>4. failures' \in Int
    BY <1>0, <2>1
  <2>5. /\ state' \in [Slots -> SlotStates] /\ listening' \in [Slots -> Listening]
        /\ conn' \in [Slots -> Peripherals \cup {None}]
        /\ link' \in [Peripherals -> {"down", "pending", "up", "lost"}]
        /\ (\A r \in Slots : SlotHolds(r))' /\ (\A q \in Peripherals : LinkHeld(q))'
    BY <2>1, <2>2, <2>4, ReleaseSound
  <2> QED
    BY <2>1, <2>2, <2>3, <2>5 DEF peripheralVars
<1>6. ASSUME NEW p \in Peripherals, NEW s \in Slots, Subscribe(p, s)
      PROVE  LinkInv'
  <2>1. /\ UNCHANGED <<isEnabled, state, conn, addrs, isScanning, scanning, link, isConnected, adv,
                       lowDuty, drops>>
        /\ \/ /\ failures' = failures /\ listening' = [listening EXCEPT ![s] = "yes"]
              /\ bonded' = [bonded EXCEPT ![p] = TRUE]
           \/ /\ failures < MaxFailures /\ failures' = failures + 1
              /\ listening' = [listening EXCEPT ![s] = "no"] /\ bonded' = bonded
    BY <1>6 DEF Subscribe, Works, Fails
  <2>2. failures' \in 0 .. MaxFailures /\ failures' >= failures
    BY <1>0, <2>1
  <2>3. listening' \in [Slots -> Listening]
    BY <2>1 DEF Listening
  <2>4. bonded' \in [Peripherals -> BOOLEAN]
    BY <2>1
  <2>5. /\ AddrsOnce' /\ AddrsFill' /\ (\A r \in Slots : SlotHolds(r))'
        /\ (\A q \in Peripherals : LinkHeld(q))' /\ FlagTrue' /\ ScanningWhenNeeded'
    BY <1>0, <2>1, <2>2, LinkKept
  <2> QED
    BY <2>1, <2>2, <2>3, <2>4, <2>5
<1>7. ASSUME NEW p \in Peripherals, AdvertisingTimeout(p) \/ AdvertisingWork(p) \/ PeripheralDisconnected(p)
      PROVE  LinkInv'
  <2>1. /\ UNCHANGED centralVars /\ failures' \in 0 .. MaxFailures /\ failures' >= failures
        /\ bonded' = bonded
    BY <1>0, <1>7 DEF AdvertisingTimeout, AdvertisingWork, PeripheralDisconnected, Works, Fails
  <2>2. /\ isConnected' \in [Peripherals -> BOOLEAN] /\ adv' \in [Peripherals -> Adverts]
        /\ lowDuty' \in [Peripherals -> BOOLEAN]
    BY <1>7 DEF AdvertisingTimeout, AdvertisingWork, PeripheralDisconnected, Adverts
  <2> QED
    BY <1>0, <2>1, <2>2, LinkKept DEF centralVars
<1> QED
  BY <1>1, <1>2, <1>3, <1>4, <1>5, <1>6, <1>7 DEF LinkSteps

LEMMA LinkBreaksSound ==
  ASSUME LinkInv, NEW p \in Peripherals, LinkLost(p)
  PROVE  LinkInv'
<1> USE DEF LinkInv, LinkTypeOK
<1>1. /\ link[p] = "up" /\ link' = [link EXCEPT ![p] = "lost"]
      /\ drops < MaxDrops /\ drops' = drops + 1
      /\ UNCHANGED <<isEnabled, state, conn, listening, addrs, isScanning, scanning,
                     peripheralVars, failures>>
  BY DEF LinkLost
<1>2. drops' \in 0 .. MaxDrops /\ link' \in [Peripherals -> {"down", "pending", "up", "lost"}]
  BY <1>1, SplitLinkAssumption
<1>3. (\A s \in Slots : SlotHolds(s))'
  BY <1>1, SplitLinkAssumption DEF SlotHolds
<1>4. (\A q \in Peripherals : LinkHeld(q))' /\ AddrsOnce' /\ AddrsFill'
  BY <1>1 DEF LinkHeld, AddrsOnce, AddrsFill
<1>5. FlagTrue' /\ ScanningWhenNeeded'
  <2>1. Pending' = Pending
    BY <1>1 DEF Pending
  <2> QED
    BY <1>1, <2>1 DEF FlagTrue, ScanningWhenNeeded
<1> QED
  BY <1>1, <1>2, <1>3, <1>4, <1>5 DEF peripheralVars

LEMMA SlotReleasedSound ==
  ASSUME LinkInv, NEW p \in Peripherals, NEW s \in Slots, Disconnected(p, s)
  PROVE  LinkInv'
<1> USE DEF LinkInv, LinkTypeOK
<1>0. failures \in 0 .. MaxFailures /\ (failures = 0 /\ isScanning => scanning)
  BY DEF FlagTrue
<1>1. /\ isScanning' \in BOOLEAN /\ scanning' \in BOOLEAN /\ failures' \in 0 .. MaxFailures
      /\ failures' >= failures /\ FlagTrue' /\ ScanningWhenNeeded'
  BY <1>0, StartScanningSound DEF Disconnected
<1>2. /\ UNCHANGED <<isEnabled, addrs, drops, peripheralVars>> /\ IsSlotOf(s, p) /\ Release(s)
      /\ link' = [link EXCEPT ![p] = "down"]
  BY DEF Disconnected
<1>3. AddrsOnce' /\ AddrsFill'
  BY <1>2 DEF AddrsOnce, AddrsFill
<1>4. failures' \in Int
  BY <1>1, SplitLinkAssumption
<1>5. /\ state' \in [Slots -> SlotStates] /\ listening' \in [Slots -> Listening]
      /\ conn' \in [Slots -> Peripherals \cup {None}]
      /\ link' \in [Peripherals -> {"down", "pending", "up", "lost"}]
      /\ (\A r \in Slots : SlotHolds(r))' /\ (\A q \in Peripherals : LinkHeld(q))'
  BY <1>1, <1>2, <1>4, ReleaseSound
<1> QED
  BY <1>1, <1>2, <1>3, <1>5 DEF peripheralVars

LEMMA LinkKeeps == LinkInv /\ UNCHANGED linkVars => LinkInv'
BY DEF LinkInv, linkVars, LinkTypeOK, AddrsOnce, AddrsFill, SlotHolds, LinkHeld, FlagTrue,
       ScanningWhenNeeded, Pending

LEMMA LinkNext ==
  ASSUME LinkInv, [Next]_vars
  PROVE  LinkInv'
<1>1. CASE LinkSteps
  BY <1>1, LinkStep
<1>2. CASE UNCHANGED linkVars
  BY <1>2, LinkKeeps
<1>3. CASE \E p \in Peripherals : LinkBreaks(p)
  BY <1>3, LinkBreaksSound DEF LinkBreaks
<1>4. CASE \E p \in Peripherals, s \in Slots : SlotReleased(p, s)
  BY <1>4, SlotReleasedSound DEF SlotReleased
<1> QED
  BY <1>1, <1>2, <1>3, <1>4, NextSplits, KeyStepsKeepLink DEF vars

\* One slot per connection, counted
LEMMA LinkInvCounts == LinkInv => SlotsFollowLinks
<1> SUFFICES ASSUME LinkInv
             PROVE  SlotsFollowLinks
  OBVIOUS
<1> USE DEF LinkInv, LinkTypeOK
<1>1. ASSUME NEW p \in Peripherals
      PROVE  Cardinality({s \in Slots : conn[s] = p}) = IF link[p] = "down" THEN 0 ELSE 1
  <2> DEFINE held == {s \in Slots : conn[s] = p}
  <2>1. CASE link[p] = "down"
    <3>1. held = {}
      BY <2>1, SplitLinkAssumption DEF SlotHolds
    <3> QED
      BY <2>1, <3>1, FS_EmptySet
  <2>2. CASE link[p] # "down"
    <3>1. PICK s \in Slots : conn[s] = p
      BY <2>2 DEF LinkHeld
    <3>2. \A r \in Slots : conn[r] = p => r = s
      BY <3>1, SplitLinkAssumption DEF SlotHolds, AddrsOnce
    <3>3. held = {s}
      BY <3>1, <3>2
    <3> QED
      BY <2>2, <3>3, FS_Singleton
  <2> QED
    BY <2>1, <2>2
<1> QED
  BY <1>1 DEF SlotsFollowLinks, SlotHolds, AddrsOnce
-----------------------------------------------------------------------------
(* The order of the loop over the positions *)

\* How many members of a set are smaller
Rank(S, x) == Cardinality({y \in S : y < x})

LEMMA RankSound ==
  ASSUME NEW S, S \subseteq Nat, IsFiniteSet(S)
  PROVE  /\ Cardinality(S) \in Nat
         /\ \A x \in S : Rank(S, x) \in Nat /\ Rank(S, x) < Cardinality(S)
         /\ \A x, z \in S : x < z => Rank(S, x) < Rank(S, z)
<1>0. Cardinality(S) \in Nat
  BY FS_CardinalityType
<1>2. ASSUME NEW x \in S
      PROVE  Rank(S, x) \in Nat /\ Rank(S, x) < Cardinality(S)
  <2> DEFINE below == {y \in S : y < x}
  <2>1. below \in SUBSET S /\ below # S
    <3>1. x \in S /\ x \notin below
      OBVIOUS
    <3> QED
      BY <3>1
  <2>2. /\ IsFiniteSet(below) /\ Cardinality(below) <= Cardinality(S)
        /\ Cardinality(S) # Cardinality(below)
    BY <2>1, FS_Subset
  <2>3. Cardinality(below) \in Nat
    BY <2>2, FS_CardinalityType
  <2>4. Rank(S, x) = Cardinality(below)
    BY DEF Rank
  <2> HIDE DEF below
  <2> QED
    BY <1>0, <2>2, <2>3, <2>4
<1>3. ASSUME NEW x \in S, NEW z \in S, x < z
      PROVE  Rank(S, x) < Rank(S, z)
  <2> DEFINE low == {y \in S : y < x}
             high == {y \in S : y < z}
  <2>1. low \in SUBSET high /\ low # high
    <3>1. low \subseteq high
      <4> SUFFICES ASSUME NEW y \in S, y < x
                   PROVE  y < z
        OBVIOUS
      <4>1. x \in Int /\ y \in Int /\ z \in Int
        OBVIOUS
      <4> QED
        BY <1>3, <4>1
    <3>2. x \in high /\ x \notin low
      BY <1>3
    <3> HIDE DEF low, high
    <3> QED
      BY <3>1, <3>2
  <2>2. IsFiniteSet(high)
    <3>1. high \in SUBSET S
      OBVIOUS
    <3> QED
      BY <3>1, FS_Subset
  <2>3. /\ IsFiniteSet(low) /\ Cardinality(low) <= Cardinality(high)
        /\ Cardinality(low) # Cardinality(high)
    BY <2>1, <2>2, FS_Subset
  <2>4. Cardinality(low) \in Nat /\ Cardinality(high) \in Nat
    BY <2>2, <2>3, FS_CardinalityType
  <2>5. Rank(S, x) = Cardinality(low) /\ Rank(S, z) = Cardinality(high)
    BY DEF Rank
  <2> HIDE DEF low, high
  <2> QED
    BY <2>3, <2>4, <2>5
<1> QED
  BY <1>0, <1>2, <1>3

\* Ascending lists each member of a finite set of numbers once
LEMMA AscendingSound ==
  ASSUME NEW S, S \subseteq Nat, IsFiniteSet(S)
  PROVE  /\ Ascending(S) \in [1 .. Cardinality(S) -> S]
         /\ \A j, k \in 1 .. Cardinality(S) : Ascending(S)[j] = Ascending(S)[k] => j = k
         /\ \A x \in S : \E k \in 1 .. Cardinality(S) : Ascending(S)[k] = x
         /\ \A k \in 1 .. Cardinality(S) : Rank(S, Ascending(S)[k]) = k - 1
<1> DEFINE n == Cardinality(S)
           place == [x \in S |-> Rank(S, x) + 1]
<1>1. /\ n \in Nat
      /\ \A x \in S : Rank(S, x) \in Nat /\ Rank(S, x) < n
      /\ \A x, z \in S : x < z => Rank(S, x) < Rank(S, z)
  BY RankSound
<1>2. place \in Injection(S, 1 .. n)
  <2>1. place \in [S -> 1 .. n]
    <3> SUFFICES ASSUME NEW x \in S
                 PROVE  Rank(S, x) + 1 \in 1 .. n
      OBVIOUS
    <3> HIDE DEF n
    <3> QED
      BY <1>1
  <2>2. ASSUME NEW x \in S, NEW z \in S, place[x] = place[z]
        PROVE  x = z
    <3>1. Rank(S, x) = Rank(S, z)
      BY <1>1, <2>2
    <3>2. x \in Nat /\ z \in Nat
      OBVIOUS
    <3> HIDE DEF n, place
    <3> QED
      BY <1>1, <3>1, <3>2
  <2> QED
    BY <2>1, <2>2 DEF Injection, IsInjective
<1>3. place \in Surjection(S, 1 .. n)
  <2>1. IsFiniteSet(1 .. n) /\ Cardinality(1 .. n) = n
    <3> HIDE DEF n
    <3>1. n \in Int /\ 1 \in Int /\ n >= 0
      BY <1>1
    <3> QED
      BY <3>1, FS_Interval
  <2> QED
    BY <1>2, <2>1, FS_Injection
<1>4. \A k \in 1 .. n : \E x \in S : Rank(S, x) = k - 1
  <2> SUFFICES ASSUME NEW k \in 1 .. n
               PROVE  \E x \in S : Rank(S, x) = k - 1
    OBVIOUS
  <2>1. PICK x \in S : place[x] = k
    BY <1>3 DEF Surjection
  <2>2. Rank(S, x) + 1 = k
    BY <2>1
  <2> HIDE DEF n, place
  <2> QED
    BY <1>1, <2>2
<1>5. \A k \in 1 .. n : Ascending(S)[k] \in S /\ Rank(S, Ascending(S)[k]) = k - 1
  BY <1>4 DEF Ascending, Rank
<1>6. Ascending(S) \in [1 .. n -> S]
  BY <1>5 DEF Ascending
<1>7. \A j, k \in 1 .. n : Ascending(S)[j] = Ascending(S)[k] => j = k
  <2> HIDE DEF n
  <2> QED
    BY <1>1, <1>5
<1>8. ASSUME NEW x \in S
      PROVE  \E k \in 1 .. n : Ascending(S)[k] = x
  <2> HIDE DEF n, place
  <2>1. Rank(S, x) + 1 \in 1 .. n
    BY <1>1
  <2>2. /\ Ascending(S)[Rank(S, x) + 1] \in S
        /\ Rank(S, Ascending(S)[Rank(S, x) + 1]) = Rank(S, x)
    BY <1>1, <1>5, <2>1
  <2>3. Ascending(S)[Rank(S, x) + 1] = x
    <3> DEFINE z == Ascending(S)[Rank(S, x) + 1]
    <3>1. z \in S /\ Rank(S, z) = Rank(S, x) /\ Rank(S, x) \in Nat
      BY <1>1, <2>2
    <3> HIDE DEF z
    <3>2. x \in Int /\ z \in Int
      BY <3>1
    <3>3. ~(x < z) /\ ~(z < x)
      BY <1>1, <3>1
    <3>4. z = x
      BY <3>2, <3>3
    <3> QED
      BY <3>4 DEF z
  <2> QED
    BY <2>1, <2>3
<1> QED
  BY <1>5, <1>6, <1>7, <1>8

\* A finite set of numbers has a greatest
LEMMA Greatest ==
  ASSUME NEW S, S \subseteq Nat, IsFiniteSet(S), S # {}
  PROVE  \E x \in S : \A y \in S : y <= x
<1> DEFINE n == Cardinality(S)
<1>1. /\ n \in Nat
      /\ \A x \in S : Rank(S, x) \in Nat /\ Rank(S, x) < n
      /\ \A x, z \in S : x < z => Rank(S, x) < Rank(S, z)
  BY RankSound
<1>2. PICK x \in S : Rank(S, x) = n - 1
  <2>1. n \in 1 .. n
    <3>1. n # 0
      BY FS_EmptySet
    <3> HIDE DEF n
    <3> QED
      BY <1>1, <3>1
  <2>2. Ascending(S)[n] \in S /\ Rank(S, Ascending(S)[n]) = n - 1
    BY <2>1, AscendingSound
  <2> QED
    BY <2>2
<1>3. \A y \in S : y <= x
  <2> HIDE DEF n
  <2> QED
    BY <1>1, <1>2
<1> QED
  BY <1>3
-----------------------------------------------------------------------------
(* The queue of events *)

AnEvent == [slot : Slots, pos : Positions, pressed : BOOLEAN]
IsAbout(k, s, pos) == k \in 1 .. Len(events) /\ events[k].slot = s /\ events[k].pos = pos

\* What putting the events of a set of positions does: the queue goes on with one event
\* for each of them that fits, and those that do not fit are noted in lost.
PutOf(s, C, keysDown) ==
  /\ events' \in Seq(AnEvent) /\ Len(events') <= EventQueue /\ Len(events) <= Len(events')
  /\ \A k \in 1 .. Len(events) : events'[k] = events[k]
  /\ \A k \in Len(events) + 1 .. Len(events') :
       /\ events'[k].slot = s /\ events'[k].pos \in C
       /\ events'[k].pressed = (events'[k].pos \in keysDown)
  /\ \A j, k \in Len(events) + 1 .. Len(events') : events'[j].pos = events'[k].pos => j = k
  /\ \A pos \in C : <<s, pos>> \notin lost' =>
                      \E k \in Len(events) + 1 .. Len(events') : events'[k].pos = pos
  /\ \A l \in lost : (l[1] # s \/ l[2] \notin C) => l \in lost'
  /\ lost' \subseteq Slots \X Positions /\ dropped' \in BOOLEAN
  /\ ~dropped' => ~dropped /\ lost' \subseteq lost

LEMMA PutSound ==
  ASSUME events \in Seq(AnEvent), Len(events) <= EventQueue, lost \subseteq Slots \X Positions,
         dropped \in BOOLEAN, NEW s \in Slots, NEW C \in SUBSET Positions, NEW keysDown,
         PutEvents(s, C, keysDown)
  PROVE  PutOf(s, C, keysDown)
<1> DEFINE order == Ascending(C)
           m == Cardinality(C)
           fit == Smaller(Len(order), EventQueue - Len(events))
           new == [k \in 1 .. fit |-> Event(s, order[k], order[k] \in keysDown)]
<1>1. /\ m \in Nat /\ order \in [1 .. m -> C]
      /\ \A j, k \in 1 .. m : order[j] = order[k] => j = k
      /\ \A x \in C : \E k \in 1 .. m : order[k] = x
  <2>1. C \subseteq Nat /\ IsFiniteSet(C)
    BY SplitKeysAssumption, FS_Subset
  <2> QED
    BY <2>1, AscendingSound, FS_CardinalityType
<1>2. Len(order) = m /\ Len(events) \in Nat /\ EventQueue \in Nat
  <2> HIDE DEF order, m
  <2>1. order \in Seq(C)
    BY <1>1, SeqDef
  <2>2. Len(order) \in Nat /\ DOMAIN order = 1 .. Len(order) /\ DOMAIN order = 1 .. m
    BY <1>1, <2>1, LenProperties
  <2>3. Len(order) = m
    BY <1>1, <2>2
  <2> QED
    BY <2>3, SplitKeysAssumption, LenProperties
<1>3. fit \in 0 .. m /\ Len(events) + fit <= EventQueue
  <2> HIDE DEF order, m
  <2> QED
    BY <1>1, <1>2 DEF Smaller
<1>4. /\ events' = events \o new
      /\ lost' = {l \in lost : l[1] # s \/ l[2] \notin C} \cup {<<s, order[k]>> : k \in fit + 1 .. m}
      /\ dropped' = (dropped \/ fit < m)
  BY <1>2 DEF PutEvents
<1> HIDE DEF order, m, fit
<1>5. \A k \in 1 .. fit : k \in 1 .. m /\ order[k] \in C /\ order[k] \in Positions
  BY <1>1, <1>3
<1>6. new \in Seq(AnEvent) /\ Len(new) = fit
  <2>1. \A k \in 1 .. fit : Event(s, order[k], order[k] \in keysDown) \in AnEvent
    BY <1>5 DEF Event, AnEvent
  <2>2. new \in [1 .. fit -> AnEvent] /\ fit \in Nat
    BY <1>3, <2>1
  <2> HIDE DEF new
  <2>3. new \in Seq(AnEvent)
    BY <2>2, SeqDef
  <2>4. Len(new) \in Nat /\ DOMAIN new = 1 .. Len(new) /\ DOMAIN new = 1 .. fit
    BY <2>2, <2>3, LenProperties
  <2>5. Len(new) = fit
    BY <2>2, <2>4
  <2> QED
    BY <2>3, <2>5
<1>7. \A k \in 1 .. fit : /\ new[k].slot = s /\ new[k].pos = order[k]
                          /\ new[k].pressed = (order[k] \in keysDown)
  BY DEF Event
<1> HIDE DEF new
<1>8. /\ events' \in Seq(AnEvent) /\ Len(events') = Len(events) + fit
      /\ \A i \in 1 .. Len(events) + fit :
           events'[i] = IF i <= Len(events) THEN events[i] ELSE new[i - Len(events)]
  BY <1>4, <1>6, ConcatProperties
<1>9. \A k \in 1 .. Len(events) : events'[k] = events[k]
  BY <1>2, <1>3, <1>8
<1>10. \A k \in Len(events) + 1 .. Len(events') :
         /\ k - Len(events) \in 1 .. fit /\ events'[k] = new[k - Len(events)]
  BY <1>2, <1>3, <1>8
<1>11. \A k \in Len(events) + 1 .. Len(events') :
         /\ events'[k].slot = s /\ events'[k].pos = order[k - Len(events)]
         /\ events'[k].pos \in C /\ events'[k].pressed = (events'[k].pos \in keysDown)
  BY <1>5, <1>7, <1>10
<1>12. \A j, k \in Len(events) + 1 .. Len(events') : events'[j].pos = events'[k].pos => j = k
  <2> SUFFICES ASSUME NEW j \in Len(events) + 1 .. Len(events'),
                      NEW k \in Len(events) + 1 .. Len(events'), events'[j].pos = events'[k].pos
               PROVE  j = k
    OBVIOUS
  <2>1. order[j - Len(events)] = order[k - Len(events)]
    BY <1>11
  <2>2. j - Len(events) \in 1 .. m /\ k - Len(events) \in 1 .. m
    BY <1>5, <1>10
  <2>3. j - Len(events) = k - Len(events)
    BY <1>1, <2>1, <2>2
  <2> QED
    BY <1>2, <1>3, <1>8, <2>3
<1>13. ASSUME NEW pos \in C, <<s, pos>> \notin lost'
       PROVE  \E k \in Len(events) + 1 .. Len(events') : events'[k].pos = pos
  <2>1. PICK i \in 1 .. m : order[i] = pos
    BY <1>1
  <2>2. i \notin fit + 1 .. m
    BY <1>4, <1>13, <2>1
  <2>3. i \in 1 .. fit
    BY <1>1, <1>3, <2>2
  <2>4. Len(events) + i \in Len(events) + 1 .. Len(events') /\ (Len(events) + i) - Len(events) = i
    BY <1>2, <1>3, <1>8, <2>3
  <2> QED
    BY <1>11, <2>1, <2>4
<1>14. \A l \in lost : (l[1] # s \/ l[2] \notin C) => l \in lost'
  BY <1>4
<1>15. lost' \subseteq Slots \X Positions
  <2>1. \A k \in fit + 1 .. m : order[k] \in Positions
    BY <1>1, <1>3
  <2> QED
    BY <1>4, <2>1
<1>16. dropped' \in BOOLEAN
  BY <1>4
<1>17. ~dropped' => ~dropped /\ lost' \subseteq lost
  <2> SUFFICES ASSUME ~dropped'
               PROVE  ~dropped /\ lost' \subseteq lost
    OBVIOUS
  <2>1. ~dropped /\ ~(fit < m)
    BY <1>4
  <2>2. fit + 1 .. m = {}
    BY <1>1, <1>3, <2>1
  <2> QED
    BY <1>4, <2>1, <2>2
<1>18. Len(events') <= EventQueue /\ Len(events) <= Len(events')
  BY <1>2, <1>3, <1>8
<1> QED
  BY <1>8, <1>9, <1>11, <1>12, <1>13, <1>14, <1>15, <1>16, <1>17, <1>18 DEF PutOf
-----------------------------------------------------------------------------
(* The keymap *)

\* What the last event about a position says is what the central saw, and so is the
\* keymap when there is none, unless the last one was dropped.
Synced ==
  \A s \in Slots, pos \in Positions : <<s, pos>> \notin lost =>
    /\ (\A k \in 1 .. Len(events) : ~IsAbout(k, s, pos)) => (pos \in keys[s] <=> pos \in view[s])
    /\ \A k \in 1 .. Len(events) :
         IsAbout(k, s, pos) /\ (\A j \in 1 .. Len(events) : IsAbout(j, s, pos) => j <= k)
           => (events[k].pressed <=> pos \in view[s])

\* The events about a position alternate, starting with a change of the keymap.
Alternating ==
  ~dropped =>
    /\ lost = {}
    /\ \A s \in Slots, pos \in Positions, k \in 1 .. Len(events) : IsAbout(k, s, pos) =>
         /\ (\A j \in 1 .. Len(events) : IsAbout(j, s, pos) => k <= j)
              => ~(events[k].pressed <=> pos \in keys[s])
         /\ \A j \in 1 .. Len(events) :
              IsAbout(j, s, pos) /\ j < k
              /\ (\A i \in 1 .. Len(events) : IsAbout(i, s, pos) => i <= j \/ k <= i)
                => ~(events[j].pressed <=> events[k].pressed)

LEMMA PutKeepsSynced ==
  ASSUME KeysTypeOK, Synced, NEW s \in Slots, NEW V \in SUBSET Positions, NEW C \in SUBSET Positions,
         C = (V \ view[s]) \cup (view[s] \ V), PutOf(s, C, V),
         view' = [view EXCEPT ![s] = V], keys' = keys
  PROVE  Synced'
<1> SUFFICES ASSUME NEW r \in Slots, NEW pos \in Positions, <<r, pos>> \notin lost'
             PROVE  /\ (\A k \in 1 .. Len(events)' : ~IsAbout(k, r, pos)')
                         => (pos \in keys[r] <=> pos \in view'[r])
                    /\ \A k \in 1 .. Len(events)' :
                         IsAbout(k, r, pos)' /\ (\A j \in 1 .. Len(events)' : IsAbout(j, r, pos)' => j <= k)
                           => (events'[k].pressed <=> pos \in view'[r])
  BY DEF Synced
<1>0. Len(events) \in Nat /\ Len(events') \in Nat /\ Len(events) <= Len(events')
  <2>1. events \in Seq(AnEvent) /\ events' \in Seq(AnEvent)
    BY DEF KeysTypeOK, PutOf, AnEvent
  <2> QED
    BY <2>1, LenProperties DEF PutOf
<1>1. \A k \in 1 .. Len(events) : events'[k] = events[k] /\ (IsAbout(k, r, pos)' <=> IsAbout(k, r, pos))
  BY <1>0 DEF PutOf, IsAbout
<1>2. CASE r = s /\ pos \in C
  <2>1. PICK n \in Len(events) + 1 .. Len(events') : events'[n].pos = pos
    BY <1>2 DEF PutOf
  <2>2. IsAbout(n, r, pos)' /\ (events'[n].pressed <=> pos \in V)
    <3>1. n \in 1 .. Len(events')
      BY <1>0, <2>1
    <3>2. events'[n].slot = s /\ (events'[n].pressed <=> pos \in V)
      <4>1. events'[n].slot = s /\ events'[n].pressed = (events'[n].pos \in V)
        BY <2>1 DEF PutOf
      <4> QED
        BY <2>1, <4>1
    <3> QED
      BY <1>2, <2>1, <3>1, <3>2 DEF IsAbout
  <2>3. \A k \in Len(events) + 1 .. Len(events') : IsAbout(k, r, pos)' => k = n
    BY <2>1 DEF PutOf, IsAbout
  <2>4. pos \in view'[r] <=> pos \in V
    BY <1>2 DEF KeysTypeOK
  <2> QED
    BY <1>0, <2>1, <2>2, <2>3, <2>4
<1>3. CASE ~(r = s /\ pos \in C)
  <2>1. <<r, pos>> \notin lost
    <3> SUFFICES ASSUME <<r, pos>> \in lost
                 PROVE  <<r, pos>> \in lost'
      OBVIOUS
    <3>1. <<r, pos>>[1] # s \/ <<r, pos>>[2] \notin C
      BY <1>3
    <3> QED
      BY <3>1 DEF PutOf
  <2>2. pos \in view'[r] <=> pos \in view[r]
    BY <1>3 DEF KeysTypeOK
  <2>3. \A k \in Len(events) + 1 .. Len(events') : ~IsAbout(k, r, pos)'
    BY <1>3 DEF PutOf, IsAbout
  <2>4. \A k \in 1 .. Len(events') : IsAbout(k, r, pos)' => k \in 1 .. Len(events)
    BY <1>0, <2>3
  <2>5. ASSUME \A k \in 1 .. Len(events)' : ~IsAbout(k, r, pos)'
        PROVE  pos \in keys[r] <=> pos \in view'[r]
    <3>1. \A k \in 1 .. Len(events) : ~IsAbout(k, r, pos)
      BY <1>0, <1>1, <2>5
    <3> QED
      BY <2>1, <2>2, <3>1 DEF Synced
  <2>6. ASSUME NEW k \in 1 .. Len(events)', IsAbout(k, r, pos)',
               \A j \in 1 .. Len(events)' : IsAbout(j, r, pos)' => j <= k
        PROVE  events'[k].pressed <=> pos \in view'[r]
    <3>1. k \in 1 .. Len(events) /\ IsAbout(k, r, pos) /\ events'[k] = events[k]
      BY <1>1, <2>4, <2>6
    <3>2. \A j \in 1 .. Len(events) : IsAbout(j, r, pos) => j <= k
      BY <1>0, <1>1, <2>6
    <3> QED
      BY <2>1, <2>2, <3>1, <3>2 DEF Synced
  <2> QED
    BY <2>5, <2>6
<1> QED
  BY <1>2, <1>3

LEMMA PutKeepsAlternating ==
  ASSUME KeysTypeOK, Synced, Alternating, NEW s \in Slots, NEW V \in SUBSET Positions,
         NEW C \in SUBSET Positions, C = (V \ view[s]) \cup (view[s] \ V), PutOf(s, C, V),
         view' = [view EXCEPT ![s] = V], keys' = keys
  PROVE  Alternating'
<1> SUFFICES ASSUME ~dropped'
             PROVE  /\ lost' = {}
                    /\ \A r \in Slots, pos \in Positions, k \in 1 .. Len(events)' : IsAbout(k, r, pos)' =>
                         /\ (\A j \in 1 .. Len(events)' : IsAbout(j, r, pos)' => k <= j)
                              => ~(events'[k].pressed <=> pos \in keys[r])
                         /\ \A j \in 1 .. Len(events)' :
                              IsAbout(j, r, pos)' /\ j < k
                              /\ (\A i \in 1 .. Len(events)' : IsAbout(i, r, pos)' => i <= j \/ k <= i)
                                => ~(events'[j].pressed <=> events'[k].pressed)
  BY DEF Alternating
<1>0. Len(events) \in Nat /\ Len(events') \in Nat /\ Len(events) <= Len(events')
  <2>1. events \in Seq(AnEvent) /\ events' \in Seq(AnEvent)
    BY DEF KeysTypeOK, PutOf, AnEvent
  <2> QED
    BY <2>1, LenProperties DEF PutOf
<1>1. ~dropped /\ lost = {} /\ lost' = {}
  BY DEF Alternating, PutOf
<1> SUFFICES ASSUME NEW r \in Slots, NEW pos \in Positions, NEW k \in 1 .. Len(events)', IsAbout(k, r, pos)'
             PROVE  /\ (\A j \in 1 .. Len(events)' : IsAbout(j, r, pos)' => k <= j)
                         => ~(events'[k].pressed <=> pos \in keys[r])
                    /\ \A j \in 1 .. Len(events)' :
                         IsAbout(j, r, pos)' /\ j < k
                         /\ (\A i \in 1 .. Len(events)' : IsAbout(i, r, pos)' => i <= j \/ k <= i)
                           => ~(events'[j].pressed <=> events'[k].pressed)
  BY <1>1
<1>2. \A j \in 1 .. Len(events) : events'[j] = events[j] /\ (IsAbout(j, r, pos)' <=> IsAbout(j, r, pos))
  BY <1>0 DEF PutOf, IsAbout
<1>3. CASE k \in 1 .. Len(events)
  <2>1. IsAbout(k, r, pos) /\ events'[k] = events[k]
    BY <1>2, <1>3
  <2>2. ASSUME \A j \in 1 .. Len(events)' : IsAbout(j, r, pos)' => k <= j
        PROVE  ~(events'[k].pressed <=> pos \in keys[r])
    <3>1. \A j \in 1 .. Len(events) : IsAbout(j, r, pos) => k <= j
      BY <1>0, <1>2, <2>2
    <3> QED
      BY <1>1, <1>3, <2>1, <3>1 DEF Alternating
  <2>3. ASSUME NEW j \in 1 .. Len(events)', IsAbout(j, r, pos)', j < k,
               \A i \in 1 .. Len(events)' : IsAbout(i, r, pos)' => i <= j \/ k <= i
        PROVE  ~(events'[j].pressed <=> events'[k].pressed)
    <3>1. j \in 1 .. Len(events)
      BY <1>0, <1>3, <2>3
    <3>2. IsAbout(j, r, pos) /\ events'[j] = events[j]
      BY <1>2, <2>3, <3>1
    <3>3. \A i \in 1 .. Len(events) : IsAbout(i, r, pos) => i <= j \/ k <= i
      BY <1>0, <1>2, <2>3
    <3> QED
      BY <1>1, <1>3, <2>1, <2>3, <3>1, <3>2, <3>3 DEF Alternating
  <2> QED
    BY <2>2, <2>3
<1>4. CASE k \in Len(events) + 1 .. Len(events')
  <2>1. /\ r = s /\ pos \in C /\ (events'[k].pressed <=> pos \in V)
        /\ \A j \in Len(events) + 1 .. Len(events') : IsAbout(j, r, pos)' => j = k
    BY <1>4 DEF PutOf, IsAbout
  <2>2. pos \in V <=> ~(pos \in view[r])
    BY <2>1 DEF KeysTypeOK
  <2>3. ASSUME \A j \in 1 .. Len(events)' : IsAbout(j, r, pos)' => k <= j
        PROVE  ~(events'[k].pressed <=> pos \in keys[r])
    <3>1. \A j \in 1 .. Len(events) : ~IsAbout(j, r, pos)
      BY <1>0, <1>2, <1>4, <2>3
    <3>2. pos \in keys[r] <=> pos \in view[r]
      BY <1>1, <3>1 DEF Synced
    <3> QED
      BY <2>1, <2>2, <3>2
  <2>4. ASSUME NEW j \in 1 .. Len(events)', IsAbout(j, r, pos)', j < k,
               \A i \in 1 .. Len(events)' : IsAbout(i, r, pos)' => i <= j \/ k <= i
        PROVE  ~(events'[j].pressed <=> events'[k].pressed)
    <3>1. j \in 1 .. Len(events)
      BY <1>0, <1>4, <2>1, <2>4
    <3>2. IsAbout(j, r, pos) /\ events'[j] = events[j]
      BY <1>2, <2>4, <3>1
    <3>3. \A i \in 1 .. Len(events) : IsAbout(i, r, pos) => i <= j
      BY <1>0, <1>2, <1>4, <2>4
    <3>4. events[j].pressed <=> pos \in view[r]
      BY <1>1, <3>1, <3>2, <3>3 DEF Synced
    <3> QED
      BY <2>1, <2>2, <3>2, <3>4
  <2> QED
    BY <2>3, <2>4
<1> QED
  BY <1>0, <1>3, <1>4

\* What handling the first event does
LEMMA EventWorkKeeps ==
  ASSUME KeysTypeOK, Synced, Alternating, EventWork
  PROVE  /\ KeysTypeOK' /\ Synced' /\ Alternating'
         /\ ~dropped => keys' # keys
<1> DEFINE e == Head(events)
<1>1. /\ events \in Seq(AnEvent) /\ events # <<>> /\ events' = Tail(events)
      /\ keys' = [keys EXCEPT ![e.slot] = IF e.pressed THEN @ \cup {e.pos} ELSE @ \ {e.pos}]
      /\ UNCHANGED <<pressed, stateQ, sending, air, view, lost, dropped, fresh, changes>>
  BY DEF EventWork, KeysTypeOK, AnEvent
<1>2. /\ Len(events) \in Nat /\ Len(events) >= 1 /\ e \in AnEvent /\ e = events[1]
      /\ events' \in Seq(AnEvent) /\ Len(events') = Len(events) - 1
      /\ \A i \in 1 .. Len(events') : events'[i] = events[i + 1]
  <2>1. Len(events) \in Nat \ {0}
    BY <1>1, EmptySeq
  <2>2. e = events[1]
    BY <1>1
  <2>3. e \in AnEvent
    BY <1>1, HeadTailProperties
  <2> QED
    BY <1>1, <2>1, <2>2, <2>3, HeadTailProperties
<1>3. e.slot \in Slots /\ e.pos \in Positions /\ e.pressed \in BOOLEAN
  BY <1>2 DEF AnEvent
<1>4. \A r \in Slots, pos \in Positions : pos \in keys'[r] <=>
        IF r = e.slot /\ pos = e.pos THEN e.pressed ELSE pos \in keys[r]
  BY <1>1, <1>3 DEF KeysTypeOK
<1> HIDE DEF e
<1>5. KeysTypeOK'
  <2>1. keys' \in [Slots -> SUBSET Positions]
    BY <1>1, <1>3 DEF KeysTypeOK
  <2>2. Len(events') <= EventQueue
    BY <1>2, SplitKeysAssumption DEF KeysTypeOK
  <2> QED
    BY <1>1, <1>2, <2>1, <2>2 DEF KeysTypeOK, AnEvent
<1>6. ASSUME NEW r \in Slots, NEW pos \in Positions
      PROVE  /\ \A k \in 1 .. Len(events') : IsAbout(k, r, pos)' <=> IsAbout(k + 1, r, pos)
             /\ IsAbout(1, r, pos) <=> r = e.slot /\ pos = e.pos
             /\ \A k \in 1 .. Len(events) : k = 1 \/ (k - 1 \in 1 .. Len(events') /\ (k - 1) + 1 = k)
  BY <1>2 DEF IsAbout
<1>7. Synced'
  <2> SUFFICES ASSUME NEW r \in Slots, NEW pos \in Positions, <<r, pos>> \notin lost
               PROVE  /\ (\A k \in 1 .. Len(events)' : ~IsAbout(k, r, pos)')
                           => (pos \in keys'[r] <=> pos \in view[r])
                      /\ \A k \in 1 .. Len(events)' :
                           IsAbout(k, r, pos)' /\ (\A j \in 1 .. Len(events)' : IsAbout(j, r, pos)' => j <= k)
                             => (events'[k].pressed <=> pos \in view[r])
    BY <1>1 DEF Synced
  <2>1. ASSUME \A k \in 1 .. Len(events)' : ~IsAbout(k, r, pos)'
        PROVE  pos \in keys'[r] <=> pos \in view[r]
    <3>1. \A k \in 1 .. Len(events) : IsAbout(k, r, pos) => k = 1
      <4> SUFFICES ASSUME NEW k \in 1 .. Len(events), IsAbout(k, r, pos), k # 1
                   PROVE  FALSE
        OBVIOUS
      <4>1. IsAbout(k - 1, r, pos)' /\ k - 1 \in 1 .. Len(events')
        BY <1>6
      <4> QED
        BY <2>1, <4>1
    <3>2. CASE IsAbout(1, r, pos)
      <4>1. events[1].pressed <=> pos \in view[r]
        BY <1>2, <3>1, <3>2 DEF Synced
      <4> QED
        BY <1>2, <1>4, <1>6, <3>2, <4>1
    <3>3. CASE ~IsAbout(1, r, pos)
      <4>1. pos \in keys[r] <=> pos \in view[r]
        BY <3>1, <3>3 DEF Synced
      <4> QED
        BY <1>4, <1>6, <3>3, <4>1
    <3> QED
      BY <3>2, <3>3
  <2>2. ASSUME NEW k \in 1 .. Len(events)', IsAbout(k, r, pos)',
               \A j \in 1 .. Len(events)' : IsAbout(j, r, pos)' => j <= k
        PROVE  events'[k].pressed <=> pos \in view[r]
    <3>1. k + 1 \in 1 .. Len(events) /\ IsAbout(k + 1, r, pos) /\ events'[k] = events[k + 1]
      BY <1>2, <1>6, <2>2
    <3>2. \A j \in 1 .. Len(events) : IsAbout(j, r, pos) => j <= k + 1
      <4> SUFFICES ASSUME NEW j \in 1 .. Len(events), IsAbout(j, r, pos), j # 1
                   PROVE  j <= k + 1
        BY <1>2
      <4>1. IsAbout(j - 1, r, pos)' /\ j - 1 \in 1 .. Len(events')
        BY <1>6
      <4>2. j - 1 <= k
        BY <2>2, <4>1
      <4> QED
        BY <4>2
    <3> QED
      BY <3>1, <3>2 DEF Synced
  <2> QED
    BY <2>1, <2>2
<1>8. Alternating'
  <2> SUFFICES ASSUME ~dropped
               PROVE  /\ lost = {}
                      /\ \A r \in Slots, pos \in Positions, k \in 1 .. Len(events)' : IsAbout(k, r, pos)' =>
                           /\ (\A j \in 1 .. Len(events)' : IsAbout(j, r, pos)' => k <= j)
                                => ~(events'[k].pressed <=> pos \in keys'[r])
                           /\ \A j \in 1 .. Len(events)' :
                                IsAbout(j, r, pos)' /\ j < k
                                /\ (\A i \in 1 .. Len(events)' : IsAbout(i, r, pos)' => i <= j \/ k <= i)
                                  => ~(events'[j].pressed <=> events'[k].pressed)
    BY <1>1 DEF Alternating
  <2>0. lost = {}
    BY DEF Alternating
  <2> SUFFICES ASSUME NEW r \in Slots, NEW pos \in Positions, NEW k \in 1 .. Len(events)', IsAbout(k, r, pos)'
               PROVE  /\ (\A j \in 1 .. Len(events)' : IsAbout(j, r, pos)' => k <= j)
                           => ~(events'[k].pressed <=> pos \in keys'[r])
                      /\ \A j \in 1 .. Len(events)' :
                           IsAbout(j, r, pos)' /\ j < k
                           /\ (\A i \in 1 .. Len(events)' : IsAbout(i, r, pos)' => i <= j \/ k <= i)
                             => ~(events'[j].pressed <=> events'[k].pressed)
    BY <2>0
  <2>1. k + 1 \in 1 .. Len(events) /\ IsAbout(k + 1, r, pos) /\ events'[k] = events[k + 1]
    BY <1>2, <1>6
  <2>2. ASSUME \A j \in 1 .. Len(events)' : IsAbout(j, r, pos)' => k <= j
        PROVE  ~(events'[k].pressed <=> pos \in keys'[r])
    <3>1. \A j \in 1 .. Len(events) : IsAbout(j, r, pos) => j = 1 \/ k + 1 <= j
      <4> SUFFICES ASSUME NEW j \in 1 .. Len(events), IsAbout(j, r, pos), j # 1
                   PROVE  k + 1 <= j
        BY <1>2
      <4>1. IsAbout(j - 1, r, pos)' /\ j - 1 \in 1 .. Len(events')
        BY <1>6
      <4>2. k <= j - 1
        BY <2>2, <4>1
      <4> QED
        BY <4>2
    <3>2. CASE IsAbout(1, r, pos)
      <4>1. 1 \in 1 .. Len(events) /\ 1 < k + 1
        BY <1>2
      <4>2. \A j \in 1 .. Len(events) : IsAbout(j, r, pos) => j <= 1 \/ k + 1 <= j
        BY <3>1
      <4>3. ~(events[1].pressed <=> events[k + 1].pressed)
        BY <2>1, <3>2, <4>1, <4>2 DEF Alternating
      <4> QED
        BY <1>2, <1>4, <1>6, <2>1, <3>2, <4>3
    <3>3. CASE ~IsAbout(1, r, pos)
      <4>1. ~(events[k + 1].pressed <=> pos \in keys[r])
        BY <2>1, <3>1, <3>3 DEF Alternating
      <4> QED
        BY <1>4, <1>6, <2>1, <3>3, <4>1
    <3> QED
      BY <3>2, <3>3
  <2>3. ASSUME NEW j \in 1 .. Len(events)', IsAbout(j, r, pos)', j < k,
               \A i \in 1 .. Len(events)' : IsAbout(i, r, pos)' => i <= j \/ k <= i
        PROVE  ~(events'[j].pressed <=> events'[k].pressed)
    <3>1. j + 1 \in 1 .. Len(events) /\ IsAbout(j + 1, r, pos) /\ events'[j] = events[j + 1]
      BY <1>2, <1>6, <2>3
    <3>2. \A i \in 1 .. Len(events) : IsAbout(i, r, pos) => i <= j + 1 \/ k + 1 <= i
      <4> SUFFICES ASSUME NEW i \in 1 .. Len(events), IsAbout(i, r, pos), i # 1
                   PROVE  i <= j + 1 \/ k + 1 <= i
        BY <1>2
      <4>1. IsAbout(i - 1, r, pos)' /\ i - 1 \in 1 .. Len(events')
        BY <1>6
      <4>2. i - 1 <= j \/ k <= i - 1
        BY <2>3, <4>1
      <4> QED
        BY <4>2
    <3>3. j + 1 < k + 1
      BY <2>3
    <3> QED
      BY <2>1, <3>1, <3>2, <3>3 DEF Alternating
  <2> QED
    BY <2>2, <2>3
<1>9. ~dropped => keys' # keys
  <2> SUFFICES ASSUME ~dropped
               PROVE  keys' # keys
    OBVIOUS
  <2>1. 1 \in 1 .. Len(events) /\ IsAbout(1, e.slot, e.pos)
    BY <1>2, <1>3, <1>6
  <2>2. ~(events[1].pressed <=> e.pos \in keys[e.slot])
    BY <1>3, <2>1 DEF Alternating
  <2>3. e.pos \in keys'[e.slot] <=> events[1].pressed
    BY <1>2, <1>3, <1>4
  <2> QED
    BY <2>2, <2>3
<1> QED
  BY <1>5, <1>7, <1>8, <1>9
-----------------------------------------------------------------------------
(* The way of a state *)

\* The last state on the way from a peripheral to the slot that gets it
AirWay(s, p) ==
  IF stateQ[p] # <<>> THEN stateQ[p][Len(stateQ[p])]
  ELSE IF sending[p] # <<>> THEN sending[p][Len(sending[p])]
  ELSE IF air[p] # <<>> THEN air[p][Len(air[p])] ELSE view[s]

\* A slot that listens has a connection with a bond
Bonds == \A s \in Slots : listening[s] = "yes" => conn[s] # None /\ bonded[conn[s]]

\* A peripheral whose keys changed since the central listens is connected, the central
\* listens, and the last state on the way is that of the keys.
FreshInv ==
  \A p \in Peripherals : fresh[p] =>
    /\ link[p] = "up"
    /\ \A s \in Slots : conn[s] = p => listening[s] = "yes" /\ AirWay(s, p) = pressed[p]

\* The last element of a queue that loses its first
LEMMA LastOfTail ==
  ASSUME NEW S, NEW q \in Seq(S), q # <<>>
  PROVE  /\ Head(q) \in S /\ Tail(q) \in Seq(S) /\ Len(Tail(q)) = Len(q) - 1
         /\ Len(q) \in Nat /\ Len(q) >= 1
         /\ Tail(q) = <<>> => Head(q) = q[Len(q)]
         /\ Tail(q) # <<>> => Tail(q)[Len(Tail(q))] = q[Len(q)]
<1>1. Len(q) \in Nat \ {0}
  BY EmptySeq
<1>2. /\ Head(q) \in S /\ Tail(q) \in Seq(S) /\ Len(Tail(q)) = Len(q) - 1
      /\ \A i \in 1 .. Len(Tail(q)) : Tail(q)[i] = q[i + 1]
  BY HeadTailProperties
<1>3. Head(q) = q[1]
  OBVIOUS
<1>4. Tail(q) = <<>> => Len(q) = 1
  BY <1>1, <1>2, EmptySeq
<1>5. Tail(q) # <<>> => Len(Tail(q)) \in Nat \ {0}
  BY <1>2, EmptySeq
<1>6. Tail(q) # <<>> => Tail(q)[Len(Tail(q))] = q[Len(q)]
  BY <1>1, <1>2, <1>5
<1> QED
  BY <1>1, <1>2, <1>3, <1>4, <1>6

\* ... and of a queue that another one is put behind
LEMMA LastOfConcat ==
  ASSUME NEW S, NEW q \in Seq(S), NEW r \in Seq(S), r # <<>>
  PROVE  /\ q \o r \in Seq(S) /\ q \o r # <<>> /\ Len(q \o r) = Len(q) + Len(r)
         /\ (q \o r)[Len(q \o r)] = r[Len(r)]
<1> DEFINE c == q \o r
           n == Len(q)
           m == Len(r)
<1>1. n \in Nat /\ m \in Nat /\ m >= 1
  BY EmptySeq, LenProperties
<1>2. /\ c \in Seq(S) /\ Len(c) = n + m
      /\ \A i \in 1 .. n + m : c[i] = IF i <= n THEN q[i] ELSE r[i - n]
  BY ConcatProperties
<1> HIDE DEF c, n, m
<1>3. n + m \in 1 .. n + m /\ ~(n + m <= n) /\ (n + m) - n = m
  BY <1>1
<1>4. c[n + m] = r[m]
  BY <1>2, <1>3
<1>5. Len(c) # 0
  BY <1>1, <1>2
<1>6. c # <<>>
  BY <1>5, EmptySeq
<1> QED
  BY <1>2, <1>4, <1>6 DEF c, n, m

\* send_position_state keeps the newest state
LEMMA QueuedSound ==
  ASSUME NEW q \in Seq(SUBSET Positions), Len(q) <= StateQueue, NEW new \in SUBSET Positions
  PROVE  /\ Queued(q, new) \in Seq(SUBSET Positions) /\ Len(Queued(q, new)) <= StateQueue
         /\ Queued(q, new) # <<>> /\ Queued(q, new)[Len(Queued(q, new))] = new
<1> DEFINE r == IF Len(q) < StateQueue THEN q ELSE Tail(q)
<1>1. r \in Seq(SUBSET Positions) /\ Len(r) \in Nat /\ Len(r) + 1 <= StateQueue
  <2>1. CASE Len(q) < StateQueue
    BY <2>1, SplitKeysAssumption, LenProperties
  <2>2. CASE ~(Len(q) < StateQueue)
    <3>1. q # <<>>
      BY <2>2, SplitKeysAssumption, EmptySeq
    <3>2. Tail(q) \in Seq(SUBSET Positions) /\ Len(Tail(q)) = Len(q) - 1 /\ Len(q) \in Nat /\ Len(q) >= 1
      BY <3>1, LastOfTail
    <3> QED
      BY <2>2, <3>2, SplitKeysAssumption
  <2> QED
    BY <2>1, <2>2
<1>2. Queued(q, new) = Append(r, new)
  BY DEF Queued
<1> HIDE DEF r
<1>3. /\ Append(r, new) \in Seq(SUBSET Positions) /\ Append(r, new) # <<>>
      /\ Len(Append(r, new)) = Len(r) + 1 /\ Append(r, new)[Len(r) + 1] = new
  BY <1>1, AppendProperties
<1> QED
  BY <1>1, <1>2, <1>3

\* The state of one peripheral on its way is well-formed
LEMMA WaysTyped ==
  ASSUME KeysTypeOK, NEW p \in Peripherals
  PROVE  /\ stateQ[p] \in Seq(SUBSET Positions) /\ Len(stateQ[p]) <= StateQueue
         /\ sending[p] \in Seq(SUBSET Positions) /\ Len(sending[p]) <= 1
         /\ air[p] \in Seq(SUBSET Positions) /\ pressed[p] \in SUBSET Positions
BY DEF KeysTypeOK

LEMMA QuietKeeps ==
  ASSUME Synced, Alternating, UNCHANGED <<view, events, keys, lost, dropped>>
  PROVE  Synced' /\ Alternating'
BY DEF Synced, Alternating, IsAbout

\* A key goes down or up: the peripheral enqueues its new state
LEMMA KeyChangeKeeps ==
  ASSUME KeysTypeOK, NEW p \in Peripherals, NEW pos \in Positions, NEW heard \in BOOLEAN,
         PositionChanged(p, pos, heard)
  PROVE  /\ KeysTypeOK' /\ UNCHANGED <<sending, air, view, events, keys, lost, dropped>>
         /\ fresh' = [fresh EXCEPT ![p] = @ \/ heard]
         /\ \A s \in Slots : AirWay(s, p)' = pressed'[p]
         /\ \A q \in Peripherals : q # p => /\ pressed'[q] = pressed[q]
                                          /\ \A s \in Slots : AirWay(s, q)' = AirWay(s, q)
<1> DEFINE new == Toggle(pressed[p], pos)
<1>1. /\ changes < MaxChanges /\ changes' = changes + 1
      /\ pressed' = [pressed EXCEPT ![p] = new]
      /\ stateQ' = [stateQ EXCEPT ![p] = Queued(@, pressed'[p])]
      /\ fresh' = [fresh EXCEPT ![p] = @ \/ heard]
      /\ UNCHANGED <<sending, air, view, events, keys, lost, dropped>>
  BY DEF PositionChanged
<1>2. new \in SUBSET Positions
  BY WaysTyped DEF Toggle
<1> HIDE DEF new
<1>3. pressed'[p] = new /\ pressed' \in [Peripherals -> SUBSET Positions]
  BY <1>1, <1>2 DEF KeysTypeOK
<1>4. /\ Queued(stateQ[p], new) \in Seq(SUBSET Positions) /\ Len(Queued(stateQ[p], new)) <= StateQueue
      /\ Queued(stateQ[p], new) # <<>> /\ Queued(stateQ[p], new)[Len(Queued(stateQ[p], new))] = new
  BY <1>2, WaysTyped, QueuedSound
<1>5. stateQ'[p] = Queued(stateQ[p], new) /\ \A q \in Peripherals : q # p => stateQ'[q] = stateQ[q]
  BY <1>1, <1>3 DEF KeysTypeOK
<1>6. KeysTypeOK'
  <2>1. changes' \in 0 .. MaxChanges
    BY <1>1, SplitKeysAssumption DEF KeysTypeOK
  <2>2. stateQ' \in [Peripherals -> Seq(SUBSET Positions)]
    BY <1>1, <1>3, <1>4 DEF KeysTypeOK
  <2>3. \A q \in Peripherals : Len(stateQ'[q]) <= StateQueue /\ Len(sending'[q]) <= 1
    BY <1>1, <1>4, <1>5 DEF KeysTypeOK
  <2>4. fresh' \in [Peripherals -> BOOLEAN]
    BY <1>1 DEF KeysTypeOK
  <2> QED
    BY <1>1, <1>3, <2>1, <2>2, <2>3, <2>4 DEF KeysTypeOK
<1>7. \A s \in Slots : AirWay(s, p)' = pressed'[p]
  BY <1>3, <1>4, <1>5 DEF AirWay
<1>8. \A q \in Peripherals : q # p => /\ pressed'[q] = pressed[q]
                                   /\ \A s \in Slots : AirWay(s, q)' = AirWay(s, q)
  BY <1>1, <1>5 DEF AirWay, KeysTypeOK
<1> QED
  BY <1>1, <1>6, <1>7, <1>8

\* The work queue of the peripheral takes a state
LEMMA TakeStateKeeps ==
  ASSUME KeysTypeOK, NEW p \in Peripherals, TakeState(p)
  PROVE  /\ KeysTypeOK' /\ UNCHANGED <<pressed, air, view, events, keys, lost, dropped, fresh>>
         /\ \A q \in Peripherals, s \in Slots : AirWay(s, q)' = AirWay(s, q)
<1>1. /\ sending[p] = <<>> /\ stateQ[p] # <<>>
      /\ sending' = [sending EXCEPT ![p] = <<Head(stateQ[p])>>]
      /\ stateQ' = [stateQ EXCEPT ![p] = Tail(@)]
      /\ UNCHANGED <<pressed, air, view, events, keys, lost, dropped, fresh, changes>>
  BY DEF TakeState
<1> DEFINE q0 == stateQ[p]
           h == Head(q0)
<1>2. /\ q0 \in Seq(SUBSET Positions) /\ Len(q0) <= StateQueue
      /\ h \in SUBSET Positions /\ Tail(q0) \in Seq(SUBSET Positions) /\ Len(Tail(q0)) = Len(q0) - 1
      /\ Len(q0) \in Nat
      /\ Tail(q0) = <<>> => h = q0[Len(q0)]
      /\ Tail(q0) # <<>> => Tail(q0)[Len(Tail(q0))] = q0[Len(q0)]
  BY <1>1, WaysTyped, LastOfTail
<1>3. sending'[p] = <<h>> /\ stateQ'[p] = Tail(q0)
  BY <1>1 DEF KeysTypeOK
<1>4. \A q \in Peripherals : q # p => sending'[q] = sending[q] /\ stateQ'[q] = stateQ[q]
  BY <1>1 DEF KeysTypeOK
<1>5. <<h>> \in Seq(SUBSET Positions) /\ Len(<<h>>) = 1 /\ <<h>> # <<>> /\ <<h>>[1] = h
  BY <1>2
<1>6. KeysTypeOK'
  <2>1. sending' \in [Peripherals -> Seq(SUBSET Positions)] /\ stateQ' \in [Peripherals -> Seq(SUBSET Positions)]
    <3> HIDE DEF h
    <3> QED
      BY <1>1, <1>2, <1>5 DEF KeysTypeOK
  <2>2. \A q \in Peripherals : Len(stateQ'[q]) <= StateQueue /\ Len(sending'[q]) <= 1
    <3> SUFFICES ASSUME NEW q \in Peripherals
                 PROVE  Len(stateQ'[q]) <= StateQueue /\ Len(sending'[q]) <= 1
      OBVIOUS
    <3>1. CASE q = p
      <4>1. Len(Tail(q0)) <= StateQueue
        BY <1>2, SplitKeysAssumption
      <4>2. Len(stateQ'[q]) = Len(Tail(q0))
        BY <1>3, <3>1
      <4>3. Len(sending'[q]) = Len(<<h>>) /\ Len(<<h>>) = 1
        BY <1>3, <3>1
      <4> QED
        BY <4>1, <4>2, <4>3
    <3>2. CASE q # p
      BY <1>4, <3>2 DEF KeysTypeOK
    <3> QED
      BY <3>1, <3>2
  <2> QED
    BY <1>1, <2>1, <2>2 DEF KeysTypeOK
<1>7. ASSUME NEW q \in Peripherals, NEW s \in Slots
      PROVE  AirWay(s, q)' = AirWay(s, q)
  <2>1. CASE q = p
    <3>1. AirWay(s, p) = q0[Len(q0)]
      BY <1>1 DEF AirWay
    <3>2. CASE Tail(q0) = <<>>
      BY <1>2, <1>3, <1>5, <2>1, <3>1, <3>2 DEF AirWay
    <3>3. CASE Tail(q0) # <<>>
      BY <1>2, <1>3, <2>1, <3>1, <3>3 DEF AirWay
    <3> QED
      BY <3>2, <3>3
  <2>2. CASE q # p
    BY <1>1, <1>4, <2>2 DEF AirWay
  <2> QED
    BY <2>1, <2>2
<1> QED
  BY <1>1, <1>6, <1>7

\* ... and notifies it; with notifications enabled it goes on its way
LEMMA NotifyKeeps ==
  ASSUME KeysTypeOK, NEW p \in Peripherals, NEW enabled \in BOOLEAN, Notify(p, enabled)
  PROVE  /\ KeysTypeOK' /\ UNCHANGED <<pressed, view, events, keys, lost, dropped, fresh>>
         /\ \A q \in Peripherals, s \in Slots : (q = p => enabled) => AirWay(s, q)' = AirWay(s, q)
<1>1. /\ sending[p] # <<>>
      /\ sending' = [sending EXCEPT ![p] = <<>>]
      /\ air' = [air EXCEPT ![p] = IF enabled THEN @ \o sending[p] ELSE @]
      /\ UNCHANGED <<pressed, stateQ, view, events, keys, lost, dropped, fresh, changes>>
  BY DEF Notify
<1> DEFINE sent == air[p] \o sending[p]
<1>2. /\ sending[p] \in Seq(SUBSET Positions) /\ air[p] \in Seq(SUBSET Positions)
  BY WaysTyped
<1>3. sent \in Seq(SUBSET Positions) /\ sent # <<>> /\ sent[Len(sent)] = sending[p][Len(sending[p])]
  BY <1>1, <1>2, LastOfConcat
<1> HIDE DEF sent
<1>5. /\ sending'[p] = <<>> /\ air'[p] = IF enabled THEN sent ELSE air[p]
      /\ \A q \in Peripherals : q # p => sending'[q] = sending[q] /\ air'[q] = air[q]
  BY <1>1 DEF KeysTypeOK, sent
<1>6. KeysTypeOK'
  <2>1. sending' \in [Peripherals -> Seq(SUBSET Positions)]
    BY <1>1 DEF KeysTypeOK
  <2>2. air' \in [Peripherals -> Seq(SUBSET Positions)]
    BY <1>1, <1>2, <1>3 DEF KeysTypeOK, sent
  <2>3. \A q \in Peripherals : Len(stateQ'[q]) <= StateQueue /\ Len(sending'[q]) <= 1
    BY <1>1, <1>5, EmptySeq DEF KeysTypeOK
  <2> QED
    BY <1>1, <2>1, <2>2, <2>3 DEF KeysTypeOK
<1>7. ASSUME NEW q \in Peripherals, NEW s \in Slots, q = p => enabled
      PROVE  AirWay(s, q)' = AirWay(s, q)
  <2>1. CASE q = p
    BY <1>1, <1>3, <1>5, <1>7, <2>1 DEF AirWay
  <2>2. CASE q # p
    BY <1>1, <1>5, <2>2 DEF AirWay
  <2> QED
    BY <2>1, <2>2
<1> QED
  BY <1>1, <1>6, <1>7

\* The central takes over a state and puts an event per difference
LEMMA StoredKeeps ==
  ASSUME KeysTypeOK, Synced, Alternating, NEW s \in Slots, NEW V \in SUBSET Positions,
         NEW C \in SUBSET Positions, C = (V \ view[s]) \cup (view[s] \ V),
         PutEvents(s, C, V), view' = [view EXCEPT ![s] = V], keys' = keys
  PROVE  /\ Synced' /\ Alternating' /\ view' \in [Slots -> SUBSET Positions]
         /\ events' \in Seq([slot : Slots, pos : Positions, pressed : BOOLEAN])
         /\ Len(events') <= EventQueue /\ Len(events) <= Len(events')
         /\ lost' \subseteq Slots \X Positions /\ dropped' \in BOOLEAN
<1>1. PutOf(s, C, V)
  <2>1. /\ events \in Seq(AnEvent) /\ Len(events) <= EventQueue /\ lost \subseteq Slots \X Positions
        /\ dropped \in BOOLEAN
    BY DEF KeysTypeOK, AnEvent
  <2> QED
    BY <2>1, PutSound
<1>2. Synced' /\ Alternating'
  BY <1>1, PutKeepsSynced, PutKeepsAlternating
<1>3. view' \in [Slots -> SUBSET Positions]
  BY DEF KeysTypeOK
<1> QED
  BY <1>1, <1>2, <1>3 DEF PutOf, AnEvent

LEMMA NotifiedKeeps ==
  ASSUME KeysTypeOK, Synced, Alternating, NEW p \in Peripherals, NEW s \in Slots,
         NEW subscribed \in BOOLEAN, Notified(p, s, subscribed)
  PROVE  /\ KeysTypeOK' /\ Synced' /\ Alternating' /\ Len(events) <= Len(events')
         /\ UNCHANGED <<pressed, fresh>>
         /\ subscribed => AirWay(s, p)' = AirWay(s, p)
         /\ \A q \in Peripherals, r \in Slots : q # p /\ r # s => AirWay(r, q)' = AirWay(r, q)
<1> DEFINE V == Head(air[p])
           C == (V \ view[s]) \cup (view[s] \ V)
<1>1. /\ air[p] # <<>> /\ air' = [air EXCEPT ![p] = Tail(@)]
      /\ UNCHANGED <<pressed, stateQ, sending, keys, fresh, changes>>
      /\ IF subscribed THEN view' = [view EXCEPT ![s] = V] /\ PutEvents(s, C, V)
         ELSE UNCHANGED <<view, events, lost, dropped>>
  BY DEF Notified, Stored
<1>2. /\ V \in SUBSET Positions /\ Tail(air[p]) \in Seq(SUBSET Positions)
      /\ Tail(air[p]) = <<>> => V = air[p][Len(air[p])]
      /\ Tail(air[p]) # <<>> => Tail(air[p])[Len(Tail(air[p]))] = air[p][Len(air[p])]
  BY <1>1, WaysTyped, LastOfTail
<1>3. C \in SUBSET Positions
  BY <1>2 DEF KeysTypeOK
<1> HIDE DEF V
<1>4. /\ Synced' /\ Alternating' /\ view' \in [Slots -> SUBSET Positions]
      /\ events' \in Seq([slot : Slots, pos : Positions, pressed : BOOLEAN])
      /\ Len(events') <= EventQueue /\ Len(events) <= Len(events')
      /\ lost' \subseteq Slots \X Positions /\ dropped' \in BOOLEAN
  <2>1. CASE subscribed
    BY <1>1, <1>2, <1>3, <2>1, StoredKeeps
  <2>2. CASE ~subscribed
    <3>1. Synced' /\ Alternating'
      BY <1>1, <2>2, QuietKeeps
    <3>2. Len(events) \in Nat
      BY LenProperties DEF KeysTypeOK
    <3> QED
      BY <1>1, <2>2, <3>1, <3>2 DEF KeysTypeOK
  <2> QED
    BY <2>1, <2>2
<1>5. air'[p] = Tail(air[p]) /\ \A q \in Peripherals : q # p => air'[q] = air[q]
  BY <1>1 DEF KeysTypeOK
<1>6. KeysTypeOK'
  <2>1. air' \in [Peripherals -> Seq(SUBSET Positions)]
    BY <1>1, <1>2 DEF KeysTypeOK
  <2>2. \A q \in Peripherals : Len(stateQ'[q]) <= StateQueue /\ Len(sending'[q]) <= 1
    BY <1>1 DEF KeysTypeOK
  <2> QED
    BY <1>1, <1>4, <2>1, <2>2 DEF KeysTypeOK
<1>7. ASSUME subscribed
      PROVE  AirWay(s, p)' = AirWay(s, p)
  <2>1. view'[s] = V
    BY <1>1, <1>7 DEF KeysTypeOK
  <2>2. CASE stateQ[p] # <<>> \/ sending[p] # <<>>
    BY <1>1, <2>2 DEF AirWay
  <2>3. CASE stateQ[p] = <<>> /\ sending[p] = <<>>
    BY <1>1, <1>2, <1>5, <2>1, <2>3 DEF AirWay
  <2> QED
    BY <2>2, <2>3
<1>8. ASSUME NEW q \in Peripherals, NEW r \in Slots, q # p, r # s
      PROVE  AirWay(r, q)' = AirWay(r, q)
  <2>1. view'[r] = view[r]
    BY <1>1, <1>8 DEF KeysTypeOK
  <2> QED
    BY <1>1, <1>5, <1>8, <2>1 DEF AirWay
<1> QED
  BY <1>1, <1>4, <1>6, <1>7, <1>8

\* A slot is released: its positions that are down are released
LEMMA ReleaseKeeps ==
  ASSUME KeysTypeOK, Synced, Alternating, NEW s \in Slots, ReleasePositions(s),
         UNCHANGED <<pressed, stateQ, sending, air, keys, fresh, changes>>
  PROVE  /\ KeysTypeOK' /\ Synced' /\ Alternating' /\ Len(events) <= Len(events')
         /\ \A q \in Peripherals, r \in Slots : r # s => AirWay(r, q)' = AirWay(r, q)
<1> DEFINE V == {}
           C == view[s]
<1>1. PutEvents(s, C, V) /\ view' = [view EXCEPT ![s] = V]
  BY DEF ReleasePositions
<1>2. C \in SUBSET Positions /\ V \in SUBSET Positions /\ C = (V \ view[s]) \cup (view[s] \ V)
  BY DEF KeysTypeOK
<1> HIDE DEF V, C
<1>3. /\ Synced' /\ Alternating' /\ view' \in [Slots -> SUBSET Positions]
      /\ events' \in Seq([slot : Slots, pos : Positions, pressed : BOOLEAN])
      /\ Len(events') <= EventQueue /\ Len(events) <= Len(events')
      /\ lost' \subseteq Slots \X Positions /\ dropped' \in BOOLEAN
  BY <1>1, <1>2, StoredKeeps
<1>4. KeysTypeOK'
  BY <1>3 DEF KeysTypeOK
<1>5. ASSUME NEW q \in Peripherals, NEW r \in Slots, r # s
      PROVE  AirWay(r, q)' = AirWay(r, q)
  <2>1. view'[r] = view[r]
    BY <1>1, <1>5 DEF KeysTypeOK
  <2> QED
    BY <2>1 DEF AirWay
<1> QED
  BY <1>3, <1>4, <1>5

LEMMA HushKeeps ==
  ASSUME KeysTypeOK, Synced, Alternating, NEW p \in Peripherals, Hush(p),
         UNCHANGED <<view, events, lost, dropped>>
  PROVE  /\ KeysTypeOK' /\ Synced' /\ Alternating' /\ pressed' = pressed
         /\ fresh' = [fresh EXCEPT ![p] = FALSE]
         /\ \A q \in Peripherals, s \in Slots : q # p => AirWay(s, q)' = AirWay(s, q)
<1>1. /\ air' = [air EXCEPT ![p] = <<>>] /\ fresh' = [fresh EXCEPT ![p] = FALSE]
      /\ UNCHANGED <<pressed, stateQ, sending, keys, changes>>
  BY DEF Hush
<1>2. Synced' /\ Alternating'
  BY <1>1, QuietKeeps
<1>3. KeysTypeOK'
  <2>1. air' \in [Peripherals -> Seq(SUBSET Positions)] /\ fresh' \in [Peripherals -> BOOLEAN]
    BY <1>1 DEF KeysTypeOK
  <2> QED
    BY <1>1, <2>1 DEF KeysTypeOK
<1>4. \A q \in Peripherals, s \in Slots : q # p => AirWay(s, q)' = AirWay(s, q)
  BY <1>1 DEF AirWay, KeysTypeOK
<1> QED
  BY <1>1, <1>2, <1>3, <1>4
-----------------------------------------------------------------------------
(* Connections and keys together *)

\* What a step over connections leaves alone, for a peripheral that the central hears
LEMMA LinkStepKeepsHeard ==
  ASSUME LinkInv, Bonds, LinkSteps
  PROVE  /\ Bonds'
         /\ \A p \in Peripherals : link[p] = "up" =>
              /\ link'[p] = "up"
              /\ \A s \in Slots : conn'[s] = p =>
                   conn[s] = p /\ (listening[s] = "yes" => listening'[s] = "yes")
<1> USE DEF LinkInv, LinkTypeOK
<1>1. CASE FinishInit
  BY <1>1 DEF FinishInit, peripheralVars, Bonds
<1>2. ASSUME NEW p \in Peripherals, NEW s \in Slots, DeviceFound(p, s)
      PROVE  /\ Bonds'
             /\ \A q \in Peripherals : link[q] = "up" =>
                  /\ link'[q] = "up"
                  /\ \A r \in Slots : conn'[r] = q =>
                       conn[r] = q /\ (listening[r] = "yes" => listening'[r] = "yes")
  <2>1. SlotFor(s, p) /\ addrs' = [addrs EXCEPT ![s] = p] /\ listening' = listening /\ bonded' = bonded
    BY <1>2 DEF DeviceFound, peripheralVars
  <2>2. \A r \in Slots : addrs[r] = p => r = s
    BY <2>1, SlotForSound
  <2>3. CASE conn' = conn /\ link' = link
    BY <2>1, <2>3 DEF Bonds
  <2>4. CASE /\ state[s] = "OPEN" /\ conn' = [conn EXCEPT ![s] = p]
             /\ link' = [link EXCEPT ![p] = "pending"]
    <3>1. conn[s] = None
      BY <2>4 DEF SlotHolds
    <3>2. \A r \in Slots : conn[r] # p
      BY <2>2, <3>1, SplitLinkAssumption DEF SlotHolds
    <3>3. link[p] = "down"
      BY <3>2 DEF LinkHeld
    <3> QED
      BY <2>1, <2>4, <3>1, <3>3, SplitLinkAssumption DEF Bonds
  <2> QED
    BY <1>2, <2>3, <2>4 DEF DeviceFound
<1>3. ASSUME NEW p \in Peripherals, NEW s \in Slots, CreateFails(p, s)
      PROVE  UNCHANGED <<conn, listening, link, bonded>>
  BY <1>3 DEF CreateFails, peripheralVars
<1>4. ASSUME NEW p \in Peripherals, NEW s \in Slots, Connected(p, s)
      PROVE  /\ Bonds'
             /\ \A q \in Peripherals : link[q] = "up" =>
                  /\ link'[q] = "up"
                  /\ \A r \in Slots : conn'[r] = q =>
                       conn[r] = q /\ (listening[r] = "yes" => listening'[r] = "yes")
  <2>1. /\ link[p] = "pending" /\ conn[s] = p /\ link' = [link EXCEPT ![p] = "up"]
        /\ conn' = conn /\ bonded' = bonded
        /\ (listening' = [listening EXCEPT ![s] = "discovering"] \/ listening' = listening)
    BY <1>4 DEF Connected, IsSlotOf
  <2> QED
    BY <2>1 DEF Bonds
<1>5. ASSUME NEW p \in Peripherals, NEW s \in Slots, ConnectFails(p, s)
      PROVE  /\ Bonds'
             /\ \A q \in Peripherals : link[q] = "up" =>
                  /\ link'[q] = "up"
                  /\ \A r \in Slots : conn'[r] = q =>
                       conn[r] = q /\ (listening[r] = "yes" => listening'[r] = "yes")
  <2>1. /\ link[p] = "pending" /\ conn[s] = p /\ link' = [link EXCEPT ![p] = "down"]
        /\ conn' = [conn EXCEPT ![s] = None] /\ listening' = [listening EXCEPT ![s] = "no"]
        /\ bonded' = bonded
    BY <1>5 DEF ConnectFails, IsSlotOf, Release, peripheralVars
  <2> QED
    BY <2>1, SplitLinkAssumption DEF Bonds
<1>6. ASSUME NEW p \in Peripherals, NEW s \in Slots, Subscribe(p, s)
      PROVE  /\ Bonds'
             /\ \A q \in Peripherals : link[q] = "up" =>
                  /\ link'[q] = "up"
                  /\ \A r \in Slots : conn'[r] = q =>
                       conn[r] = q /\ (listening[r] = "yes" => listening'[r] = "yes")
  <2>1. /\ conn[s] = p /\ listening[s] = "discovering" /\ conn' = conn /\ link' = link
        /\ \/ listening' = [listening EXCEPT ![s] = "yes"] /\ bonded' = [bonded EXCEPT ![p] = TRUE]
           \/ listening' = [listening EXCEPT ![s] = "no"] /\ bonded' = bonded
    BY <1>6 DEF Subscribe, IsSlotOf
  <2>2. Bonds'
    BY <2>1, SplitLinkAssumption DEF Bonds
  <2> QED
    BY <2>1, <2>2
<1>7. ASSUME NEW p \in Peripherals, AdvertisingTimeout(p) \/ AdvertisingWork(p) \/ PeripheralDisconnected(p)
      PROVE  UNCHANGED <<conn, listening, link, bonded>>
  BY <1>7 DEF AdvertisingTimeout, AdvertisingWork, PeripheralDisconnected, centralVars
<1>8. CASE UNCHANGED <<conn, listening, link, bonded>>
  BY <1>8 DEF Bonds
<1> QED
  BY <1>1, <1>2, <1>3, <1>4, <1>5, <1>6, <1>7, <1>8 DEF LinkSteps

KeysInv == KeysTypeOK /\ Synced /\ Alternating
SplitInv == LinkInv /\ KeysInv /\ Bonds /\ FreshInv

\* A connection has one slot
LEMMA SlotOnce ==
  ASSUME LinkInv, NEW p \in Peripherals, NEW r \in Slots, NEW s \in Slots, conn[r] = p, conn[s] = p
  PROVE  r = s
BY SplitLinkAssumption DEF LinkInv, LinkTypeOK, SlotHolds, AddrsOnce

LEMMA SplitInit == Init => SplitInv
<1> SUFFICES ASSUME Init
             PROVE  SplitInv
  OBVIOUS
<1>1. LinkInv
  BY LinkInit0 DEF Init
<1>2. Bonds
  BY DEF Init, LinkInit, Bonds
<1>3. KeysTypeOK
  <2> USE DEF Init, KeysInit
  <2>1. pressed \in [Peripherals -> SUBSET Positions] /\ fresh \in [Peripherals -> BOOLEAN]
    OBVIOUS
  <2>2. stateQ \in [Peripherals -> Seq(SUBSET Positions)]
    OBVIOUS
  <2>3. sending = stateQ /\ air = stateQ
    OBVIOUS
  <2>4. \A p \in Peripherals : Len(stateQ[p]) <= StateQueue /\ Len(sending[p]) <= 1
    BY SplitKeysAssumption
  <2>5. view \in [Slots -> SUBSET Positions] /\ keys \in [Slots -> SUBSET Positions]
    OBVIOUS
  <2>6. events = <<>> /\ lost = {} /\ dropped = FALSE /\ changes = 0
    OBVIOUS
  <2>7. events \in Seq([slot : Slots, pos : Positions, pressed : BOOLEAN]) /\ Len(events) <= EventQueue
    BY <2>6, SplitKeysAssumption
  <2>8. changes \in 0 .. MaxChanges
    BY <2>6, SplitKeysAssumption
  <2> HIDE DEF Init, KeysInit
  <2> QED
    BY <2>1, <2>2, <2>3, <2>4, <2>5, <2>6, <2>7, <2>8 DEF KeysTypeOK
<1>4. events = <<>> /\ Len(events) = 0 /\ lost = {} /\ keys = view
  BY DEF Init, KeysInit
<1>5. Synced
  BY <1>4 DEF Synced
<1>6. Alternating
  BY <1>4 DEF Alternating, IsAbout
<1>7. FreshInv
  BY DEF Init, KeysInit, FreshInv
<1> QED
  BY <1>1, <1>2, <1>3, <1>5, <1>6, <1>7 DEF SplitInv, KeysInv

\* One case per group of steps
LEMMA SplitNext ==
  ASSUME SplitInv, [Next]_vars
  PROVE  SplitInv'
<1> USE DEF SplitInv, KeysInv
<1>0. LinkInv'
  BY LinkNext
<1>1. CASE UNCHANGED vars
  <2>1. UNCHANGED linkVars /\ UNCHANGED keysVars
    BY <1>1 DEF vars
  <2>2. Bonds'
    BY <2>1 DEF linkVars, Bonds
  <2>3. FreshInv'
    BY <2>1 DEF linkVars, keysVars, FreshInv, AirWay
  <2>4. KeysTypeOK' /\ Synced' /\ Alternating'
    BY <2>1, QuietKeeps DEF keysVars, KeysTypeOK
  <2> QED
    BY <1>0, <2>2, <2>3, <2>4
<1>2. CASE LinkSteps /\ UNCHANGED keysVars
  <2>1. Bonds' /\ FreshInv'
    BY <1>2, LinkStepKeepsHeard DEF keysVars, FreshInv, AirWay
  <2>2. KeysTypeOK' /\ Synced' /\ Alternating'
    BY <1>2, QuietKeeps DEF keysVars, KeysTypeOK
  <2> QED
    BY <1>0, <2>1, <2>2
<1>3. ASSUME NEW p \in Peripherals, NEW pos \in Positions, KeyChange(p, pos)
      PROVE  SplitInv'
  <2>1. PositionChanged(p, pos, Heard(p)) /\ UNCHANGED linkVars /\ Heard(p) \in BOOLEAN
    BY <1>3 DEF KeyChange, Heard
  <2>2. /\ KeysTypeOK' /\ UNCHANGED <<sending, air, view, events, keys, lost, dropped>>
        /\ fresh' = [fresh EXCEPT ![p] = @ \/ Heard(p)]
        /\ \A s \in Slots : AirWay(s, p)' = pressed'[p]
        /\ \A q \in Peripherals : q # p => /\ pressed'[q] = pressed[q]
                                         /\ \A s \in Slots : AirWay(s, q)' = AirWay(s, q)
    BY <2>1, KeyChangeKeeps
  <2>3. Bonds' /\ Synced' /\ Alternating'
    BY <2>1, <2>2, QuietKeeps DEF linkVars, Bonds
  <2>4. FreshInv'
    <3> SUFFICES ASSUME NEW q \in Peripherals, fresh'[q]
                 PROVE  /\ link[q] = "up"
                        /\ \A s \in Slots : conn[s] = q => listening[s] = "yes" /\ AirWay(s, q)' = pressed'[q]
      BY <2>1 DEF FreshInv, linkVars
    <3>1. CASE q = p
      <4>1. fresh[p] \/ Heard(p)
        BY <2>2, <3>1 DEF KeysTypeOK
      <4>2. link[p] = "up" /\ \A s \in Slots : conn[s] = p => listening[s] = "yes"
        <5>1. CASE fresh[p]
          BY <5>1 DEF FreshInv
        <5>2. CASE Heard(p)
          BY <5>2, SlotOnce DEF Heard, IsSlotOf
        <5> QED
          BY <4>1, <5>1, <5>2
      <4> QED
        BY <2>2, <3>1, <4>2
    <3>2. CASE q # p
      <4>1. fresh[q]
        BY <2>2, <3>2 DEF KeysTypeOK
      <4> QED
        BY <2>2, <3>2, <4>1 DEF FreshInv
    <3> QED
      BY <3>1, <3>2
  <2> QED
    BY <1>0, <2>2, <2>3, <2>4
<1>4. ASSUME NEW p \in Peripherals, StateTaken(p)
      PROVE  SplitInv'
  <2>1. TakeState(p) /\ UNCHANGED linkVars
    BY <1>4 DEF StateTaken
  <2>2. /\ KeysTypeOK' /\ UNCHANGED <<pressed, air, view, events, keys, lost, dropped, fresh>>
        /\ \A q \in Peripherals, s \in Slots : AirWay(s, q)' = AirWay(s, q)
    BY <2>1, TakeStateKeeps
  <2>3. Bonds' /\ Synced' /\ Alternating'
    BY <2>1, <2>2, QuietKeeps DEF linkVars, Bonds
  <2>4. FreshInv'
    BY <2>1, <2>2 DEF FreshInv, linkVars
  <2> QED
    BY <1>0, <2>2, <2>3, <2>4
<1>5. ASSUME NEW p \in Peripherals, StateNotified(p)
      PROVE  SplitInv'
  <2> DEFINE enabled == link[p] = "up" /\ bonded[p]
  <2>1. Notify(p, enabled) /\ UNCHANGED linkVars /\ enabled \in BOOLEAN
    BY <1>5 DEF StateNotified, LinkInv, LinkTypeOK
  <2> HIDE DEF enabled
  <2>2. /\ KeysTypeOK' /\ UNCHANGED <<pressed, view, events, keys, lost, dropped, fresh>>
        /\ \A q \in Peripherals, s \in Slots : (q = p => enabled) => AirWay(s, q)' = AirWay(s, q)
    BY <2>1, NotifyKeeps
  <2>3. Bonds' /\ Synced' /\ Alternating'
    BY <2>1, <2>2, QuietKeeps DEF linkVars, Bonds
  <2>4. FreshInv'
    <3> SUFFICES ASSUME NEW q \in Peripherals, fresh[q], NEW s \in Slots, conn[s] = q
                 PROVE  AirWay(s, q)' = AirWay(s, q)
      BY <2>1, <2>2 DEF FreshInv, linkVars
    <3>1. q = p => enabled
      BY DEF FreshInv, Bonds, enabled
    <3> QED
      BY <2>2, <3>1
  <2> QED
    BY <1>0, <2>2, <2>3, <2>4
<1>6. ASSUME NEW p \in Peripherals, NEW s \in Slots, Notification(p, s)
      PROVE  SplitInv'
  <2> DEFINE subscribed == listening[s] = "yes"
  <2>1. /\ Notified(p, s, subscribed) /\ conn[s] = p /\ UNCHANGED linkVars /\ subscribed \in BOOLEAN
    BY <1>6 DEF Notification, IsSlotOf
  <2> HIDE DEF subscribed
  <2>2. /\ KeysTypeOK' /\ Synced' /\ Alternating' /\ UNCHANGED <<pressed, fresh>>
        /\ subscribed => AirWay(s, p)' = AirWay(s, p)
        /\ \A q \in Peripherals, r \in Slots : q # p /\ r # s => AirWay(r, q)' = AirWay(r, q)
    BY <2>1, NotifiedKeeps
  <2>3. Bonds'
    BY <2>1 DEF linkVars, Bonds
  <2>4. FreshInv'
    <3> SUFFICES ASSUME NEW q \in Peripherals, fresh[q], NEW r \in Slots, conn[r] = q
                 PROVE  AirWay(r, q)' = AirWay(r, q)
      BY <2>1, <2>2 DEF FreshInv, linkVars
    <3>1. CASE q = p
      <4>1. r = s /\ subscribed
        BY <2>1, <3>1, SlotOnce DEF FreshInv, subscribed
      <4> QED
        BY <2>2, <3>1, <4>1
    <3>2. CASE q # p
      BY <2>1, <2>2, <3>2
    <3> QED
      BY <3>1, <3>2
  <2> QED
    BY <1>0, <2>2, <2>3, <2>4
<1>7. CASE EventRaised
  <2>1. EventWork /\ UNCHANGED linkVars
    BY <1>7 DEF EventRaised
  <2>2. KeysTypeOK' /\ Synced' /\ Alternating'
    BY <2>1, EventWorkKeeps
  <2>3. UNCHANGED <<pressed, stateQ, sending, air, view, fresh>>
    BY <2>1 DEF EventWork
  <2>4. Bonds' /\ FreshInv'
    BY <2>1, <2>3 DEF linkVars, Bonds, FreshInv, AirWay
  <2> QED
    BY <1>0, <2>2, <2>4
<1>8. ASSUME NEW p \in Peripherals, LinkBreaks(p)
      PROVE  SplitInv'
  <2>1. /\ LinkLost(p) /\ Hush(p) /\ UNCHANGED <<view, events, lost, dropped>>
        /\ link' = [link EXCEPT ![p] = "lost"] /\ UNCHANGED <<conn, listening, bonded>>
    BY <1>8 DEF LinkBreaks, LinkLost, peripheralVars
  <2>2. /\ KeysTypeOK' /\ Synced' /\ Alternating' /\ pressed' = pressed
        /\ fresh' = [fresh EXCEPT ![p] = FALSE]
        /\ \A q \in Peripherals, s \in Slots : q # p => AirWay(s, q)' = AirWay(s, q)
    BY <2>1, HushKeeps
  <2>3. Bonds'
    BY <2>1 DEF Bonds
  <2>4. FreshInv'
    <3> SUFFICES ASSUME NEW q \in Peripherals, fresh'[q]
                 PROVE  /\ link'[q] = "up"
                        /\ \A s \in Slots : conn[s] = q => listening[s] = "yes" /\ AirWay(s, q)' = pressed[q]
      BY <2>1, <2>2 DEF FreshInv
    <3>1. q # p /\ fresh[q]
      BY <2>2 DEF KeysTypeOK
    <3>2. link'[q] = link[q]
      BY <2>1, <3>1 DEF LinkInv, LinkTypeOK
    <3> QED
      BY <2>2, <3>1, <3>2 DEF FreshInv
  <2> QED
    BY <1>0, <2>2, <2>3, <2>4
<1>9. ASSUME NEW p \in Peripherals, NEW s \in Slots, SlotReleased(p, s)
      PROVE  SplitInv'
  <2>1. /\ ReleasePositions(s) /\ UNCHANGED <<pressed, stateQ, sending, air, keys, fresh, changes>>
        /\ link[p] = "lost" /\ conn[s] = p /\ link' = [link EXCEPT ![p] = "down"]
        /\ conn' = [conn EXCEPT ![s] = None] /\ listening' = [listening EXCEPT ![s] = "no"]
        /\ bonded' = bonded
    BY <1>9 DEF SlotReleased, Disconnected, IsSlotOf, Release, peripheralVars
  <2>2. /\ KeysTypeOK' /\ Synced' /\ Alternating'
        /\ \A q \in Peripherals, r \in Slots : r # s => AirWay(r, q)' = AirWay(r, q)
    BY <2>1, ReleaseKeeps
  <2>3. Bonds'
    BY <2>1, SplitLinkAssumption DEF Bonds, LinkInv, LinkTypeOK
  <2>4. FreshInv'
    <3> SUFFICES ASSUME NEW q \in Peripherals, fresh[q]
                 PROVE  /\ link'[q] = "up"
                        /\ \A r \in Slots : conn'[r] = q => listening'[r] = "yes" /\ AirWay(r, q)' = pressed[q]
      BY <2>1 DEF FreshInv
    <3>1. q # p /\ link'[q] = "up"
      BY <2>1 DEF FreshInv, LinkInv, LinkTypeOK
    <3>2. ASSUME NEW r \in Slots, conn'[r] = q
          PROVE  r # s /\ conn[r] = q /\ listening'[r] = listening[r]
      BY <2>1, <3>2, SplitLinkAssumption DEF LinkInv, LinkTypeOK
    <3> QED
      BY <2>2, <3>1, <3>2 DEF FreshInv
  <2> QED
    BY <1>0, <2>2, <2>3, <2>4
<1>10. CASE KeySteps
  BY <1>3, <1>4, <1>5, <1>6, <1>7, <1>10 DEF KeySteps
<1> QED
  BY <1>1, <1>2, <1>8, <1>9, <1>10, NextSplits

LEMMA SplitInvariant == Spec => []SplitInv
<1>1. Init => SplitInv
  BY SplitInit
<1>2. SplitInv /\ [Next]_vars => SplitInv'
  BY SplitNext
<1> QED
  BY <1>1, <1>2, PTL DEF Spec
-----------------------------------------------------------------------------
\* Whatever is found, connected, lost and retried, and whatever call of the stack fails,
\* each connection has exactly one slot, that of its address, in the matching state; and
\* unless a call failed the central scans as long as a slot is free and no connection is
\* being made (split_central_eir_found, _connected, _disconnected and start_scanning).
THEOREM SplitLinks == Spec => []LinksSound
<1>1. SplitInv => LinksSound
  BY LinkInvCounts DEF SplitInv, KeysInv, LinkInv, LinksSound, TypeOK
<1> QED
  BY <1>1, SplitInvariant, PTL

\* Once the queue of events is handled, the keymap holds the positions that the central
\* last saw down, save those whose last event found the queue full (split_central_notify_func,
\* release_peripheral_slot and peripheral_event_work_callback).
THEOREM SplitKeymap == Spec => []KeymapFollowsView
<1>1. SplitInv => KeymapFollowsView
  <2> SUFFICES ASSUME SplitInv, NEW s \in Slots, NEW pos \in Positions, <<s, pos>> \notin lost
               PROVE  WillBeDown(s, pos) = (pos \in view[s])
    BY DEF KeymapFollowsView
  <2>1. events \in Seq(AnEvent) /\ Len(events) \in Nat /\ DOMAIN events = 1 .. Len(events)
    BY LenProperties DEF SplitInv, KeysInv, KeysTypeOK, AnEvent
  <2>2. \A k \in 1 .. Len(events) : IsAbout(k, s, pos) <=> k \in About(s, pos)
    BY <2>1 DEF IsAbout, About
  <2>3. CASE About(s, pos) = {}
    <3>1. pos \in keys[s] <=> pos \in view[s]
      BY <2>2, <2>3 DEF SplitInv, KeysInv, Synced
    <3>2. WillBeDown(s, pos) = (pos \in keys[s])
      BY <2>3 DEF WillBeDown
    <3> QED
      BY <3>1, <3>2
  <2>4. CASE About(s, pos) # {}
    <3> DEFINE k == CHOOSE k \in About(s, pos) : \A j \in About(s, pos) : j <= k
    <3>1. About(s, pos) \subseteq 1 .. Len(events)
      BY <2>1 DEF About
    <3>2. About(s, pos) \subseteq Nat /\ IsFiniteSet(About(s, pos))
      <4>1. IsFiniteSet(1 .. Len(events))
        BY <2>1, FS_Interval
      <4> QED
        BY <3>1, <4>1, FS_Subset
    <3>3. k \in About(s, pos) /\ \A j \in About(s, pos) : j <= k
      BY <2>4, <3>2, Greatest
    <3>4. WillBeDown(s, pos) = events[k].pressed
      BY <2>4 DEF WillBeDown
    <3> HIDE DEF k
    <3>5. k \in 1 .. Len(events) /\ IsAbout(k, s, pos)
      BY <2>2, <3>1, <3>3
    <3>6. events[k].pressed <=> pos \in view[s]
      BY <2>2, <3>3, <3>5 DEF SplitInv, KeysInv, Synced
    <3>7. events[k].pressed \in BOOLEAN
      <4>1. events[k] \in AnEvent
        BY <2>1, <3>5, ElementOfSeq
      <4> QED
        BY <4>1 DEF AnEvent
    <3> QED
      BY <3>4, <3>6, <3>7
  <2> QED
    BY <2>3, <2>4
<1> QED
  BY <1>1, SplitInvariant, PTL

\* As long as no event is dropped the keymap is never told that a key went down which it
\* has down already, nor up when it is up: handling an event always changes the keymap.
THEOREM SplitAlternates == Spec => EventsAlternate
<1>1. SplitInv /\ [Next]_vars => [~dropped /\ Len(events') < Len(events) => keys' # keys]_keysVars
  <2> SUFFICES ASSUME SplitInv, [Next]_vars, ~dropped, Len(events') < Len(events)
               PROVE  keys' # keys
    OBVIOUS
  <2> USE DEF SplitInv, KeysInv
  <2>0. Len(events) \in Nat
    BY LenProperties DEF KeysTypeOK
  <2>1. CASE EventRaised
    BY <2>1, EventWorkKeeps DEF EventRaised
  <2>2. CASE events' = events
    BY <2>0, <2>2
  <2>3. CASE \E p \in Peripherals, s \in Slots : Notification(p, s)
    <3>1. PICK p \in Peripherals, s \in Slots : Notified(p, s, listening[s] = "yes")
      BY <2>3 DEF Notification
    <3>2. Len(events') \in Nat /\ Len(events) <= Len(events')
      <4>1. KeysTypeOK' /\ Len(events) <= Len(events')
        BY <3>1, NotifiedKeeps
      <4> QED
        BY <4>1, LenProperties DEF KeysTypeOK
    <3> QED
      BY <2>0, <3>2
  <2>4. CASE \E p \in Peripherals, s \in Slots : SlotReleased(p, s)
    <3>1. PICK p \in Peripherals, s \in Slots :
            ReleasePositions(s) /\ UNCHANGED <<pressed, stateQ, sending, air, keys, fresh, changes>>
      BY <2>4 DEF SlotReleased
    <3>2. Len(events') \in Nat /\ Len(events) <= Len(events')
      <4>1. KeysTypeOK' /\ Len(events) <= Len(events')
        BY <3>1, ReleaseKeeps
      <4> QED
        BY <4>1, LenProperties DEF KeysTypeOK
    <3> QED
      BY <2>0, <3>2
  <2>5. CASE KeySteps
    <3>1. ASSUME NEW p \in Peripherals, NEW pos \in Positions, KeyChange(p, pos)
          PROVE  events' = events
      BY <3>1 DEF KeyChange, PositionChanged
    <3>2. ASSUME NEW p \in Peripherals, StateTaken(p) \/ StateNotified(p)
          PROVE  events' = events
      BY <3>2 DEF StateTaken, TakeState, StateNotified, Notify
    <3> QED
      BY <2>1, <2>2, <2>3, <2>5, <3>1, <3>2 DEF KeySteps
  <2>6. CASE \E p \in Peripherals : LinkBreaks(p)
    BY <2>2, <2>6 DEF LinkBreaks
  <2>7. CASE UNCHANGED keysVars
    BY <2>2, <2>7 DEF keysVars
  <2> QED
    BY <2>4, <2>5, <2>6, <2>7, NextSplits DEF vars
<1> QED
  BY <1>1, SplitInvariant, PTL DEF Spec, EventsAlternate

\* The last state on the way to a central that listens is the state of the keys: a full
\* queue, a disabled notification or a lost connection may cost a change, but never the
\* last one (send_position_state and its callback, split_central_notify_func).
THEOREM SplitLatest == Spec => []LatestStateArrives
<1>1. SplitInv => LatestStateArrives
  <2> SUFFICES ASSUME SplitInv, NEW p \in Peripherals, NEW s \in Slots, conn[s] = p, fresh[p]
               PROVE  LET way == <<view[s]>> \o air[p] \o sending[p] \o stateQ[p]
                      IN way[Len(way)] = pressed[p]
    BY DEF LatestStateArrives, IsSlotOf, LastStateArrives
  <2> DEFINE v == <<view[s]>>
             a == air[p]
             o == sending[p]
             q == stateQ[p]
  <2>1. AirWay(s, p) = pressed[p]
    BY DEF SplitInv, FreshInv
  <2>2. /\ v \in Seq(SUBSET Positions) /\ v # <<>> /\ v[Len(v)] = view[s]
        /\ a \in Seq(SUBSET Positions) /\ o \in Seq(SUBSET Positions) /\ q \in Seq(SUBSET Positions)
    BY WaysTyped DEF SplitInv, KeysInv, KeysTypeOK
  <2>3. AirWay(s, p) = IF q # <<>> THEN q[Len(q)] ELSE IF o # <<>> THEN o[Len(o)]
                    ELSE IF a # <<>> THEN a[Len(a)] ELSE v[Len(v)]
    BY <2>2 DEF AirWay
  <2> HIDE DEF v, a, o, q
  <2>4. ASSUME NEW w \in Seq(SUBSET Positions), NEW r \in Seq(SUBSET Positions)
        PROVE  /\ w \o r \in Seq(SUBSET Positions)
               /\ (w \o r)[Len(w \o r)] = IF r # <<>> THEN r[Len(r)] ELSE w[Len(w)]
    <3>1. PICK W : W = SUBSET Positions
      OBVIOUS
    <3>2. w \in Seq(W) /\ r \in Seq(W)
      BY <3>1
    <3>3. CASE r # <<>>
      <4>1. w \o r \in Seq(W) /\ (w \o r)[Len(w \o r)] = r[Len(r)]
        BY <3>2, <3>3, LastOfConcat
      <4> QED
        BY <3>1, <3>3, <4>1
    <3>4. CASE r = <<>>
      <4>1. w \o r = w
        BY <3>2, <3>4, ConcatEmptySeq
      <4> QED
        BY <3>4, <4>1
    <3> QED
      BY <3>3, <3>4
  <2>5. PICK va : va = v \o a
    OBVIOUS
  <2>6. va \in Seq(SUBSET Positions) /\ va[Len(va)] = IF a # <<>> THEN a[Len(a)] ELSE v[Len(v)]
    BY <2>2, <2>4, <2>5
  <2>7. PICK vao : vao = va \o o
    OBVIOUS
  <2>8. vao \in Seq(SUBSET Positions) /\ vao[Len(vao)] = IF o # <<>> THEN o[Len(o)] ELSE va[Len(va)]
    BY <2>2, <2>4, <2>6, <2>7
  <2>9. PICK way : way = vao \o q
    OBVIOUS
  <2>10. way[Len(way)] = IF q # <<>> THEN q[Len(q)] ELSE vao[Len(vao)]
    BY <2>2, <2>4, <2>8, <2>9
  <2>11. way[Len(way)] = pressed[p]
    BY <2>1, <2>3, <2>6, <2>8, <2>10
  <2> QED
    BY <2>5, <2>7, <2>9, <2>11 DEF v, a, o, q
<1> QED
  BY <1>1, SplitInvariant, PTL
-----------------------------------------------------------------------------
(* The wire *)

\* The least of a set of numbers
LEMMA Least ==
  ASSUME NEW T, T \subseteq Nat, T # {}
  PROVE  \E n \in T : \A k \in T : n <= k
<1>1. PICK n \in T : \A k \in T : ~(<<k, n>> \in OpToRel(<, Nat))
  BY WFMin, NatLessThanWellFounded
<1>2. \A k \in T : ~(k < n)
  BY <1>1 DEF OpToRel
<1> QED
  BY <1>2
-----------------------------------------------------------------------------
(* Sorting a set of numbers *)

\* at lists the numbers of S from the least to the greatest
Lists(at, S, c) ==
  /\ at \in [1 .. c -> S]
  /\ \A n \in S : \E k \in 1 .. c : at[k] = n
  /\ \A i, j \in 1 .. c : i < j => at[i] < at[j]

UpTo(S, n) == {m \in S : m <= n}

\* One more number, greater than all before it
LEMMA ListsNext ==
  ASSUME NEW S, S \subseteq Nat, NEW n \in Nat,
         IsFiniteSet(UpTo(S, n)), NEW at, Lists(at, UpTo(S, n), Cardinality(UpTo(S, n)))
  PROVE  IsFiniteSet(UpTo(S, n + 1)) /\ \E b : Lists(b, UpTo(S, n + 1), Cardinality(UpTo(S, n + 1)))
<1> DEFINE A == UpTo(S, n)  B == UpTo(S, n + 1)
<1>0. \A m : /\ m \in A <=> m \in S /\ m <= n
             /\ m \in B <=> m \in S /\ m <= n + 1
             /\ m \in S => m \in Nat
  BY DEF UpTo
<1>1. CASE n + 1 \notin S
  <2>1. \A m : m \in B <=> m \in A
    BY <1>0, <1>1
  <2>2. B = A
    <3> HIDE DEF A, B
    <3> QED
      BY <2>1
  <2> QED
    BY <2>2
<1>2. CASE n + 1 \in S
  <2>1. B = A \cup {n + 1} /\ n + 1 \notin A
    <3>1. \A m : m \in B <=> m \in A \/ m = n + 1
      BY <1>0, <1>2
    <3>2. n + 1 \notin A
      BY <1>0
    <3> HIDE DEF A, B
    <3> QED
      BY <3>1, <3>2
  <2>2. IsFiniteSet(B) /\ Cardinality(B) = Cardinality(A) + 1 /\ Cardinality(A) \in Nat
    BY <2>1, FS_AddElement, FS_CardinalityType
  <2> DEFINE c == Cardinality(A)
             b == [k \in 1 .. c + 1 |-> IF k = c + 1 THEN n + 1 ELSE at[k]]
  <2> HIDE DEF c
  <2>3. c \in Nat /\ Lists(at, A, c) /\ Cardinality(B) = c + 1
    BY <2>2 DEF c
  <2>4. \A k \in 1 .. c : at[k] \in A /\ at[k] \in Nat /\ at[k] <= n
    BY <2>3 DEF Lists, UpTo
  <2>5. b \in [1 .. c + 1 -> B]
    BY <2>1, <2>3, <2>4
  <2>6. \A m \in B : \E k \in 1 .. c + 1 : b[k] = m
    <3> TAKE m \in B
    <3>1. CASE m = n + 1
      BY <3>1, <2>3
    <3>2. CASE m \in A
      <4>1. PICK k \in 1 .. c : at[k] = m
        BY <2>3, <3>2 DEF Lists
      <4> QED
        BY <4>1, <2>3
    <3> QED
      BY <3>1, <3>2, <2>1
  <2>7. \A i, j \in 1 .. c + 1 : i < j => b[i] < b[j]
    <3> TAKE i, j \in 1 .. c + 1
    <3> HAVE i < j
    <3>1. i \in 1 .. c /\ b[i] = at[i] /\ at[i] <= n
      BY <2>3, <2>4
    <3>2. CASE j = c + 1
      BY <3>1, <3>2, <2>4
    <3>3. CASE j \in 1 .. c
      BY <3>1, <3>3, <2>3 DEF Lists
    <3> QED
      BY <3>2, <3>3, <2>3
  <2>8. Lists(b, B, c + 1)
    BY <2>5, <2>6, <2>7 DEF Lists
  <2> QED
    BY <2>2, <2>3, <2>8
<1> QED
  BY <1>1, <1>2

LEMMA ListsAll ==
  ASSUME NEW S, S \subseteq Nat, NEW N \in Nat, \A m \in S : m <= N
  PROVE  IsFiniteSet(S) /\ \E at : Lists(at, S, Cardinality(S))
<1> DEFINE Done(n) == /\ IsFiniteSet(UpTo(S, n))
                      /\ \E at : Lists(at, UpTo(S, n), Cardinality(UpTo(S, n)))
           T == {n \in Nat : ~Done(n)}
<1>0. \A m : m \in UpTo(S, 0) <=> m \in S /\ m = 0
  <2>1. \A m : m \in S => m \in Nat
    OBVIOUS
  <2>2. \A m : m \in UpTo(S, 0) <=> m \in S /\ m <= 0
    BY DEF UpTo
  <2> QED
    BY <2>1, <2>2
<1>1. Done(0)
  <2>1. CASE 0 \in S
    <3>1. UpTo(S, 0) = {0}
      BY <1>0, <2>1
    <3>2. IsFiniteSet({0}) /\ Cardinality({0}) = 1
      BY FS_Singleton
    <3>3. Lists([k \in 1 .. 1 |-> 0], {0}, 1)
      BY DEF Lists
    <3> QED
      BY <3>1, <3>2, <3>3
  <2>2. CASE 0 \notin S
    <3>1. UpTo(S, 0) = {}
      BY <1>0, <2>2
    <3>2. IsFiniteSet({}) /\ Cardinality({}) = 0
      BY FS_EmptySet
    <3>3. Lists([k \in 1 .. 0 |-> 0], {}, 0)
      BY DEF Lists
    <3> QED
      BY <3>1, <3>2, <3>3
  <2> QED
    BY <2>1, <2>2
<1>2. ASSUME NEW n \in Nat, Done(n) PROVE Done(n + 1)
  BY <1>2, ListsNext
<1>3. T = {}
  <2> SUFFICES ASSUME T # {} PROVE FALSE
    OBVIOUS
  <2>1. T \subseteq Nat
    OBVIOUS
  <2>2. PICK n \in T : \A k \in T : n <= k
    <3> HIDE DEF T
    <3> QED
      BY <2>1, Least
  <2>3. n \in Nat /\ ~Done(n)
    OBVIOUS
  <2>4. n # 0
    BY <2>3, <1>1
  <2>5. n - 1 \in Nat /\ n - 1 \notin T /\ (n - 1) + 1 = n
    <3> HIDE DEF T
    <3> QED
      BY <2>2, <2>3, <2>4
  <2>6. Done(n - 1)
    BY <2>5
  <2> QED
    <3> HIDE DEF Done
    <3> QED
      BY <2>3, <2>5, <2>6, <1>2
<1>4. Done(N)
  <2> HIDE DEF Done
  <2> QED
    BY <1>3
<1>5. UpTo(S, N) = S
  BY DEF UpTo
<1> QED
  BY <1>4, <1>5

\* Sorted(S) lists S: the number at place k is the one that k numbers do not exceed
LEMMA SortedLists ==
  ASSUME NEW S, S \subseteq Nat, NEW N \in Nat, \A m \in S : m <= N
  PROVE  Cardinality(S) \in Nat /\ Lists(Sorted(S), S, Cardinality(S))
<1>1. IsFiniteSet(S) /\ Cardinality(S) \in Nat
  BY ListsAll, FS_CardinalityType
<1>2. PICK at : Lists(at, S, Cardinality(S))
  BY ListsAll
<1> DEFINE c == Cardinality(S)
<1> HIDE DEF c
<1>3. c \in Nat /\ c = Cardinality(S) /\ Lists(at, S, c)
  BY <1>1, <1>2 DEF c
<1>4. ASSUME NEW k \in 1 .. c PROVE Cardinality({m \in S : m <= at[k]}) = k
  <2> DEFINE U == {m \in S : m <= at[k]}
             f == [i \in 1 .. k |-> at[i]]
  <2>1. at[k] \in Nat /\ \A i \in 1 .. c : at[i] \in Nat
    BY <1>3 DEF Lists
  <2>2. \A i, j \in 1 .. c : i < j => at[i] < at[j]
    BY <1>3 DEF Lists
  <2>3. \A i \in 1 .. k : i \in 1 .. c /\ at[i] \in S /\ at[i] <= at[k]
    <3> TAKE i \in 1 .. k
    <3>1. i \in 1 .. c /\ (i = k \/ i < k)
      BY <1>3
    <3> QED
      BY <3>1, <2>1, <2>2, <1>3 DEF Lists
  <2>4. \A m \in U : \E i \in 1 .. k : at[i] = m
    <3> TAKE m \in U
    <3>1. PICK i \in 1 .. c : at[i] = m
      BY <1>3 DEF Lists
    <3>2. ~(k < i)
      BY <3>1, <2>1, <2>2
    <3> QED
      BY <3>1, <3>2, <1>3
  <2>5. f \in Bijection(1 .. k, U)
    <3>1. f \in [1 .. k -> U]
      BY <2>3
    <3>2. \A i, j \in 1 .. k : f[i] = f[j] => i = j
      BY <2>1, <2>2, <2>3
    <3>3. \A m \in U : \E i \in 1 .. k : f[i] = m
      BY <2>4
    <3> QED
      BY <3>1, <3>2, <3>3 DEF Bijection, Injection, Surjection, IsInjective
  <2> HIDE DEF f, U
  <2>6. k \in Nat /\ IsFiniteSet(1 .. k) /\ Cardinality(1 .. k) = k
    BY <1>3, FS_Interval
  <2>7. Cardinality(U) = Cardinality(1 .. k)
    BY <2>5, <2>6, FS_Bijection DEF ExistsBijection
  <2> QED
    BY <2>6, <2>7 DEF U
<1>5. ASSUME NEW k \in 1 .. c PROVE Sorted(S)[k] = at[k]
  <2> DEFINE n == CHOOSE n \in S : Cardinality({m \in S : m <= n}) = k
  <2>1. at[k] \in S /\ Cardinality({m \in S : m <= at[k]}) = k
    BY <1>3, <1>4 DEF Lists
  <2>2. n \in S /\ Cardinality({m \in S : m <= n}) = k
    BY <2>1
  <2>3. PICK i \in 1 .. c : at[i] = n
    BY <2>2, <1>3 DEF Lists
  <2>4. i = k
    BY <2>2, <2>3, <1>4
  <2>5. Sorted(S)[k] = n
    BY <1>3 DEF Sorted
  <2> QED
    BY <2>3, <2>4, <2>5
<1>6. DOMAIN Sorted(S) = 1 .. c /\ Sorted(S) = [k \in 1 .. c |-> Sorted(S)[k]]
  BY <1>3 DEF Sorted
<1>7. Sorted(S) = at
  <2>1. at = [k \in 1 .. c |-> at[k]]
    BY <1>3 DEF Lists
  <2> QED
    BY <1>5, <1>6, <2>1
<1> QED
  BY <1>3, <1>7
\* h increases in S, and g tells at which of the places of Sorted(S)
Rises(h, m, S) ==
  m \in Nat /\ h \in [1 .. m -> S] /\ \A i, j \in 1 .. m : i < j => h[i] < h[j]
Finds(g, h, m, S) ==
  /\ g \in [1 .. m -> 1 .. Cardinality(S)]
  /\ \A i \in 1 .. m : Sorted(S)[g[i]] = h[i] /\ \A j \in 1 .. i - 1 : g[j] < g[i]
LEMMA SortedFinds ==
  ASSUME NEW S, S \subseteq Nat, NEW N \in Nat, \A m \in S : m <= N, NEW m, NEW h, Rises(h, m, S)
  PROVE  \E g : Finds(g, h, m, S)
<1> DEFINE c == Cardinality(S)
           g == [i \in 1 .. m |-> CHOOSE k \in 1 .. c : Sorted(S)[k] = h[i]]
<1>0. m \in Nat /\ h \in [1 .. m -> S] /\ \A i, j \in 1 .. m : i < j => h[i] < h[j]
  BY DEF Rises
<1>1. c \in Nat /\ Lists(Sorted(S), S, c)
  BY SortedLists
<1> HIDE DEF c
<1>2. \A i \in 1 .. m : g[i] \in 1 .. c /\ Sorted(S)[g[i]] = h[i]
  BY <1>0, <1>1 DEF Lists
<1>3. g \in [1 .. m -> 1 .. c]
  BY <1>2
<1>4. ASSUME NEW i \in 1 .. m, NEW j \in 1 .. i - 1 PROVE g[j] < g[i]
  <2>1. j \in 1 .. m /\ j < i
    BY <1>0
  <2>2. h[j] < h[i] /\ h[i] \in Nat /\ h[j] \in Nat
    BY <1>0, <2>1
  <2>3. g[i] \in 1 .. c /\ g[j] \in 1 .. c /\ Sorted(S)[g[i]] = h[i] /\ Sorted(S)[g[j]] = h[j]
    BY <1>2, <2>1
  <2> HIDE DEF g
  <2>4. \A p, q \in 1 .. c : p < q => Sorted(S)[p] < Sorted(S)[q]
    BY <1>1 DEF Lists
  <2>5. ~(g[i] < g[j])
    BY <2>2, <2>3, <2>4
  <2>6. g[i] # g[j]
    BY <2>2, <2>3
  <2> QED
    BY <1>1, <2>3, <2>5, <2>6
<1> QED
  <2> HIDE DEF g
  <2> QED
    BY <1>2, <1>3, <1>4 DEF c, Finds
-----------------------------------------------------------------------------
(* What is left of a sequence *)

Left(t, s) == EventFifo!IsLeftOf(t, s)
LEMMA LeftIs ==
  ASSUME NEW t, NEW s
  PROVE  /\ Left(t, s) <=> \E at \in [DOMAIN t -> DOMAIN s] :
              \A i \in DOMAIN t : t[i] = s[at[i]] /\ \A j \in 1 .. i - 1 : at[j] < at[i]
         /\ Left(t, s) <=> EventFifo!IsLeftOf(t, s)
         /\ Left(t, s) <=> CommandFifo!IsLeftOf(t, s)
BY DEF Left, EventFifo!IsLeftOf, CommandFifo!IsLeftOf

Map(a, t, s) ==
  /\ a \in [DOMAIN t -> DOMAIN s]
  /\ \A i \in DOMAIN t : t[i] = s[a[i]] /\ \A j \in 1 .. i - 1 : a[j] < a[i]
LEMMA LeftMap == \A t, s : Left(t, s) => \E a : Map(a, t, s)
BY LeftIs DEF Map

LEMMA MapLeft == \A a, t, s : Map(a, t, s) => Left(t, s)
BY LeftIs DEF Map

LEMMA LeftSame ==
  ASSUME NEW X, NEW s \in Seq(X)
  PROVE  Left(s, s)
<1> DEFINE at == [i \in DOMAIN s |-> i]
<1>1. at \in [DOMAIN s -> DOMAIN s]
  OBVIOUS
<1>2. \A i \in DOMAIN s : s[i] = s[at[i]] /\ \A j \in 1 .. i - 1 : at[j] < at[i]
  OBVIOUS
<1> QED
  BY <1>1, <1>2, LeftIs

LEMMA LeftTwice ==
  ASSUME NEW X, NEW s \in Seq(X), NEW t \in Seq(X), NEW u \in Seq(X), Left(u, t), Left(t, s)
  PROVE  Left(u, s)
<1>1. PICK a : Map(a, u, t)
  BY LeftMap, Zenon
<1>2. PICK b : Map(b, t, s)
  BY LeftMap, Zenon
<1> DEFINE c == [i \in DOMAIN u |-> b[a[i]]]
<1>3. c \in [DOMAIN u -> DOMAIN s]
  BY <1>1, <1>2 DEF Map
<1>4. ASSUME NEW i \in DOMAIN u PROVE u[i] = s[c[i]]
  BY <1>1, <1>2 DEF Map
<1>5. ASSUME NEW i \in DOMAIN u, NEW j \in 1 .. i - 1 PROVE c[j] < c[i]
  <2>1. j \in DOMAIN u /\ a[j] < a[i] /\ a[j] \in DOMAIN t /\ a[i] \in DOMAIN t
    BY <1>1 DEF Map
  <2>2. a[j] \in 1 .. a[i] - 1
    BY <2>1
  <2>3. b[a[j]] < b[a[i]]
    BY <1>2, <2>1, <2>2 DEF Map
  <2> QED
    BY <2>1, <2>3
<1> HIDE DEF c
<1>6. Map(c, u, s)
  BY <1>3, <1>4, <1>5 DEF Map
<1> QED
  BY <1>6, MapLeft, Zenon

LEMMA LeftJoined ==
  ASSUME NEW X, NEW s \in Seq(X), NEW t \in Seq(X), NEW u \in Seq(X), NEW v \in Seq(X),
         Left(t, s), Left(v, u)
  PROVE  Left(t \o v, s \o u)
<1>1. PICK a \in [DOMAIN t -> DOMAIN s] :
        \A i \in DOMAIN t : t[i] = s[a[i]] /\ \A j \in 1 .. i - 1 : a[j] < a[i]
  <2>1. PICK a : Map(a, t, s)
    BY LeftMap, Zenon
  <2> QED
    BY <2>1 DEF Map
<1>2. PICK b \in [DOMAIN v -> DOMAIN u] :
        \A i \in DOMAIN v : v[i] = u[b[i]] /\ \A j \in 1 .. i - 1 : b[j] < b[i]
  <2>1. PICK b : Map(b, v, u)
    BY LeftMap, Zenon
  <2> QED
    BY <2>1 DEF Map
<1> DEFINE c == [i \in DOMAIN (t \o v) |-> IF i <= Len(t) THEN a[i] ELSE Len(s) + b[i - Len(t)]]
<1>3. /\ DOMAIN (t \o v) = 1 .. Len(t) + Len(v) /\ DOMAIN (s \o u) = 1 .. Len(s) + Len(u)
      /\ DOMAIN t = 1 .. Len(t) /\ DOMAIN v = 1 .. Len(v)
      /\ DOMAIN s = 1 .. Len(s) /\ DOMAIN u = 1 .. Len(u)
      /\ Len(t) \in Nat /\ Len(v) \in Nat /\ Len(s) \in Nat /\ Len(u) \in Nat
  OBVIOUS
<1>4. ASSUME NEW i \in 1 .. Len(t) + Len(v)
      PROVE  IF i <= Len(t) THEN i \in 1 .. Len(t) /\ c[i] = a[i] /\ a[i] \in 1 .. Len(s)
             ELSE i - Len(t) \in 1 .. Len(v) /\ c[i] = Len(s) + b[i - Len(t)]
                    /\ b[i - Len(t)] \in 1 .. Len(u)
  <2>1. i \in DOMAIN (t \o v)
    BY <1>3
  <2>2. c[i] = IF i <= Len(t) THEN a[i] ELSE Len(s) + b[i - Len(t)]
    BY <2>1
  <2>3. CASE i <= Len(t)
    <3>1. i \in 1 .. Len(t)
      BY <2>3, <1>3
    <3>2. a[i] \in 1 .. Len(s)
      BY <1>1, <1>3, <3>1
    <3> QED
      BY <2>2, <2>3, <3>1, <3>2
  <2>4. CASE ~(i <= Len(t))
    <3>1. i - Len(t) \in 1 .. Len(v)
      BY <2>4, <1>3
    <3>2. b[i - Len(t)] \in 1 .. Len(u)
      BY <1>2, <1>3, <3>1
    <3> QED
      BY <2>2, <2>4, <3>1, <3>2
  <2> QED
    BY <2>3, <2>4
<1>5. c \in [DOMAIN (t \o v) -> DOMAIN (s \o u)]
  <2>1. \A i \in 1 .. Len(t) + Len(v) : c[i] \in 1 .. Len(s) + Len(u)
    BY <1>3, <1>4
  <2> QED
    BY <1>3, <2>1
<1>6. ASSUME NEW i \in DOMAIN (t \o v) PROVE (t \o v)[i] = (s \o u)[c[i]]
  <2>1. i \in 1 .. Len(t) + Len(v)
    BY <1>3
  <2> HIDE DEF c
  <2>2. CASE i <= Len(t)
    <3>1. (t \o v)[i] = t[i] /\ t[i] = s[a[i]]
      BY <1>1, <1>3, <2>1, <2>2
    <3> QED
      BY <1>4, <2>1, <2>2, <3>1
  <2>3. CASE ~(i <= Len(t))
    <3>1. (t \o v)[i] = v[i - Len(t)] /\ v[i - Len(t)] = u[b[i - Len(t)]]
      BY <1>2, <1>3, <1>4, <2>1, <2>3
    <3>2. (s \o u)[Len(s) + b[i - Len(t)]] = u[b[i - Len(t)]]
      BY <1>3, <1>4, <2>1, <2>3
    <3> QED
      BY <1>4, <2>1, <2>3, <3>1, <3>2
  <2> QED
    BY <2>2, <2>3
<1>7. ASSUME NEW i \in DOMAIN (t \o v), NEW j \in 1 .. i - 1 PROVE c[j] < c[i]
  <2>1. i \in 1 .. Len(t) + Len(v) /\ j \in 1 .. Len(t) + Len(v) /\ j < i
    BY <1>3
  <2> HIDE DEF c
  <2>2. CASE i <= Len(t)
    <3>1. a[j] < a[i]
      BY <1>1, <1>3, <2>1, <2>2
    <3> QED
      BY <1>4, <2>1, <2>2, <3>1, <1>3
  <2>3. CASE ~(i <= Len(t)) /\ j <= Len(t)
    BY <1>3, <1>4, <2>1, <2>3
  <2>4. CASE ~(i <= Len(t)) /\ ~(j <= Len(t))
    <3>1. j - Len(t) \in 1 .. (i - Len(t)) - 1 /\ i - Len(t) \in 1 .. Len(v)
      BY <1>3, <2>1, <2>4
    <3>2. b[j - Len(t)] < b[i - Len(t)]
      BY <1>2, <1>3, <3>1
    <3> QED
      BY <1>3, <1>4, <2>1, <2>4, <3>2
  <2> QED
    BY <2>2, <2>3, <2>4
<1> HIDE DEF c
<1>8. Map(c, t \o v, s \o u)
  BY <1>5, <1>6, <1>7 DEF Map
<1> QED
  BY <1>8, MapLeft, Zenon

\* A part without what comes before or behind it
LEMMA LeftPart ==
  ASSUME NEW X, NEW s \in Seq(X), NEW u \in Seq(X)
  PROVE  Left(s, s \o u) /\ Left(u, s \o u)
<1>1. <<>> \in Seq(X) /\ s \o <<>> = s /\ <<>> \o u = u
  OBVIOUS
<1>2. \A v : Left(<<>>, v)
  <2> TAKE v
  <2> DEFINE at == [i \in DOMAIN <<>> |-> 0]
  <2>1. at \in [DOMAIN <<>> -> DOMAIN v] /\ DOMAIN <<>> = {}
    OBVIOUS
  <2> QED
    BY <2>1, LeftIs
<1>3. Left(s, s) /\ Left(u, u)
  BY LeftSame
<1> QED
  BY <1>1, <1>2, <1>3, LeftJoined

\* What is left is no longer, and as long only when nothing is lost
LEMMA LeftLength ==
  ASSUME NEW X, NEW s \in Seq(X), NEW t \in Seq(X), Left(t, s)
  PROVE  t = s \/ Len(t) < Len(s)
<1>1. PICK a \in [DOMAIN t -> DOMAIN s] :
        \A i \in DOMAIN t : t[i] = s[a[i]] /\ \A j \in 1 .. i - 1 : a[j] < a[i]
  BY LeftIs
<1>2. DOMAIN t = 1 .. Len(t) /\ DOMAIN s = 1 .. Len(s) /\ Len(t) \in Nat /\ Len(s) \in Nat
  OBVIOUS
<1>3. \A i \in 1 .. Len(t) : i <= a[i]
  <2> DEFINE T == {i \in 1 .. Len(t) : ~(i <= a[i])}
  <2> SUFFICES ASSUME T # {} PROVE FALSE
    OBVIOUS
  <2>1. T \subseteq Nat
    BY <1>2
  <2>2. PICK i \in T : \A k \in T : i <= k
    <3> HIDE DEF T
    <3> QED
      BY <2>1, Least
  <2>3. i \in 1 .. Len(t) /\ a[i] \in 1 .. Len(s) /\ ~(i <= a[i])
    BY <1>1, <1>2
  <2>4. CASE i = 1
    BY <2>3, <2>4, <1>2
  <2>5. CASE i > 1
    <3>1. i - 1 \in 1 .. Len(t) /\ i - 1 \in 1 .. i - 1 /\ ~(i <= i - 1)
      BY <2>3, <2>5, <1>2
    <3>2. i - 1 \notin T
      <4> HIDE DEF T
      <4> QED
        BY <2>2, <3>1
    <3>3. i - 1 <= a[i - 1] /\ a[i - 1] < a[i] /\ a[i - 1] \in 1 .. Len(s)
      BY <1>1, <1>2, <2>3, <3>1, <3>2
    <3> QED
      BY <2>3, <3>3, <1>2
  <2> QED
    BY <2>3, <2>4, <2>5, <1>2
<1>4. Len(t) <= Len(s)
  <2>1. CASE Len(t) = 0
    BY <1>2, <2>1
  <2>2. CASE Len(t) > 0
    <3>1. Len(t) \in 1 .. Len(t) /\ a[Len(t)] \in 1 .. Len(s) /\ Len(t) <= a[Len(t)]
      BY <1>1, <1>2, <1>3, <2>2
    <3> QED
      BY <3>1, <1>2
  <2> QED
    BY <1>2, <2>1, <2>2
<1>5. ASSUME Len(t) = Len(s) PROVE t = s
  <2>1. \A i \in 1 .. Len(t) : a[i] <= i
    <3> DEFINE T == {m \in Nat : m < Len(t) /\ ~(a[Len(t) - m] <= Len(t) - m)}
    <3>1. T = {}
      <4> SUFFICES ASSUME T # {} PROVE FALSE
        OBVIOUS
      <4>1. PICK m \in T : \A k \in T : m <= k
        <5>1. T \subseteq Nat
          OBVIOUS
        <5> HIDE DEF T
        <5> QED
          BY <5>1, Least
      <4> DEFINE i == Len(t) - m
      <4>2. m \in Nat /\ m < Len(t) /\ ~(a[i] <= i) /\ i \in 1 .. Len(t)
        BY <1>2
      <4>3. a[i] \in 1 .. Len(t)
        BY <4>2, <1>1, <1>2, <1>5
      <4>4. m # 0
        BY <4>2, <4>3, <1>2
      <4>5. m - 1 \in Nat /\ m - 1 \notin T
        <5> HIDE DEF T
        <5> QED
          BY <4>1, <4>2, <4>4
      <4>6. Len(t) - (m - 1) = i + 1 /\ i + 1 \in 1 .. Len(t) /\ i \in 1 .. (i + 1) - 1
        BY <4>2, <4>4, <1>2
      <4>7. a[i + 1] <= i + 1
        BY <4>2, <4>5, <4>6, <1>2
      <4>8. a[i] < a[i + 1] /\ a[i + 1] \in 1 .. Len(t)
        BY <1>1, <1>2, <1>5, <4>6
      <4> QED
        BY <4>2, <4>3, <4>7, <4>8, <1>2
    <3> TAKE i \in 1 .. Len(t)
    <3>2. Len(t) - i \in Nat /\ Len(t) - i < Len(t) /\ Len(t) - (Len(t) - i) = i
      BY <1>2
    <3>3. Len(t) - i \notin T
      <4> HIDE DEF T
      <4> QED
        BY <3>1
    <3> QED
      BY <3>2, <3>3
  <2>2. \A i \in 1 .. Len(t) : a[i] \in 1 .. Len(t) /\ t[i] = s[a[i]]
    BY <1>1, <1>2, <1>5
  <2>3. \A i \in 1 .. Len(t) : a[i] = i
    BY <2>1, <2>2, <1>2, <1>3
  <2>4. \A i \in 1 .. Len(t) : t[i] = s[i]
    BY <2>2, <2>3
  <2> QED
    BY <2>4, <1>2, <1>5
<1>6. CASE Len(t) = Len(s)
  BY <1>5, <1>6
<1>7. Len(t) = Len(s) \/ Len(t) < Len(s)
  BY <1>4
<1> QED
  BY <1>6, <1>7
\* What is taken in order from the places of S is left of what those hold
Bounded(S) == S \subseteq Nat /\ \E N \in Nat : \A n \in S : n <= N
Picks(s, v, S) == s = [k \in 1 .. Cardinality(S) |-> v[Sorted(S)[k]]]
Takes(t, v, h) == \A i \in 1 .. Len(t) : t[i] = v[h[i]]
LEMMA PickedLeft ==
  ASSUME NEW S, Bounded(S), NEW v, NEW s, Picks(s, v, S),
         NEW X, NEW t \in Seq(X), NEW h, Rises(h, Len(t), S), Takes(t, v, h)
  PROVE  Left(t, s)
<1>0. s = [k \in 1 .. Cardinality(S) |-> v[Sorted(S)[k]]] /\ \A i \in 1 .. Len(t) : t[i] = v[h[i]]
  BY DEF Picks, Takes
<1>1. DOMAIN t = 1 .. Len(t)
  OBVIOUS
<1>2. PICK g : Finds(g, h, Len(t), S)
  <2>1. PICK N \in Nat : \A n \in S : n <= N
    BY DEF Bounded
  <2>2. S \subseteq Nat
    BY DEF Bounded
  <2> QED
    BY <2>1, <2>2, SortedFinds
<1>3. \A i \in 1 .. Len(t) : t[i] = s[g[i]]
  BY <1>0, <1>2 DEF Finds
<1>4. g \in [DOMAIN t -> DOMAIN s]
  BY <1>0, <1>1, <1>2 DEF Finds
<1>5. \A i \in 1 .. Len(t) : \A j \in 1 .. i - 1 : g[j] < g[i]
  BY <1>2 DEF Finds
<1>6. Map(g, t, s)
  BY <1>1, <1>3, <1>4, <1>5 DEF Map
<1> QED
  BY <1>6, MapLeft, Zenon

\* The greatest number comes last
LEMMA SortedLast ==
  ASSUME NEW S, S \subseteq Nat, NEW N \in S, \A n \in S : n <= N
  PROVE  /\ Cardinality(S) \in Nat \ {0} /\ Sorted(S)[Cardinality(S)] = N
         /\ \A k \in 1 .. Cardinality(S) - 1 : Sorted(S)[k] < N
<1>1. Cardinality(S) \in Nat /\ Lists(Sorted(S), S, Cardinality(S))
  BY SortedLists
<1> DEFINE c == Cardinality(S)
           at == Sorted(S)
<1> HIDE DEF c, at
<1>2. c \in Nat /\ at \in [1 .. c -> S] /\ (\A i, j \in 1 .. c : i < j => at[i] < at[j])
      /\ \A n \in S : \E k \in 1 .. c : at[k] = n
  BY <1>1 DEF Lists, c, at
<1>3. PICK k \in 1 .. c : at[k] = N
  BY <1>2
<1>4. k = c
  <2>1. c \in 1 .. c
    BY <1>2
  <2>2. at[c] \in S
    BY <1>2, <2>1
  <2>3. at[c] <= N /\ at[c] \in Nat /\ N \in Nat
    BY <2>2
  <2>4. ~(k < c)
    BY <1>2, <1>3, <2>1, <2>3
  <2> QED
    BY <1>2, <1>3, <2>4
<1>5. \A i \in 1 .. c - 1 : at[i] < N
  BY <1>2, <1>3, <1>4
<1> QED
  BY <1>2, <1>3, <1>4, <1>5 DEF c, at
-----------------------------------------------------------------------------
(* Tokens and frames *)

AllPayloads == {Poll} \cup {Command(n) : n \in 1 .. MaxInputs}
                 \cup {KeyEvent(k, b) : k \in WiredKeys, b \in BOOLEAN}
DataTokens == {Data("poll"), Data("command")} \cup {Data(n) : n \in 1 .. MaxInputs}
                \cup {Data(<<k, b>>) : k \in WiredKeys, b \in BOOLEAN}
Tokens == {Magic, Noise} \cup {PayloadSize(n) : n \in 0 .. MaxPayload + 1}
            \cup DataTokens \cup {Crc(p) : p \in AllPayloads}

LEMMA Sizes == Extra = 3 /\ MaxPayload = 2
BY DEF Extra, MaxPayload

LEMMA TokenParts ==
  /\ Magic[1] = "M" /\ Noise[1] = "N"
  /\ \A n : PayloadSize(n)[1] = "S" /\ PayloadSize(n)[2] = n
  /\ \A t \in DataTokens : t[1] = "D"
  /\ \A p : Crc(p)[1] = "C" /\ Crc(p)[2] = p
BY DEF Magic, Noise, PayloadSize, Data, DataTokens, Crc

LEMMA TokenKinds ==
  ASSUME NEW t \in Tokens
  PROVE  /\ t[1] = "M" => t = Magic
         /\ t[1] = "S" => t[2] \in 0 .. 3 /\ t = PayloadSize(t[2])
         /\ t[1] = "C" => t[2] \in AllPayloads /\ t = Crc(t[2])
BY TokenParts, Sizes DEF Tokens

LEMMA PayloadParts ==
  ASSUME NEW p \in AllPayloads
  PROVE  p \in Seq(DataTokens) /\ Len(p) \in 1 .. 2
<1>1. CASE p = Poll
  BY <1>1 DEF Poll, DataTokens
<1>2. CASE \E n \in 1 .. MaxInputs : p = Command(n)
  BY <1>2 DEF Command, DataTokens
<1>3. CASE \E k \in WiredKeys, b \in BOOLEAN : p = KeyEvent(k, b)
  BY <1>3 DEF KeyEvent, DataTokens
<1> QED
  BY <1>1, <1>2, <1>3 DEF AllPayloads

LEMMA CommandParts == \A n : Command(n) # Poll
<1> TAKE n
<1>1. Len(Command(n)) = 2 /\ Len(Poll) = 1
  BY DEF Command, Poll
<1> QED
  BY <1>1

\* What goes over the cable for a payload: the parts in their places, and a checksum only
\* at the end
FrameOf(f, p) ==
  /\ f \in Seq(Tokens) /\ Len(f) = Len(p) + 3
  /\ \A j \in 1 .. Len(f) : f[j][1] = "C" => j = Len(f) /\ f[j] = Crc(p)
  /\ \A i \in 1 .. Len(p) : f[2 + i] = p[i]
  /\ f[2][1] = "S"

LEMMA FramedParts ==
  ASSUME NEW p \in AllPayloads
  PROVE  LET f == Framed(p)
         IN /\ FrameOf(f, p)
            /\ f[1] = Magic /\ f[2] = PayloadSize(Len(p)) /\ f[Len(f)] = Crc(p)
<1> DEFINE f == Framed(p)
           n == Len(p)
<1>1. p \in Seq(DataTokens) /\ n \in 1 .. 2
  BY PayloadParts
<1>2. p \in Seq(Tokens)
  BY <1>1 DEF Tokens
<1>3. Magic \in Tokens /\ PayloadSize(n) \in Tokens /\ Crc(p) \in Tokens
  <2> HIDE DEF n
  <2>1. n \in 0 .. MaxPayload + 1
    BY <1>1, Sizes
  <2>2. PayloadSize(n) \in {PayloadSize(m) : m \in 0 .. MaxPayload + 1}
    BY <2>1
  <2> QED
    BY <2>2 DEF Tokens
<1>4. f \in Seq(Tokens)
  BY <1>2, <1>3 DEF Framed
<1>5. Len(f) = n + 3
  BY <1>2, <1>3 DEF Framed
<1>6. f[1] = Magic /\ f[2] = PayloadSize(n)
  BY <1>1, <1>2, <1>3 DEF Framed
<1>7. \A i \in 1 .. n : f[2 + i] = p[i]
  BY <1>1, <1>2, <1>3 DEF Framed
<1>8. f[n + 3] = Crc(p)
  BY <1>1, <1>2, <1>3 DEF Framed
<1>9. ASSUME NEW j \in 1 .. n + 2 PROVE f[j][1] # "C"
  <2>1. CASE j = 1
    BY <2>1, <1>6, TokenParts
  <2>2. CASE j = 2
    BY <2>2, <1>6, TokenParts
  <2>3. CASE j > 2
    <3>1. j - 2 \in 1 .. n /\ 2 + (j - 2) = j
      BY <2>3, <1>1
    <3>2. f[j] = p[j - 2] /\ p[j - 2] \in DataTokens
      BY <3>1, <1>1, <1>7
    <3> QED
      BY <3>2, TokenParts
  <2> QED
    BY <2>1, <2>2, <2>3
<1> HIDE DEF f
<1>10. \A j \in 1 .. Len(f) : f[j][1] = "C" => j = Len(f) /\ f[j] = Crc(p)
  <2> TAKE j \in 1 .. Len(f)
  <2>1. j = n + 3 \/ j \in 1 .. n + 2
    BY <1>1, <1>5
  <2> QED
    BY <2>1, <1>5, <1>8, <1>9
<1>11. f[2][1] = "S"
  BY <1>6, TokenParts
<1> QED
  BY <1>4, <1>5, <1>6, <1>7, <1>8, <1>10, <1>11 DEF FrameOf, f

LEMMA GarbledParts ==
  ASSUME NEW p \in AllPayloads, NEW g \in Garbled(Framed(p))
  PROVE  /\ FrameOf(g, p)
         /\ g[1] # Magic \/ g[2] # PayloadSize(Len(p)) \/ g[Len(g)] # Crc(p)
<1> DEFINE f == Framed(p)
           n == Len(p)
<1>1. FrameOf(f, p) /\ f[1] = Magic /\ f[2] = PayloadSize(n) /\ f[Len(f)] = Crc(p)
  BY FramedParts
<1>2. n \in 1 .. 2 /\ p \in Seq(DataTokens)
  BY PayloadParts
<1> HIDE DEF f
<1>3. f \in Seq(Tokens) /\ Len(f) = n + 3 /\ DOMAIN f = 1 .. n + 3
  BY <1>1 DEF FrameOf
<1>4. CASE \E m \in (0 .. MaxPayload + 1) \ {Len(f) - Extra} : g = [f EXCEPT ![2] = PayloadSize(m)]
  <2>1. PICK m \in (0 .. MaxPayload + 1) \ {Len(f) - Extra} : g = [f EXCEPT ![2] = PayloadSize(m)]
    BY <1>4
  <2>2. PayloadSize(m) \in Tokens /\ m # n
    BY <2>1, <1>2, <1>3, Sizes DEF Tokens
  <2>3. g \in Seq(Tokens) /\ Len(g) = n + 3 /\ g[2] = PayloadSize(m)
        /\ \A j \in 1 .. n + 3 : j # 2 => g[j] = f[j]
    BY <1>2, <1>3, <2>1, <2>2
  <2>4. PayloadSize(m)[1] = "S" /\ PayloadSize(m) # PayloadSize(n)
    BY <2>2, TokenParts
  <2>5. FrameOf(g, p)
    BY <1>1, <1>2, <1>3, <2>3, <2>4 DEF FrameOf
  <2> QED
    BY <2>3, <2>4, <2>5
<1>5. CASE \E i \in {1, Len(f)} : g = [f EXCEPT ![i] = Noise]
  <2>1. PICK i \in {1, Len(f)} : g = [f EXCEPT ![i] = Noise]
    BY <1>5
  <2>2. Noise \in Tokens /\ Noise[1] = "N" /\ Noise # Magic /\ Noise # Crc(p)
    BY TokenParts DEF Tokens
  <2>3. g \in Seq(Tokens) /\ Len(g) = n + 3 /\ g[i] = Noise
        /\ \A j \in 1 .. n + 3 : j # i => g[j] = f[j]
    BY <1>2, <1>3, <2>1, <2>2
  <2>4. i = 1 \/ i = n + 3
    BY <2>1, <1>3
  <2>5. FrameOf(g, p)
    <3>1. \A j \in 1 .. n + 3 : g[j][1] = "C" => j = n + 3 /\ g[j] = Crc(p)
      BY <1>1, <1>3, <2>2, <2>3 DEF FrameOf
    <3>2. \A j \in 1 .. n : g[2 + j] = p[j]
      <4> TAKE j \in 1 .. n
      <4>1. 2 + j \in 1 .. n + 3 /\ 2 + j # i
        BY <1>2, <2>4
      <4> QED
        BY <1>1, <2>3, <4>1 DEF FrameOf
    <3>3. g[2] = f[2]
      BY <1>2, <2>3, <2>4
    <3> QED
      BY <1>1, <2>3, <3>1, <3>2, <3>3 DEF FrameOf
  <2> QED
    BY <2>2, <2>3, <2>4, <2>5
<1> QED
  BY <1>4, <1>5 DEF Garbled, f
-----------------------------------------------------------------------------
(* What is intact in a buffer *)

\* A checksum has its payload before it and a size before that, as far as the buffer
\* reaches back.
ChecksumAt(buf, j, p) ==
  /\ \A i \in 1 .. Len(p) : j - i >= 1 => buf[j - i] = p[Len(p) + 1 - i]
  /\ j - Len(p) - 1 >= 1 => buf[j - Len(p) - 1][1] = "S"
WellFramed(buf) ==
  \A j \in 1 .. Len(buf) : buf[j][1] = "C" => ChecksumAt(buf, j, buf[j][2])

PayloadAt(buf, i) == SubSeq(buf, i + 2, i + 1 + buf[i + 1][2])
StartsAt(buf, i) ==
  /\ i \in 1 .. Len(buf) /\ buf[i] = Magic /\ Len(buf) >= i + 3 /\ buf[i + 1][1] = "S"
  /\ Len(buf) >= i + 2 + buf[i + 1][2]
  /\ buf[i + 2 + buf[i + 1][2]] = Crc(PayloadAt(buf, i))

LEMMA SubSeqIs ==
  ASSUME NEW X, NEW s \in Seq(X), NEW a \in Int, NEW z \in Int, a >= 1, z <= Len(s), z >= a - 1
  PROVE  /\ SubSeq(s, a, z) \in Seq(X) /\ Len(SubSeq(s, a, z)) = z - a + 1
         /\ \A k \in 1 .. z - a + 1 : SubSeq(s, a, z)[k] = s[a - 1 + k]
OBVIOUS

LEMMA SeqSame ==
  ASSUME NEW X, NEW s \in Seq(X), NEW t \in Seq(X), Len(s) = Len(t),
         \A k \in 1 .. Len(s) : s[k] = t[k]
  PROVE  s = t
OBVIOUS

LEMMA JoinIs ==
  ASSUME NEW X, NEW s \in Seq(X), NEW t \in Seq(X)
  PROVE  /\ s \o t \in Seq(X) /\ Len(s \o t) = Len(s) + Len(t)
         /\ \A k \in 1 .. Len(s) : (s \o t)[k] = s[k]
         /\ \A k \in 1 .. Len(t) : (s \o t)[Len(s) + k] = t[k]
OBVIOUS

LEMMA StartsAre ==
  ASSUME NEW buf \in Seq(Tokens)
  PROVE  /\ \A i : i \in Starts(buf) <=> StartsAt(buf, i)
         /\ Starts(buf) \subseteq Nat /\ Len(buf) \in Nat /\ \A i \in Starts(buf) : i <= Len(buf)
<1>1. DOMAIN buf = 1 .. Len(buf) /\ Len(buf) \in Nat
  OBVIOUS
<1>2. \A i : i \in Starts(buf) <=> StartsAt(buf, i)
  BY <1>1, Sizes DEF Starts, StartsAt, PayloadAt
<1> QED
  BY <1>1, <1>2 DEF StartsAt

LEMMA IntactIs ==
  ASSUME NEW buf \in Seq(Tokens)
  PROVE  /\ Cardinality(Starts(buf)) \in Nat
         /\ Lists(Sorted(Starts(buf)), Starts(buf), Cardinality(Starts(buf)))
         /\ Intact(buf) \in Seq(Seq(Tokens)) /\ Len(Intact(buf)) = Cardinality(Starts(buf))
         /\ Intact(buf) = [k \in 1 .. Cardinality(Starts(buf)) |->
                             [i \in Starts(buf) |-> PayloadAt(buf, i)][Sorted(Starts(buf))[k]]]
<1> DEFINE S == Starts(buf)
           c == Cardinality(S)
           at == Sorted(S)
<1>1. S \subseteq Nat /\ Len(buf) \in Nat /\ \A i \in S : i <= Len(buf)
  BY StartsAre
<1> HIDE DEF S
<1>2. c \in Nat /\ Lists(at, S, c)
  BY <1>1, SortedLists
<1> HIDE DEF c, at
<1>3. DOMAIN at = 1 .. c /\ \A k \in 1 .. c : at[k] \in S
  BY <1>2 DEF Lists
<1>4. Intact(buf) = [k \in 1 .. c |-> PayloadAt(buf, at[k])]
  BY <1>3 DEF Intact, PayloadAt, at, S
<1>5. Intact(buf) = [k \in 1 .. c |-> [i \in S |-> PayloadAt(buf, i)][at[k]]]
  BY <1>3, <1>4
<1>6. \A i \in S : PayloadAt(buf, i) \in Seq(Tokens)
  <2> TAKE i \in S
  <2>1. StartsAt(buf, i)
    BY StartsAre DEF S
  <2>2. i \in 1 .. Len(buf) /\ buf[i + 1] \in Tokens /\ buf[i + 1][1] = "S" /\ Len(buf) \in Nat
    BY <2>1 DEF StartsAt
  <2>3. buf[i + 1][2] \in 0 .. 3 /\ i + 1 + buf[i + 1][2] <= Len(buf)
    BY <2>1, <2>2, TokenKinds DEF StartsAt
  <2> DEFINE n == buf[i + 1][2]
  <2> HIDE DEF n
  <2>4. SubSeq(buf, i + 2, i + 1 + n) \in Seq(Tokens)
    BY <2>2, <2>3 DEF n
  <2> QED
    BY <2>4 DEF PayloadAt, n
<1>7. Intact(buf) \in Seq(Seq(Tokens)) /\ Len(Intact(buf)) = c
  BY <1>2, <1>3, <1>4, <1>6
<1> QED
  BY <1>2, <1>5, <1>7 DEF c, at, S

\* Payloads found in order at starts of frames are left of those that are intact
LEMMA FoundLeft ==
  ASSUME NEW buf \in Seq(Tokens), NEW X, NEW t \in Seq(X), NEW h, Rises(h, Len(t), Starts(buf)),
         \A i \in 1 .. Len(t) : t[i] = PayloadAt(buf, h[i])
  PROVE  Left(t, Intact(buf))
<1> DEFINE S == Starts(buf)
           v == [i \in S |-> PayloadAt(buf, i)]
<1>1. S \subseteq Nat /\ Len(buf) \in Nat /\ \A i \in S : i <= Len(buf)
  BY StartsAre
<1>2. Intact(buf) = [k \in 1 .. Cardinality(S) |-> v[Sorted(S)[k]]]
  BY IntactIs
<1>3. \A i \in 1 .. Len(t) : t[i] = v[h[i]]
  BY DEF Rises
<1>4. Rises(h, Len(t), S)
  OBVIOUS
<1> HIDE DEF S, v
<1>5. Bounded(S)
  BY <1>1 DEF Bounded
<1>6. Picks(Intact(buf), v, S)
  BY <1>2 DEF Picks
<1>7. Takes(t, v, h)
  BY <1>3 DEF Takes
<1> QED
  BY <1>4, <1>5, <1>6, <1>7, PickedLeft, Zenon

Shifted(b, d, buf) ==
  \A i : StartsAt(b, i) => StartsAt(buf, i + d) /\ PayloadAt(buf, i + d) = PayloadAt(b, i)

\* Without its first d tokens a buffer still has the frames that start behind those
LEMMA StartsBehind ==
  ASSUME NEW buf \in Seq(Tokens), NEW d \in 0 .. Len(buf), NEW b, b = SubSeq(buf, d + 1, Len(buf))
  PROVE  /\ b \in Seq(Tokens) /\ Len(b) = Len(buf) - d
         /\ \A i \in 1 .. Len(b) : b[i] = buf[i + d]
         /\ Shifted(b, d, buf)
<1>1. Len(buf) \in Nat /\ b \in Seq(Tokens) /\ Len(b) = Len(buf) - d
      /\ \A i \in 1 .. Len(b) : b[i] = buf[i + d] /\ i + d \in 1 .. Len(buf)
  OBVIOUS
<1>2. ASSUME NEW i, StartsAt(b, i)
      PROVE  StartsAt(buf, i + d) /\ PayloadAt(buf, i + d) = PayloadAt(b, i)
  <2>1. i \in 1 .. Len(b) /\ b[i] = Magic /\ Len(b) >= i + 3 /\ b[i + 1][1] = "S"
        /\ Len(b) >= i + 2 + b[i + 1][2] /\ b[i + 2 + b[i + 1][2]] = Crc(PayloadAt(b, i))
    BY <1>2 DEF StartsAt
  <2>2. i + 1 \in 1 .. Len(b) /\ b[i + 1] \in Tokens
    BY <1>1, <2>1
  <2>3. b[i + 1][2] \in 0 .. 3
    BY <2>1, <2>2, TokenKinds
  <2> DEFINE n == b[i + 1][2]
  <2>4. n \in 0 .. 3
    BY <2>3
  <2>5. b[i] = buf[i + d] /\ b[i + 1] = buf[i + 1 + d] /\ i + d + 1 = i + 1 + d
    BY <1>1, <2>1, <2>2
  <2>6. buf[i + d + 1][2] = n
    BY <2>5
  <2>20. /\ i \in Nat /\ d \in Nat /\ Len(b) \in Nat /\ Len(buf) = Len(b) + d /\ i >= 1
         /\ i + 3 <= Len(b) /\ i + 2 + n <= Len(b)
    <3> DEFINE l == Len(b)  k == Len(buf)
    <3>1. l \in Nat /\ k \in Nat /\ l = k - d /\ d \in 0 .. k
      BY <1>1
    <3>2. i \in 1 .. l /\ l >= i + 3 /\ l >= i + 2 + n
      BY <2>1
    <3> HIDE DEF l, k, n
    <3>3. /\ i \in Nat /\ d \in Nat /\ l \in Nat /\ k = l + d /\ i >= 1
          /\ i + 3 <= l /\ i + 2 + n <= l
      BY <2>4, <3>1, <3>2
    <3> QED
      BY <3>3 DEF l, k
  <2> HIDE DEF n
  <2>7. i + 2 + n \in 1 .. Len(b) /\ b[i + 2 + n] = buf[i + d + 2 + n]
    <3>1. i + 2 + n \in 1 .. Len(b) /\ i + 2 + n + d = i + d + 2 + n
      BY <2>4, <2>20
    <3> QED
      BY <1>1, <3>1
  <2>8. SubSeq(b, i + 2, i + 1 + n) = SubSeq(buf, i + d + 2, i + d + 1 + n)
    <3> DEFINE x == SubSeq(b, i + 2, i + 1 + n)  y == SubSeq(buf, i + d + 2, i + d + 1 + n)
    <3>1. x \in Seq(Tokens) /\ Len(x) = n /\ \A k \in 1 .. n : x[k] = b[i + 1 + k]
      <4>1. b \in Seq(Tokens)
        BY <1>1
      <4>2. i + 2 \in Int /\ i + 1 + n \in Int /\ i + 2 >= 1 /\ i + 1 + n <= Len(b)
            /\ i + 1 + n >= (i + 2) - 1 /\ (i + 1 + n) - (i + 2) + 1 = n
            /\ \A k \in 1 .. n : (i + 2) - 1 + k = i + 1 + k
        BY <2>4, <2>20
      <4> HIDE DEF x
      <4>3. SubSeq(b, i + 2, i + 1 + n) \in Seq(Tokens) /\ Len(SubSeq(b, i + 2, i + 1 + n)) = n
            /\ \A k \in 1 .. n : SubSeq(b, i + 2, i + 1 + n)[k] = b[(i + 2) - 1 + k]
        BY <4>1, <4>2, SubSeqIs, SMTT(60)
      <4> QED
        BY <4>2, <4>3 DEF x
    <3>2. y \in Seq(Tokens) /\ Len(y) = n /\ \A k \in 1 .. n : y[k] = buf[i + d + 1 + k]
      <4>1. i + d + 2 \in Int /\ i + d + 1 + n \in Int /\ i + d + 2 >= 1
            /\ i + d + 1 + n <= Len(buf) /\ i + d + 1 + n >= (i + d + 2) - 1
            /\ (i + d + 1 + n) - (i + d + 2) + 1 = n
            /\ \A k \in 1 .. n : (i + d + 2) - 1 + k = i + d + 1 + k
        BY <2>4, <2>20
      <4> HIDE DEF y
      <4>2. SubSeq(buf, i + d + 2, i + d + 1 + n) \in Seq(Tokens)
            /\ Len(SubSeq(buf, i + d + 2, i + d + 1 + n)) = n
            /\ \A k \in 1 .. n : SubSeq(buf, i + d + 2, i + d + 1 + n)[k] = buf[(i + d + 2) - 1 + k]
        BY <4>1, SubSeqIs, SMTT(60)
      <4> QED
        BY <4>1, <4>2 DEF y
    <3>3. \A k \in 1 .. n : b[i + 1 + k] = buf[i + d + 1 + k]
      <4> TAKE k \in 1 .. n
      <4>1. i + 1 + k \in 1 .. Len(b) /\ i + 1 + k + d = i + d + 1 + k
        BY <2>4, <2>20
      <4> QED
        BY <1>1, <4>1
    <3> HIDE DEF x, y
    <3>4. x = y
      BY <3>1, <3>2, <3>3, SeqSame
    <3> QED
      BY <3>4 DEF x, y
  <2>9. PayloadAt(b, i) = SubSeq(b, i + 2, i + 1 + n) /\ PayloadAt(buf, i + d) = SubSeq(buf, i + d + 2, i + d + 1 + n)
    BY <2>6 DEF PayloadAt, n
  <2>10. i + d \in 1 .. Len(buf) /\ Len(buf) >= i + d + 3 /\ Len(buf) >= i + d + 2 + n
    BY <2>4, <2>20
  <2>11. buf[i + d] = Magic /\ buf[i + d + 1][1] = "S"
    BY <2>1, <2>5
  <2>12. buf[i + d + 2 + n] = Crc(PayloadAt(buf, i + d))
    BY <2>1, <2>7, <2>8, <2>9 DEF n
  <2> QED
    BY <2>6, <2>8, <2>9, <2>10, <2>11, <2>12 DEF StartsAt
<1> QED
  BY <1>1, <1>2 DEF Shifted

LEMMA FramedBehind ==
  ASSUME NEW buf \in Seq(Tokens), WellFramed(buf), NEW d \in 0 .. Len(buf)
  PROVE  WellFramed(SubSeq(buf, d + 1, Len(buf)))
<1> DEFINE b == SubSeq(buf, d + 1, Len(buf))
<1>1. Len(buf) \in Nat /\ b \in Seq(Tokens) /\ Len(b) = Len(buf) - d
      /\ \A i \in 1 .. Len(b) : b[i] = buf[i + d] /\ i + d \in 1 .. Len(buf)
  OBVIOUS
<1> HIDE DEF b
<1>2. ASSUME NEW j \in 1 .. Len(b), b[j][1] = "C"
      PROVE  ChecksumAt(b, j, b[j][2])
  <2> DEFINE p == b[j][2]
  <2>1. j + d \in 1 .. Len(buf) /\ b[j] = buf[j + d] /\ buf[j + d][1] = "C"
    BY <1>1, <1>2
  <2>2. b[j] \in Tokens
    BY <1>1
  <2>3. p \in AllPayloads
    BY <1>2, <2>2, TokenKinds
  <2>4. Len(p) \in 1 .. 2
    BY <2>3, PayloadParts
  <2>5. ChecksumAt(buf, j + d, p)
    BY <1>2, <2>1 DEF WellFramed
  <2> HIDE DEF p
  <2>6. ASSUME NEW i \in 1 .. Len(p), j - i >= 1 PROVE b[j - i] = p[Len(p) + 1 - i]
    <3>1. j - i \in 1 .. Len(b) /\ (j - i) + d = (j + d) - i /\ (j + d) - i >= 1
      BY <1>1, <2>4, <2>6
    <3> QED
      BY <1>1, <2>5, <3>1 DEF ChecksumAt
  <2>7. ASSUME j - Len(p) - 1 >= 1 PROVE b[j - Len(p) - 1][1] = "S"
    <3>1. j - Len(p) - 1 \in 1 .. Len(b) /\ (j - Len(p) - 1) + d = (j + d) - Len(p) - 1
          /\ (j + d) - Len(p) - 1 >= 1
      BY <1>1, <2>4, <2>7
    <3> QED
      BY <1>1, <2>5, <3>1 DEF ChecksumAt
  <2> QED
    BY <2>6, <2>7 DEF ChecksumAt, p
<1> QED
  BY <1>2 DEF WellFramed, b

LEMMA SuffixLeft ==
  ASSUME NEW buf \in Seq(Tokens), NEW d \in 0 .. Len(buf), NEW b, b = SubSeq(buf, d + 1, Len(buf))
  PROVE  Left(Intact(b), Intact(buf))
<1>0. b \in Seq(Tokens)
  BY StartsBehind
<1>1. \A i : StartsAt(b, i) => StartsAt(buf, i + d) /\ PayloadAt(buf, i + d) = PayloadAt(b, i)
  <2>1. Shifted(b, d, buf)
    BY StartsBehind
  <2> QED
    BY <2>1 DEF Shifted
<1> DEFINE m == Cardinality(Starts(b))
           at == Sorted(Starts(b))
           h == [k \in 1 .. m |-> at[k] + d]
<1>2. m \in Nat /\ Lists(at, Starts(b), m) /\ Intact(b) \in Seq(Seq(Tokens)) /\ Len(Intact(b)) = m
      /\ Intact(b) = [k \in 1 .. m |-> [i \in Starts(b) |-> PayloadAt(b, i)][at[k]]]
  BY <1>0, IntactIs
<1>3. Starts(b) \subseteq Nat /\ (\A i : i \in Starts(b) <=> StartsAt(b, i))
      /\ \A i : i \in Starts(buf) <=> StartsAt(buf, i)
  BY <1>0, StartsAre
<1> HIDE DEF m, at
<1>4. \A k \in 1 .. m : at[k] \in Starts(b) /\ at[k] \in Nat
  BY <1>2, <1>3 DEF Lists
<1>5. \A k \in 1 .. m : h[k] \in Starts(buf) /\ Intact(b)[k] = PayloadAt(buf, h[k])
  BY <1>1, <1>2, <1>3, <1>4
<1>6. Rises(h, m, Starts(buf))
  <2>1. h \in [1 .. m -> Starts(buf)]
    BY <1>5
  <2>2. \A i, j \in 1 .. m : i < j => h[i] < h[j]
    <3>1. \A i, j \in 1 .. m : i < j => at[i] < at[j]
      BY <1>2 DEF Lists
    <3>2. d \in Nat
      OBVIOUS
    <3> QED
      BY <1>4, <3>1, <3>2
  <2> HIDE DEF h
  <2> QED
    BY <1>2, <2>1, <2>2 DEF Rises
<1> HIDE DEF h
<1> QED
  BY <1>2, <1>5, <1>6, FoundLeft

\* A frame, or as much of it as there is room for, is put into a buffer
LEMMA Arrives ==
  ASSUME NEW buf \in Seq(Tokens), WellFramed(buf), NEW p \in AllPayloads, NEW f, FrameOf(f, p),
         NEW r \in 0 .. Len(f), NEW c, c = buf \o SubSeq(f, 1, r)
  PROVE  /\ c \in Seq(Tokens) /\ Len(c) = Len(buf) + r /\ WellFramed(c)
         /\ Left(Intact(c), Intact(buf) \o <<p>>)
<1> DEFINE L == Len(buf)
           g == SubSeq(f, 1, r)
<1>1. /\ f \in Seq(Tokens) /\ Len(f) = Len(p) + 3 /\ f[2][1] = "S"
      /\ \A j \in 1 .. Len(f) : f[j][1] = "C" => j = Len(f) /\ f[j] = Crc(p)
      /\ \A i \in 1 .. Len(p) : f[2 + i] = p[i]
  BY DEF FrameOf
<1>0. Len(f) = Len(p) + 3
  BY DEF FrameOf
<1>2. p \in Seq(DataTokens) /\ Len(p) \in 1 .. 2 /\ L \in Nat /\ Len(f) \in 4 .. 5 /\ r \in 0 .. Len(p) + 3
      /\ r \in Nat
  <2>1. p \in Seq(DataTokens) /\ Len(p) \in 1 .. 2
    BY PayloadParts
  <2>2. L \in Nat
    OBVIOUS
  <2>3. Len(f) \in 4 .. 5 /\ r \in 0 .. Len(p) + 3 /\ r \in Nat
    <3> DEFINE n == Len(p)  k == Len(f)
    <3>1. n \in 1 .. 2 /\ k = n + 3 /\ r \in 0 .. k
      BY <1>0, <2>1
    <3> HIDE DEF n, k
    <3>2. k \in 4 .. 5 /\ r \in 0 .. n + 3 /\ r \in Nat
      BY <3>1
    <3> QED
      BY <3>2 DEF n, k
  <2> QED
    BY <2>1, <2>2, <2>3
<1>3. g \in Seq(Tokens) /\ Len(g) = r /\ \A k \in 1 .. r : g[k] = f[k]
  BY <1>1, <1>2
<1> HIDE DEF g
<1>4. c = buf \o g
  BY DEF g
<1>5. c \in Seq(Tokens) /\ Len(c) = L + r
  BY <1>2, <1>3, <1>4
<1>6. /\ \A j \in 1 .. L : c[j] = buf[j]
      /\ \A k \in 1 .. r : c[L + k] = f[k]
  BY <1>2, <1>3, <1>4
<1> HIDE DEF L
<1>7. ASSUME NEW j \in 1 .. L + r, c[j][1] = "C" PROVE ChecksumAt(c, j, c[j][2])
  <2>1. CASE j \in 1 .. L
    <3> DEFINE q == buf[j][2]
    <3>1. c[j] = buf[j] /\ ChecksumAt(buf, j, q)
      BY <1>6, <1>7, <2>1 DEF WellFramed, L
    <3>2. buf[j] \in Tokens /\ buf[j][1] = "C"
      BY <1>7, <2>1, <3>1 DEF L
    <3>3. q \in AllPayloads
      BY <3>2, TokenKinds
    <3>4. Len(q) \in 1 .. 2
      BY <3>3, PayloadParts
    <3> HIDE DEF q
    <3>5. ASSUME NEW i \in 1 .. Len(q), j - i >= 1 PROVE c[j - i] = q[Len(q) + 1 - i]
      <4>1. j - i \in 1 .. L
        BY <1>2, <2>1, <3>4, <3>5
      <4> QED
        BY <1>6, <3>1, <3>5, <4>1 DEF ChecksumAt
    <3>6. ASSUME j - Len(q) - 1 >= 1 PROVE c[j - Len(q) - 1][1] = "S"
      <4>1. j - Len(q) - 1 \in 1 .. L
        BY <1>2, <2>1, <3>4, <3>6
      <4> QED
        BY <1>6, <3>1, <3>6, <4>1 DEF ChecksumAt
    <3>7. c[j][2] = q
      BY <3>1 DEF q
    <3> QED
      BY <3>5, <3>6, <3>7 DEF ChecksumAt
  <2>2. CASE j > L
    <3>1. j - L \in 1 .. r /\ j - L \in 1 .. Len(f) /\ L + (j - L) = j
      BY <1>1, <1>2, <2>2
    <3>2. c[j] = f[j - L]
      BY <1>6, <3>1
    <3>3. j - L = Len(f) /\ c[j] = Crc(p)
      BY <1>1, <1>7, <3>1, <3>2
    <3>4. c[j][2] = p
      BY <3>3, TokenParts
    <3>5. r = Len(p) + 3 /\ j = L + Len(p) + 3
      BY <1>1, <1>2, <3>1, <3>3
    <3>6. ASSUME NEW i \in 1 .. Len(p) PROVE c[j - i] = p[Len(p) + 1 - i]
      <4>1. Len(p) + 1 - i \in 1 .. Len(p) /\ 2 + (Len(p) + 1 - i) \in 1 .. r
            /\ j - i = L + (2 + (Len(p) + 1 - i))
        BY <1>2, <3>5
      <4> QED
        BY <1>1, <1>6, <4>1
    <3>7. c[j - Len(p) - 1][1] = "S"
      <4>1. 2 \in 1 .. r /\ j - Len(p) - 1 = L + 2
        BY <1>2, <3>5
      <4> QED
        BY <1>1, <1>6, <4>1
    <3> QED
      BY <3>4, <3>6, <3>7 DEF ChecksumAt
  <2>3. j \in 1 .. L \/ j > L
    BY <1>2
  <2> QED
    BY <2>1, <2>2, <2>3
<1>8. WellFramed(c)
  BY <1>5, <1>7 DEF WellFramed
<1>9. ASSUME NEW i, StartsAt(c, i)
      PROVE  \/ StartsAt(buf, i) /\ PayloadAt(buf, i) = PayloadAt(c, i)
             \/ i = L + 1 /\ PayloadAt(c, i) = p
  <2> DEFINE n == c[i + 1][2]
             q == PayloadAt(c, i)
  <2>1. i \in 1 .. L + r /\ c[i] = Magic /\ i + 3 <= L + r /\ c[i + 1][1] = "S"
        /\ i + 2 + n <= L + r /\ c[i + 2 + n] = Crc(q)
    BY <1>2, <1>5, <1>9 DEF StartsAt
  <2>0. i \in Nat /\ i >= 1 /\ i + 3 <= L + r
    BY <1>2, <2>1
  <2>2. i + 1 \in 1 .. L + r /\ c[i + 1] \in Tokens
    <3>1. i + 1 \in 1 .. L + r
      BY <1>2, <2>0
    <3> QED
      BY <1>5, <3>1
  <2>3. n \in 0 .. 3
    BY <2>1, <2>2, TokenKinds
  <2>4. q = SubSeq(c, i + 2, i + 1 + n)
    BY DEF PayloadAt
  <2> HIDE DEF n
  <2>5. /\ i + 2 \in Int /\ i + 1 + n \in Int /\ i + 2 >= 1 /\ i + 1 + n <= Len(c)
        /\ i + 1 + n >= (i + 2) - 1 /\ (i + 1 + n) - (i + 2) + 1 = n
        /\ \A k \in 1 .. n : (i + 2) - 1 + k = i + 1 + k
    <3>1. Len(c) = L + r
      BY <1>5
    <3>2. i + 2 + n <= L + r
      BY <2>1 DEF n
    <3> QED
      BY <1>2, <2>0, <2>3, <3>1, <3>2
  <2>6. q \in Seq(Tokens) /\ Len(q) = n /\ \A k \in 1 .. n : q[k] = c[i + 1 + k]
    <3>1. SubSeq(c, i + 2, i + 1 + n) \in Seq(Tokens) /\ Len(SubSeq(c, i + 2, i + 1 + n)) = n
          /\ \A k \in 1 .. n : SubSeq(c, i + 2, i + 1 + n)[k] = c[(i + 2) - 1 + k]
      <4>1. c \in Seq(Tokens)
        BY <1>5
      <4> DEFINE a == i + 2  z == i + 1 + n
      <4>2. a \in Int /\ z \in Int /\ a >= 1 /\ z <= Len(c) /\ z >= a - 1 /\ z - a + 1 = n
        BY <2>5
      <4> HIDE DEF q, a, z
      <4>3. SubSeq(c, a, z) \in Seq(Tokens) /\ Len(SubSeq(c, a, z)) = z - a + 1
            /\ \A k \in 1 .. z - a + 1 : SubSeq(c, a, z)[k] = c[a - 1 + k]
        BY <4>1, <4>2, SubSeqIs, SMTT(60)
      <4> QED
        BY <4>2, <4>3 DEF a, z
    <3> QED
      BY <2>4, <2>5, <3>1
  <2> HIDE DEF q
  <2>7. i + 2 + n \in 1 .. L + r /\ i \in Nat
    <3>1. i + 2 + n <= L + r
      BY <2>1 DEF n
    <3> QED
      BY <1>2, <2>0, <2>3, <3>1
  <2>8. CASE i + 2 + n <= L
    <3>2. Crc(q)[1] = "C" /\ Crc(q)[2] = q
      BY TokenParts
    <3>3. c[i + 2 + n] \in Tokens
      BY <1>5, <2>7
    <3>4. q \in AllPayloads
      BY <2>1, <3>2, <3>3, TokenKinds
    <3>5. n \in 1 .. 2
      BY <2>6, <3>4, PayloadParts
    <3>6. i + 2 + n \in 1 .. L /\ i \in 1 .. L /\ i + 1 \in 1 .. L /\ i + 3 <= L
      BY <1>2, <2>0, <2>8, <3>5
    <3>7. buf[i + 1][2] = n /\ buf[i] = Magic /\ buf[i + 1][1] = "S" /\ buf[i + 2 + n] = Crc(q)
      BY <1>6, <2>1, <3>6 DEF n
    <3>8. SubSeq(buf, i + 2, i + 1 + n) = q
      <4>1. i + 1 + n <= Len(buf)
        BY <1>2, <2>7, <2>8, <3>5 DEF L
      <4>2. SubSeq(buf, i + 2, i + 1 + n) \in Seq(Tokens) /\ Len(SubSeq(buf, i + 2, i + 1 + n)) = n
            /\ \A k \in 1 .. n : SubSeq(buf, i + 2, i + 1 + n)[k] = buf[(i + 2) - 1 + k]
        BY <2>5, <4>1, SubSeqIs
      <4>3. \A k \in 1 .. n : buf[i + 1 + k] = c[i + 1 + k]
        <5> TAKE k \in 1 .. n
        <5>1. i + 1 + k \in 1 .. L
          BY <1>2, <2>7, <2>8, <3>5
        <5> QED
          BY <1>6, <5>1
      <4>4. \A k \in 1 .. n : SubSeq(buf, i + 2, i + 1 + n)[k] = q[k]
        <5> TAKE k \in 1 .. n
        <5>1. (i + 2) - 1 + k = i + 1 + k
          BY <2>5
        <5>2. SubSeq(buf, i + 2, i + 1 + n)[k] = buf[i + 1 + k]
          BY <4>2, <5>1
        <5>3. q[k] = c[i + 1 + k]
          BY <2>6
        <5> QED
          BY <4>3, <5>2, <5>3
      <4> QED
        BY <2>6, <4>2, <4>4, SeqSame
    <3>9. PayloadAt(buf, i) = q
      BY <3>7, <3>8 DEF PayloadAt
    <3>10. StartsAt(buf, i)
      BY <2>8, <3>6, <3>7, <3>9 DEF StartsAt, L
    <3> QED
      BY <3>9, <3>10 DEF q
  <2>9. CASE i + 2 + n > L
    <3> DEFINE k == i + 2 + n - L
    <3>1. k \in 1 .. r /\ k \in 1 .. Len(f) /\ L + k = i + 2 + n
      BY <1>1, <1>2, <2>7, <2>9, <2>3, SMTT(60)
    <3> HIDE DEF k
    <3>2. f[k] = Crc(q)
      BY <1>6, <2>1, <3>1
    <3>3. k = Len(f) /\ f[k] = Crc(p)
      BY <1>1, <3>1, <3>2, TokenParts
    <3>4. p = q
      BY <3>2, <3>3, TokenParts
    <3>5. i = L + 1
      BY <1>1, <1>2, <2>6, <2>7, <2>3, <3>1, <3>3, <3>4
    <3> QED
      BY <3>4, <3>5 DEF q
  <2> QED
    BY <1>2, <2>7, <2>8, <2>9
<1> DEFINE m == Cardinality(Starts(c))
           at == Sorted(Starts(c))
<1>10. m \in Nat /\ Lists(at, Starts(c), m) /\ Intact(c) \in Seq(Seq(Tokens)) /\ Len(Intact(c)) = m
       /\ Intact(c) = [k \in 1 .. m |-> [i \in Starts(c) |-> PayloadAt(c, i)][at[k]]]
  BY <1>5, IntactIs
<1>11. Starts(c) \subseteq Nat /\ (\A i : i \in Starts(c) <=> StartsAt(c, i))
       /\ \A i : i \in Starts(buf) <=> StartsAt(buf, i)
  BY <1>5, StartsAre
<1>12. \A i \in Starts(c) : i = L + 1 \/ (i \in Starts(buf) /\ i <= L)
  <2> TAKE i \in Starts(c)
  <2>1. i = L + 1 \/ StartsAt(buf, i)
    BY <1>9, <1>11
  <2>2. StartsAt(buf, i) => i \in Starts(buf) /\ i <= L
    <3>1. StartsAt(buf, i) => i \in 1 .. L
      BY DEF StartsAt, L
    <3> QED
      BY <1>2, <1>11, <3>1
  <2> QED
    BY <2>1, <2>2
<1>13. Intact(buf) \in Seq(Seq(Tokens)) /\ <<p>> \in Seq(Seq(Tokens))
  <2>1. p \in Seq(Tokens)
    BY <1>2 DEF Tokens
  <2> QED
    BY <2>1, IntactIs
<1>14. ASSUME NEW k \in 1 .. m
       PROVE  at[k] \in Starts(c) /\ Intact(c)[k] = PayloadAt(c, at[k])
  <2>1. at[k] \in Starts(c)
    BY <1>10 DEF Lists
  <2> HIDE DEF m, at
  <2> QED
    BY <1>10, <2>1
<1> HIDE DEF m, at
<1>15. ASSUME NEW j \in 0 .. m, NEW t \in Seq(Seq(Tokens)), Len(t) = j,
              \A k \in 1 .. j : at[k] # L + 1 /\ t[k] = Intact(c)[k]
       PROVE  Left(t, Intact(buf))
  <2> DEFINE h == [k \in 1 .. j |-> at[k]]
  <2>1. \A k \in 1 .. j : h[k] \in Starts(buf) /\ t[k] = PayloadAt(buf, h[k])
    <3> TAKE k \in 1 .. j
    <3>1. k \in 1 .. m
      BY <1>10
    <3>2. at[k] \in Starts(c) /\ Intact(c)[k] = PayloadAt(c, at[k]) /\ StartsAt(c, at[k])
      BY <1>11, <1>14, <3>1
    <3>3. at[k] \in Starts(buf) /\ PayloadAt(buf, at[k]) = PayloadAt(c, at[k])
      BY <1>9, <1>11, <1>15, <3>2
    <3> QED
      BY <1>15, <3>2, <3>3
  <2>2. Rises(h, j, Starts(buf))
    <3>1. h \in [1 .. j -> Starts(buf)] /\ j \in Nat
      BY <1>10, <2>1
    <3>2. \A a, b \in 1 .. j : a < b => h[a] < h[b]
      BY <1>10 DEF Lists
    <3> HIDE DEF h
    <3> QED
      BY <3>1, <3>2 DEF Rises
  <2> HIDE DEF h
  <2> QED
    BY <1>15, <2>1, <2>2, FoundLeft
<1>16. CASE L + 1 \notin Starts(c)
  <2>1. \A k \in 1 .. m : at[k] # L + 1
    BY <1>14, <1>16
  <2>2. m \in 0 .. m
    BY <1>10
  <2>3. Left(Intact(c), Intact(buf))
    BY <1>10, <1>15, <2>1, <2>2
  <2>4. Left(Intact(buf), Intact(buf) \o <<p>>) /\ Intact(buf) \o <<p>> \in Seq(Seq(Tokens))
    <3> DEFINE x == Intact(buf)  y == <<p>>
    <3>1. x \in Seq(Seq(Tokens)) /\ y \in Seq(Seq(Tokens))
      BY <1>13
    <3> HIDE DEF x, y
    <3>2. Left(x, x \o y) /\ x \o y \in Seq(Seq(Tokens))
      BY <3>1, LeftPart
    <3> QED
      BY <3>2 DEF x, y
  <2>5. Left(Intact(c), Intact(buf) \o <<p>>)
    <3> DEFINE x == Intact(buf) \o <<p>>  y == Intact(buf)  z == Intact(c)
    <3>1. Left(z, y) /\ Left(y, x) /\ x \in Seq(Seq(Tokens)) /\ y \in Seq(Seq(Tokens))
          /\ z \in Seq(Seq(Tokens))
      BY <1>10, <1>13, <2>3, <2>4
    <3> HIDE DEF x, y, z
    <3>2. Left(z, x)
      BY <3>1, LeftTwice
    <3> QED
      BY <3>2 DEF x, z
  <2> QED
    BY <1>5, <1>8, <2>5 DEF L
<1>17. CASE L + 1 \in Starts(c)
  <2>1. /\ m \in Nat \ {0} /\ at[m] = L + 1
        /\ \A k \in 1 .. m - 1 : at[k] < L + 1
    <3>1. \A i \in Starts(c) : i <= L + 1
      BY <1>2, <1>11, <1>12
    <3> QED
      BY <1>11, <1>17, <3>1, SortedLast DEF m, at
  <2> DEFINE t == SubSeq(Intact(c), 1, m - 1)
  <2>2. t \in Seq(Seq(Tokens)) /\ Len(t) = m - 1 /\ \A k \in 1 .. m - 1 : t[k] = Intact(c)[k]
    BY <1>10, <2>1
  <2>3. Left(t, Intact(buf))
    <3> HIDE DEF t
    <3>1. m - 1 \in 0 .. m /\ \A k \in 1 .. m - 1 : at[k] # L + 1
      <4>1. \A k \in 1 .. m - 1 : k \in 1 .. m /\ at[k] \in Nat
        BY <1>11, <1>14, <2>1
      <4> QED
        BY <1>2, <2>1, <4>1
    <3> QED
      BY <1>15, <2>2, <3>1
  <2>4. Intact(c)[m] = p
    <3>1. m \in 1 .. m
      BY <2>1
    <3>2. Intact(c)[m] = PayloadAt(c, L + 1) /\ StartsAt(c, L + 1)
      BY <1>11, <1>14, <1>17, <2>1, <3>1
    <3>3. ~StartsAt(buf, L + 1)
      BY <1>2 DEF StartsAt, L
    <3> QED
      BY <1>9, <3>2, <3>3
  <2>5. Intact(c) = t \o <<p>>
    <3> HIDE DEF t
    <3>1. t \o <<p>> \in Seq(Seq(Tokens)) /\ Len(t \o <<p>>) = m
          /\ (t \o <<p>>)[m] = p /\ \A k \in 1 .. m - 1 : (t \o <<p>>)[k] = t[k]
      <4> DEFINE y == <<p>>
      <4>1. y \in Seq(Seq(Tokens)) /\ Len(y) = 1 /\ y[1] = p
        BY <1>13
      <4> HIDE DEF y
      <4>2. t \o y \in Seq(Seq(Tokens)) /\ Len(t \o y) = Len(t) + 1 /\ (t \o y)[Len(t) + 1] = y[1]
            /\ \A k \in 1 .. Len(t) : (t \o y)[k] = t[k]
        <5>1. 1 \in 1 .. Len(y)
          BY <4>1
        <5>2. t \o y \in Seq(Seq(Tokens)) /\ Len(t \o y) = Len(t) + Len(y)
              /\ (\A k \in 1 .. Len(t) : (t \o y)[k] = t[k])
              /\ \A k \in 1 .. Len(y) : (t \o y)[Len(t) + k] = y[k]
          <6>1. t \in Seq(Seq(Tokens)) /\ y \in Seq(Seq(Tokens))
            BY <2>2, <4>1
          <6> QED
            BY <6>1, JoinIs
        <5> QED
          BY <4>1, <5>1, <5>2
      <4>3. Len(t) = m - 1 /\ Len(t) + 1 = m
        BY <2>1, <2>2
      <4> QED
        BY <4>1, <4>2, <4>3 DEF y
    <3>2. \A k \in 1 .. m : k = m \/ k \in 1 .. m - 1
      BY <2>1
    <3>3. \A k \in 1 .. m : Intact(c)[k] = (t \o <<p>>)[k]
      BY <2>2, <2>4, <3>1, <3>2
    <3> QED
      BY <1>10, <3>1, <3>3, SeqSame
  <2>6. Left(<<p>>, <<p>>)
    BY <1>13, LeftSame
  <2>7. Left(t \o <<p>>, Intact(buf) \o <<p>>)
    <3> DEFINE x == Intact(buf)  y == <<p>>
    <3>1. x \in Seq(Seq(Tokens)) /\ y \in Seq(Seq(Tokens)) /\ Left(y, y) /\ Left(t, x)
      BY <1>13, <2>3, <2>6
    <3> HIDE DEF x, y, t
    <3>2. Left(t \o y, x \o y)
      BY <2>2, <3>1, LeftJoined
    <3> QED
      BY <3>2 DEF x, y
  <2> HIDE DEF t
  <2> QED
    BY <1>5, <1>8, <2>5, <2>7 DEF L
<1> QED
  BY <1>16, <1>17 DEF L

\* Where reading resumes: at a prefix, or where there is too little for a frame
LEMMA ResyncedIs ==
  ASSUME NEW buf \in Seq(Tokens)
  PROVE  \E d \in 0 .. Len(buf) : /\ Resynced(buf) = SubSeq(buf, d + 1, Len(buf))
                                  /\ Len(buf) - d <= 3 \/ buf[d + 1] = Magic
<1> DEFINE L == Len(buf)
           stops == {k \in 0 .. L : L - k <= Extra \/ buf[k + 1] = Magic}
           d == CHOOSE k \in stops : \A j \in stops : k <= j
<1>1. L \in Nat
  OBVIOUS
<1>2. stops \subseteq Nat /\ L \in stops
  BY <1>1, Sizes
<1>3. d \in stops
  <2>1. \E k \in stops : \A j \in stops : k <= j
    <3> HIDE DEF stops
    <3> QED
      BY <1>2, Least
  <2> QED
    BY <2>1
<1>4. Resynced(buf) = SubSeq(buf, 1 + d, L)
  BY DEF Resynced
<1>5. d \in 0 .. L /\ (L - d <= 3 \/ buf[d + 1] = Magic)
  <2> HIDE DEF d
  <2> QED
    BY <1>3, Sizes
<1> HIDE DEF d
<1>6. 1 + d = d + 1
  BY <1>1, <1>5
<1> QED
  BY <1>4, <1>5, <1>6

\* What is read out of a buffer was intact in it, and came first
LEMMA ItemsLeft ==
  ASSUME NEW buf \in Seq(Tokens), WellFramed(buf), NEW item \in Items(buf)
  PROVE  /\ item[1] \in Seq(Tokens) /\ WellFramed(item[1]) /\ Len(item[1]) <= Len(buf)
         /\ item[2] \in Seq(Seq(Tokens))
         /\ Left(item[2] \o Intact(item[1]), Intact(buf))
<1> DEFINE b == Resynced(buf)
           P == Seq(Tokens)
<1>1. PICK d \in 0 .. Len(buf) : /\ b = SubSeq(buf, d + 1, Len(buf))
                                 /\ Len(buf) - d <= 3 \/ buf[d + 1] = Magic
  BY ResyncedIs
<1>2. b \in Seq(Tokens) /\ Len(b) = Len(buf) - d /\ WellFramed(b)
      /\ \A i \in 1 .. Len(b) : b[i] = buf[i + d]
  <2> HIDE DEF b
  <2>1. b = SubSeq(buf, d + 1, Len(buf))
    BY <1>1
  <2>2. b \in Seq(Tokens)
    BY <2>1, StartsBehind
  <2>3. Len(b) = Len(buf) - d
    BY <2>1, StartsBehind
  <2>4. WellFramed(b)
    BY <2>1, FramedBehind, Zenon
  <2>5. \A i \in 1 .. Len(b) : b[i] = buf[i + d]
    BY <2>1, StartsBehind
  <2> QED
    BY <2>2, <2>3, <2>4, <2>5
<1>3. Left(Intact(b), Intact(buf))
  <2> HIDE DEF b
  <2> QED
    BY <1>1, SuffixLeft
<1>4. Len(buf) \in Nat /\ d \in Nat /\ Len(b) \in Nat /\ Len(b) <= Len(buf)
  BY <1>1, <1>2
<1>5. Len(b) <= 3 \/ b[1] = Magic
  <2> HIDE DEF b
  <2>1. CASE Len(b) > 3
    <3>1. 1 \in 1 .. Len(b) /\ 1 + d = d + 1
      BY <1>4, <2>1
    <3> QED
      BY <1>1, <1>2, <2>1, <3>1
  <2> QED
    BY <1>4, <2>1
<1>6. Intact(buf) \in Seq(P) /\ Intact(b) \in Seq(P)
  BY <1>2, IntactIs
<1>7. CASE item = <<b, <<>>>>
  <2>1. item[1] = b /\ item[2] = <<>> /\ <<>> \in Seq(P)
    BY <1>7
  <2>2. <<>> \o Intact(b) = Intact(b)
    BY <1>6
  <2> QED
    BY <1>2, <1>3, <1>4, <2>1, <2>2
<1>8. ASSUME item # <<b, <<>>>>
      PROVE  \E n \in SizesIn(b[2]) :
               /\ Len(b) > Extra /\ ~(n > MaxPayload \/ Len(b) < n + Extra)
               /\ item = <<ReadOut(b, n),
                           IF Checked(SubSeq(b, 3, 2 + n), b[n + Extra])
                           THEN <<SubSeq(b, 3, 2 + n)>> ELSE <<>>>>
  <2> HIDE DEF b
  <2>1. item \in (LET Read(n) ==
                        LET payload == SubSeq(b, 3, 2 + n)
                        IN IF n > MaxPayload \/ Len(b) < n + Extra THEN <<b, <<>>>>
                           ELSE <<ReadOut(b, n), IF Checked(payload, b[n + Extra]) THEN <<payload>> ELSE <<>>>>
                  IN IF Len(b) <= Extra THEN {<<b, <<>>>>} ELSE {Read(n) : n \in SizesIn(b[2])})
    BY DEF Items, b
  <2>2. ~(Len(b) <= Extra)
    BY <1>8, <2>1
  <2>3. Len(b) > Extra
    BY <1>4, <2>2, Sizes
  <2> QED
    BY <1>8, <2>1, <2>2, <2>3
<1>9. CASE item # <<b, <<>>>>
  <2>1. PICK n \in SizesIn(b[2]) :
               /\ Len(b) > Extra /\ ~(n > MaxPayload \/ Len(b) < n + Extra)
               /\ item = <<ReadOut(b, n),
                           IF Checked(SubSeq(b, 3, 2 + n), b[n + Extra])
                           THEN <<SubSeq(b, 3, 2 + n)>> ELSE <<>>>>
    BY <1>8, <1>9
  <2>2. b[2] \in Tokens
    <3>1. 2 \in 1 .. Len(b)
      BY <1>4, <2>1, Sizes
    <3> QED
      BY <1>2, <3>1
  <2>3. n \in 0 .. 3 /\ (b[2][1] = "S" => n = b[2][2])
    BY <2>1, <2>2, TokenKinds, Sizes DEF SizesIn
  <2> HIDE DEF b
  <2>4. n \in 0 .. 2 /\ Len(b) >= n + 3 /\ Len(b) > 3
    <3>1. Len(b) > 3 /\ ~(n > 2 \/ Len(b) < n + 3)
      BY <2>1, Sizes
    <3> QED
      BY <1>4, <2>3, <3>1
  <2> DEFINE q == SubSeq(b, 3, 2 + n)
             rest == SubSeq(b, (n + 3) + 1, Len(b))
  <2>5. item[1] = rest
    <3>1. ReadOut(b, n) = rest
      BY <2>4, Sizes DEF ReadOut
    <3> QED
      BY <2>1, <3>1
  <2>6. n + 3 \in 0 .. Len(b)
    BY <1>4, <2>4
  <2>7. rest \in Seq(Tokens) /\ Len(rest) = Len(b) - (n + 3) /\ WellFramed(rest)
        /\ \A i : StartsAt(rest, i) => StartsAt(b, i + (n + 3)) /\ PayloadAt(b, i + (n + 3)) = PayloadAt(rest, i)
    <3>1. Shifted(rest, n + 3, b) /\ rest \in Seq(Tokens) /\ Len(rest) = Len(b) - (n + 3) /\ WellFramed(rest)
      <4> DEFINE z == n + 3
      <4>1. z \in 0 .. Len(b) /\ b \in Seq(Tokens) /\ WellFramed(b)
        BY <1>2, <2>6
      <4> DEFINE y == SubSeq(b, z + 1, Len(b))
      <4> HIDE DEF z, y
      <4>2. y = SubSeq(b, z + 1, Len(b))
        BY DEF y
      <4>3. Shifted(y, z, b)
        BY <4>1, <4>2, StartsBehind
      <4>4. y \in Seq(Tokens)
        BY <4>1, <4>2, StartsBehind
      <4>5. Len(y) = Len(b) - z
        BY <4>1, <4>2, StartsBehind
      <4>6. WellFramed(y)
        BY <4>1, <4>2, FramedBehind, Zenon
      <4> QED
        BY <4>3, <4>4, <4>5, <4>6 DEF y, z
    <3> QED
      BY <3>1 DEF Shifted
  <2>8. Left(Intact(rest), Intact(b)) /\ Intact(rest) \in Seq(P)
    <3>1. Left(Intact(rest), Intact(b))
      BY <1>2, <2>6, SuffixLeft
    <3> QED
      BY <2>7, <3>1, IntactIs
  <2>9. Len(rest) <= Len(buf)
    <3> HIDE DEF rest
    <3> QED
      BY <1>4, <2>4, <2>7
  <2>10. CASE ~Checked(q, b[n + Extra])
    <3>1. item[2] = <<>> /\ <<>> \in Seq(P)
      BY <2>1, <2>10
    <3> HIDE DEF rest
    <3>2. <<>> \o Intact(rest) = Intact(rest)
      BY <2>8
    <3>3. Left(Intact(rest), Intact(buf))
      BY <1>3, <1>6, <2>8, LeftTwice
    <3> QED
      BY <2>5, <2>7, <2>9, <3>1, <3>2, <3>3
  <2>11. CASE Checked(q, b[n + Extra])
    <3>1. item[2] = <<q>>
      BY <2>1, <2>11
    <3>2. b[n + 3] = Crc(q)
      BY <2>11, Sizes DEF Checked
    <3>3. q \in Seq(Tokens) /\ Len(q) = n
      <4> DEFINE z == 2 + n
      <4>1. z \in Int /\ z <= Len(b) /\ z >= 3 - 1 /\ z - 3 + 1 = n
        BY <1>4, <2>4
      <4> HIDE DEF z
      <4>2. SubSeq(b, 3, z) \in Seq(Tokens) /\ Len(SubSeq(b, 3, z)) = z - 3 + 1
        BY <1>2, <4>1, SubSeqIs
      <4> QED
        BY <4>1, <4>2 DEF z
    <3> HIDE DEF q
    <3>4. n + 3 \in 1 .. Len(b) /\ b[n + 3] \in Tokens
      <4>1. n + 3 \in 1 .. Len(b)
        BY <1>4, <2>4
      <4> QED
        BY <1>2, <4>1
    <3>5. b[n + 3][1] = "C" /\ b[n + 3][2] = q
      BY <3>2, TokenParts
    <3>6. q \in AllPayloads
      BY <3>4, <3>5, TokenKinds
    <3>7. b[2][1] = "S"
      <4>1. ChecksumAt(b, n + 3, q)
        BY <1>2, <3>4, <3>5 DEF WellFramed
      <4>2. (n + 3) - Len(q) - 1 = 2
        BY <2>4, <3>3
      <4> QED
        BY <4>1, <4>2 DEF ChecksumAt
    <3>8. n = b[2][2]
      BY <2>3, <3>7
    <3>9. PayloadAt(b, 1) = q
      <4>1. 1 + 2 = 3 /\ 1 + 1 = 2 /\ 1 + 1 + n = 2 + n
        BY <2>4
      <4> QED
        BY <3>8, <4>1 DEF PayloadAt, q
    <3>10. StartsAt(b, 1)
      <4>1. 1 \in 1 .. Len(b) /\ Len(b) >= 1 + 3 /\ Len(b) >= 1 + 2 + n /\ 1 + 2 + n = n + 3 /\ 1 + 1 = 2
            /\ ~(Len(b) <= 3)
        BY <1>4, <2>4
      <4>2. b[1] = Magic
        BY <1>5, <4>1
      <4> QED
        BY <3>2, <3>7, <3>8, <3>9, <4>1, <4>2 DEF StartsAt
    <3> DEFINE m == Cardinality(Starts(rest))
               at == Sorted(Starts(rest))
               t == <<q>> \o Intact(rest)
               h == [k \in 1 .. m + 1 |-> IF k = 1 THEN 1 ELSE at[k - 1] + (n + 3)]
    <3> HIDE DEF rest
    <3>11. m \in Nat /\ Lists(at, Starts(rest), m) /\ Len(Intact(rest)) = m
          /\ Intact(rest) = [k \in 1 .. m |-> [i \in Starts(rest) |-> PayloadAt(rest, i)][at[k]]]
      BY <2>7, IntactIs
    <3>12. Starts(rest) \subseteq Nat /\ (\A i : i \in Starts(rest) <=> StartsAt(rest, i))
           /\ \A i : i \in Starts(b) <=> StartsAt(b, i)
      BY <1>2, <2>7, StartsAre
    <3> HIDE DEF m, at
    <3>13. \A k \in 1 .. m : at[k] \in Starts(rest) /\ at[k] \in Nat /\ at[k] >= 1
      <4>1. \A k \in 1 .. m : at[k] \in Starts(rest)
        BY <3>11 DEF Lists
      <4>2. \A i \in Starts(rest) : i \in Nat /\ i >= 1
        BY <3>12 DEF StartsAt
      <4> QED
        BY <4>1, <4>2
    <3>14. \A k \in 1 .. m : Intact(rest)[k] = PayloadAt(rest, at[k])
      BY <3>11, <3>13
    <3>15. t \in Seq(P) /\ Len(t) = m + 1 /\ t[1] = q /\ \A k \in 1 .. m : t[k + 1] = Intact(rest)[k]
      <4> DEFINE y == <<q>>  x == Intact(rest)
      <4>1. y \in Seq(P) /\ Len(y) = 1 /\ y[1] = q /\ x \in Seq(P) /\ Len(x) = m
        BY <2>8, <3>3, <3>11
      <4> HIDE DEF x, y, P
      <4>2. y \o x \in Seq(P) /\ Len(y \o x) = Len(y) + Len(x)
            /\ (\A k \in 1 .. Len(y) : (y \o x)[k] = y[k])
            /\ \A k \in 1 .. Len(x) : (y \o x)[Len(y) + k] = x[k]
        <5>1. x \in Seq(P) /\ y \in Seq(P)
          BY <4>1
        <5> QED
          BY <5>1, JoinIs
      <4>3. 1 \in 1 .. Len(y) /\ m \in Nat /\ \A k \in 1 .. m : Len(y) + k = k + 1
        BY <3>11, <4>1
      <4>4. y \o x \in Seq(P) /\ Len(y \o x) = m + 1 /\ (y \o x)[1] = q
            /\ \A k \in 1 .. m : (y \o x)[k + 1] = x[k]
        BY <4>1, <4>2, <4>3
      <4> QED
        BY <4>4 DEF x, y
    <3>16. \A k \in 1 .. m + 1 : h[k] \in Starts(b) /\ t[k] = PayloadAt(b, h[k])
      <4> HIDE DEF t
      <4> TAKE k \in 1 .. m + 1
      <4>1. CASE k = 1
        BY <3>9, <3>10, <3>11, <3>12, <3>15, <4>1
      <4>2. CASE k # 1
        <5>1. k - 1 \in 1 .. m /\ (k - 1) + 1 = k
          BY <3>11, <4>2
        <5>2. h[k] = at[k - 1] + (n + 3)
          BY <4>2
        <5>3. StartsAt(rest, at[k - 1])
          BY <3>12, <3>13, <5>1
        <5>4. StartsAt(b, h[k]) /\ PayloadAt(b, h[k]) = PayloadAt(rest, at[k - 1])
          BY <2>7, <5>2, <5>3
        <5>5. t[k] = PayloadAt(rest, at[k - 1])
          BY <3>14, <3>15, <5>1
        <5> QED
          BY <3>12, <5>4, <5>5
      <4> QED
        BY <4>1, <4>2
    <3>17. Rises(h, m + 1, Starts(b))
      <4>1. h \in [1 .. m + 1 -> Starts(b)] /\ m + 1 \in Nat
        <5>1. \A k \in 1 .. m + 1 : h[k] \in Starts(b)
          BY <3>16
        <5>2. m + 1 \in Nat
          BY <3>11
        <5> HIDE DEF t
        <5> QED
          BY <5>1, <5>2
      <4>2. ASSUME NEW i \in 1 .. m + 1, NEW j \in 1 .. m + 1, i < j PROVE h[i] < h[j]
        <5>1. j - 1 \in 1 .. m /\ h[j] = at[j - 1] + (n + 3)
          BY <3>11, <4>2
        <5>2. CASE i = 1
          <6>1. h[i] = 1 /\ at[j - 1] \in Nat /\ at[j - 1] >= 1
            BY <3>13, <5>1, <5>2
          <6> QED
            BY <2>4, <5>1, <6>1
        <5>3. CASE i # 1
          <6>1. i - 1 \in 1 .. m /\ h[i] = at[i - 1] + (n + 3) /\ i - 1 < j - 1
            BY <3>11, <4>2, <5>3
          <6>2. at[i - 1] < at[j - 1]
            BY <3>11, <5>1, <6>1 DEF Lists
          <6>3. at[i - 1] \in Nat /\ at[j - 1] \in Nat
            BY <3>13, <5>1, <6>1
          <6> HIDE DEF h
          <6> QED
            BY <2>4, <5>1, <6>1, <6>2, <6>3
        <5> QED
          BY <5>2, <5>3
      <4> HIDE DEF h
      <4> QED
        BY <4>1, <4>2 DEF Rises
    <3> HIDE DEF h
    <3>18. Left(t, Intact(b))
      <4> HIDE DEF t, P
      <4> QED
        BY <1>2, <3>15, <3>16, <3>17, FoundLeft
    <3>19. Left(t, Intact(buf))
      <4> HIDE DEF t, P
      <4> QED
        BY <1>3, <1>6, <3>15, <3>18, LeftTwice
    <3>20. item[2] \in Seq(P)
      BY <3>1, <3>3
    <3> QED
      BY <2>5, <2>7, <2>9, <3>1, <3>19, <3>20
  <2> QED
    BY <2>10, <2>11
<1> QED
  BY <1>7, <1>9
-----------------------------------------------------------------------------
(* Commands among what is under way *)

Places(s) == {i \in DOMAIN s : s[i] # Poll}

LEMMA CommandsAre ==
  ASSUME NEW X, NEW s \in Seq(X)
  PROVE  /\ Places(s) \subseteq Nat /\ Len(s) \in Nat /\ \A n \in Places(s) : n <= Len(s)
         /\ Cardinality(Places(s)) \in Nat
         /\ Lists(Sorted(Places(s)), Places(s), Cardinality(Places(s)))
         /\ Commands(s) \in Seq(X) /\ Len(Commands(s)) = Cardinality(Places(s))
         /\ Commands(s) = [k \in 1 .. Cardinality(Places(s)) |-> s[Sorted(Places(s))[k]]]
<1> DEFINE S == Places(s)
           c == Cardinality(S)
           at == Sorted(S)
<1>1. S \subseteq Nat /\ Len(s) \in Nat /\ (\A n \in S : n <= Len(s) /\ s[n] \in X)
  BY DEF Places
<1>2. Commands(s) = [k \in DOMAIN at |-> s[at[k]]]
  BY DEF Commands, Places
<1> HIDE DEF S
<1>3. c \in Nat /\ Lists(at, S, c)
  BY <1>1, SortedLists
<1> HIDE DEF c, at
<1>4. DOMAIN at = 1 .. c /\ \A k \in 1 .. c : at[k] \in S
  BY <1>3 DEF Lists
<1>5. Commands(s) = [k \in 1 .. c |-> s[at[k]]]
  BY <1>2, <1>4
<1>6. Commands(s) \in Seq(X) /\ Len(Commands(s)) = c
  <2>1. \A k \in 1 .. c : s[at[k]] \in X
    BY <1>1, <1>4
  <2>2. c \in Nat
    BY <1>3
  <2> DEFINE z == [k \in 1 .. c |-> s[at[k]]]
  <2>3. z \in [1 .. c -> X]
    BY <2>1
  <2> HIDE DEF z
  <2>4. z \in Seq(X) /\ Len(z) = c
    BY <2>2, <2>3
  <2> QED
    BY <1>5, <2>4 DEF z
<1> QED
  BY <1>1, <1>3, <1>5, <1>6 DEF c, at, S

\* Of what is left, the commands are left
LEMMA CommandsLeft ==
  ASSUME NEW X, NEW s \in Seq(X), NEW t \in Seq(X), Left(t, s)
  PROVE  Left(Commands(t), Commands(s))
<1>1. PICK a : Map(a, t, s)
  BY LeftMap, Zenon
<1> DEFINE m == Cardinality(Places(t))
           at == Sorted(Places(t))
           h == [k \in 1 .. m |-> a[at[k]]]
<1>2. m \in Nat /\ Lists(at, Places(t), m) /\ Commands(t) \in Seq(X) /\ Len(Commands(t)) = m
      /\ Commands(t) = [k \in 1 .. m |-> t[at[k]]]
  BY CommandsAre
<1>3. Places(s) \subseteq Nat /\ Len(s) \in Nat /\ (\A n \in Places(s) : n <= Len(s))
      /\ Commands(s) = [k \in 1 .. Cardinality(Places(s)) |-> s[Sorted(Places(s))[k]]]
  BY CommandsAre
<1> HIDE DEF m, at
<1>4. \A k \in 1 .. m : at[k] \in DOMAIN t /\ at[k] \in Nat /\ t[at[k]] # Poll
  BY <1>2 DEF Lists, Places
<1>5. \A k \in 1 .. m : h[k] \in Places(s) /\ Commands(t)[k] = s[h[k]]
  BY <1>1, <1>2, <1>4 DEF Map, Places
<1>6. Rises(h, m, Places(s))
  <2>1. h \in [1 .. m -> Places(s)]
    BY <1>5
  <2>2. ASSUME NEW i \in 1 .. m, NEW j \in 1 .. m, i < j PROVE h[i] < h[j]
    <3>1. at[i] < at[j] /\ at[i] \in DOMAIN t /\ at[j] \in DOMAIN t
      BY <1>2, <1>4, <2>2 DEF Lists
    <3>2. at[i] \in 1 .. at[j] - 1
      BY <3>1
    <3> QED
      BY <1>1, <3>1, <3>2 DEF Map
  <2> HIDE DEF h
  <2> QED
    BY <1>2, <2>1, <2>2 DEF Rises
<1> HIDE DEF h
<1> DEFINE C == Commands(t)
<1>7. C \in Seq(X) /\ Rises(h, Len(C), Places(s))
  BY <1>2, <1>6
<1>8. Bounded(Places(s))
  BY <1>3 DEF Bounded
<1>9. Picks(Commands(s), s, Places(s))
  BY <1>3 DEF Picks
<1>10. Takes(C, s, h)
  BY <1>2, <1>5 DEF Takes
<1> HIDE DEF C
<1>11. Left(C, Commands(s))
  BY <1>7, <1>8, <1>9, <1>10, PickedLeft, Zenon
<1> QED
  BY <1>11 DEF C

\* A poll at the end makes no difference, a command comes last
LEMMA CommandsMore ==
  ASSUME NEW X, NEW s \in Seq(X), NEW x \in X, NEW t, t = s \o <<x>>
  PROVE  /\ x = Poll => Left(Commands(t), Commands(s))
         /\ x # Poll => /\ Commands(t) # <<>> /\ Commands(t)[Len(Commands(t))] = x
                        /\ Left(SubSeq(Commands(t), 1, Len(Commands(t)) - 1), Commands(s))
<1> DEFINE L == Len(s)
           m == Cardinality(Places(t))
           at == Sorted(Places(t))
<1>1. t \in Seq(X) /\ L \in Nat /\ Len(t) = L + 1 /\ t[L + 1] = x /\ \A i \in 1 .. L : t[i] = s[i]
  OBVIOUS
<1>2. m \in Nat /\ Lists(at, Places(t), m) /\ Commands(t) \in Seq(X) /\ Len(Commands(t)) = m
      /\ Commands(t) = [k \in 1 .. m |-> t[at[k]]]
  BY <1>1, CommandsAre
<1>3. Places(s) \subseteq Nat /\ (\A n \in Places(s) : n <= L)
      /\ Commands(s) = [k \in 1 .. Cardinality(Places(s)) |-> s[Sorted(Places(s))[k]]]
  BY CommandsAre
<1>0. Places(t) \subseteq Nat /\ \A n \in Places(t) : n <= L + 1
  BY <1>1, CommandsAre
<1> HIDE DEF m, at, L
<1>4. \A i : i \in Places(t) <=> i \in Places(s) \/ (i = L + 1 /\ x # Poll)
  BY <1>1 DEF Places, L
<1>5. ASSUME NEW j \in 0 .. m, NEW u \in Seq(X), Len(u) = j,
             \A k \in 1 .. j : at[k] # L + 1 /\ u[k] = Commands(t)[k]
      PROVE  Left(u, Commands(s))
  <2> DEFINE h == [k \in 1 .. j |-> at[k]]
  <2>1. \A k \in 1 .. j : k \in 1 .. m /\ h[k] \in Places(s) /\ u[k] = s[h[k]]
    <3> TAKE k \in 1 .. j
    <3>1. k \in 1 .. m
      BY <1>2
    <3>2. at[k] \in Places(t) /\ Commands(t)[k] = t[at[k]]
      BY <1>2, <3>1 DEF Lists
    <3>3. at[k] \in Places(s)
      BY <1>4, <1>5, <3>2
    <3>4. at[k] \in 1 .. L
      BY <3>3 DEF Places, L
    <3> QED
      BY <1>1, <1>5, <3>1, <3>2, <3>3, <3>4
  <2>2. Rises(h, j, Places(s))
    <3>1. h \in [1 .. j -> Places(s)] /\ j \in Nat
      BY <1>2, <2>1
    <3>2. \A a, b \in 1 .. j : a < b => h[a] < h[b]
      BY <1>2, <2>1 DEF Lists
    <3> HIDE DEF h
    <3> QED
      BY <3>1, <3>2 DEF Rises
  <2> HIDE DEF h
  <2>3. \A i \in 1 .. Len(u) : u[i] = s[h[i]]
    BY <1>5, <2>1
  <2>4. Rises(h, Len(u), Places(s))
    BY <1>5, <2>2
  <2>5. Bounded(Places(s))
    BY <1>1, <1>3 DEF Bounded
  <2>6. Picks(Commands(s), s, Places(s))
    BY <1>3 DEF Picks
  <2>7. Takes(u, s, h)
    BY <2>3 DEF Takes
  <2> QED
    BY <2>4, <2>5, <2>6, <2>7, PickedLeft, Zenon
<1>6. CASE x = Poll
  <2>1. ASSUME NEW k \in 1 .. m
        PROVE  at[k] \in Places(t) /\ at[k] # L + 1
    <3>1. at[k] \in Places(t)
      BY <1>2 DEF Lists
    <3>2. at[k] \in Places(s)
      BY <1>4, <1>6, <3>1
    <3>3. at[k] \in Nat /\ at[k] <= L
      BY <1>3, <3>2
    <3> QED
      BY <1>1, <3>1, <3>3
  <2>2. m \in 0 .. m
    BY <1>2
  <2> QED
    BY <1>2, <1>5, <1>6, <2>1, <2>2
<1>7. CASE x # Poll
  <2>1. L + 1 \in Places(t)
    BY <1>4, <1>7
  <2>2. m \in Nat \ {0} /\ at[m] = L + 1 /\ \A k \in 1 .. m - 1 : at[k] < L + 1
    BY <1>0, <2>1, SortedLast DEF m, at
  <2>3. Commands(t)[m] = x
    <3>1. m \in 1 .. m
      BY <2>2
    <3> QED
      BY <1>1, <1>2, <2>2, <3>1
  <2> DEFINE u == SubSeq(Commands(t), 1, m - 1)
  <2>4. u \in Seq(X) /\ Len(u) = m - 1 /\ \A k \in 1 .. m - 1 : u[k] = Commands(t)[k]
    BY <1>2, <2>2
  <2>5. m - 1 \in 0 .. m /\ \A k \in 1 .. m - 1 : at[k] # L + 1
    <3>1. \A k \in 1 .. m - 1 : k \in 1 .. m /\ at[k] \in Places(t) /\ at[k] \in Nat
      BY <1>0, <1>2, <2>2 DEF Lists
    <3> QED
      BY <1>1, <2>2, <3>1
  <2>6. Left(u, Commands(s))
    <3> HIDE DEF u
    <3> QED
      BY <1>5, <2>4, <2>5
  <2>7. Commands(t) # <<>>
    BY <1>2, <2>2
  <2> QED
    BY <1>2, <1>7, <2>3, <2>6, <2>7
<1> QED
  BY <1>6, <1>7
-----------------------------------------------------------------------------
(* What is under way *)

LEMMA JoinsMove ==
  ASSUME NEW P, NEW a \in Seq(P), NEW b \in Seq(P), NEW c \in Seq(P)
  PROVE  (a \o b) \o c = a \o (b \o c)
<1> DEFINE x == (a \o b) \o c  y == a \o (b \o c)
<1>1. a \o b \in Seq(P) /\ Len(a \o b) = Len(a) + Len(b)
      /\ b \o c \in Seq(P) /\ Len(b \o c) = Len(b) + Len(c)
      /\ Len(a) \in Nat /\ Len(b) \in Nat /\ Len(c) \in Nat
  OBVIOUS
<1>2. x \in Seq(P) /\ y \in Seq(P) /\ Len(x) = Len(y)
  BY <1>1
<1>3. \A k \in 1 .. Len(x) : x[k] = y[k]
  OBVIOUS
<1> HIDE DEF x, y
<1>4. x = y
  BY <1>2, <1>3, SeqSame
<1> QED
  BY <1>4 DEF x, y

\* The frames h go from the buffer of the sender, where t remains, to that of the receiver,
\* which holds j instead of i then.
LEMMA WayTransfer ==
  ASSUME NEW P, NEW a \in Seq(P), NEW i \in Seq(P), NEW j \in Seq(P), NEW h \in Seq(P), NEW t \in Seq(P)
  PROVE  Left(j, i \o h) => Left((a \o j) \o t, (a \o i) \o (h \o t))
<1>2. i \o h \in Seq(P) /\ a \o i \in Seq(P) /\ a \o j \in Seq(P)
  BY JoinIs
<1>3. (a \o i) \o (h \o t) = (a \o (i \o h)) \o t
  <2>1. (a \o i) \o h = a \o (i \o h)
    BY JoinsMove, SMTT(60)
  <2>2. \A u \in Seq(P) : (u \o h) \o t = u \o (h \o t)
    BY JoinsMove, SMTT(60)
  <2> QED
    BY <1>2, <2>1, <2>2
<1> HAVE Left(j, i \o h)
<1>4. Left(a \o j, a \o (i \o h)) /\ a \o (i \o h) \in Seq(P)
  <2>1. Left(a, a)
    BY LeftSame
  <2>2. Left(a \o j, a \o (i \o h))
    BY <1>2, <2>1, LeftJoined
  <2>3. a \o (i \o h) \in Seq(P)
    BY <1>2, JoinIs
  <2> QED
    BY <2>2, <2>3
<1>5. Left(t, t)
  BY LeftSame
<1>6. Left((a \o j) \o t, (a \o (i \o h)) \o t)
  BY <1>2, <1>4, <1>5, LeftJoined
<1> QED
  BY <1>3, <1>6

\* An item v is read out of the buffer of the receiver, which holds j instead of i then.
LEMMA WayRead ==
  ASSUME NEW P, NEW a \in Seq(P), NEW v \in Seq(P), NEW i \in Seq(P), NEW j \in Seq(P), NEW x \in Seq(P),
         Left(v \o j, i)
  PROVE  Left(((a \o v) \o j) \o x, (a \o i) \o x)
<1>1. v \o j \in Seq(P) /\ a \o i \in Seq(P) /\ a \o v \in Seq(P)
  BY JoinIs
<1>2. (a \o v) \o j = a \o (v \o j)
  BY JoinsMove, SMTT(60)
<1>3. Left(a, a) /\ Left(x, x)
  BY LeftSame
<1>4. Left(a \o (v \o j), a \o i)
  BY <1>1, <1>3, LeftJoined
<1>5. a \o (v \o j) \in Seq(P)
  BY <1>1, JoinIs
<1>6. Left((a \o (v \o j)) \o x, (a \o i) \o x)
  BY <1>1, <1>3, <1>4, <1>5, LeftJoined
<1> QED
  BY <1>2, <1>6

\* Something is put into the buffer of the sender.
LEMMA WayPut ==
  ASSUME NEW P, NEW a \in Seq(P), NEW x \in Seq(P), NEW p \in P
  PROVE  a \o Append(x, p) = (a \o x) \o <<p>>
<1>1. <<p>> \in Seq(P) /\ Append(x, p) = x \o <<p>>
  OBVIOUS
<1> QED
  BY <1>1, JoinsMove

\* What a receiver has taken out of its buffer, what is intact there, and what the other
\* end has to send
Parts == Seq(Tokens)
Way(a, buf, x) == (a \o Intact(buf)) \o x

LEMMA WayType ==
  ASSUME NEW a \in Seq(Parts), NEW buf \in Seq(Tokens), NEW x \in Seq(Parts)
  PROVE  Intact(buf) \in Seq(Parts) /\ Way(a, buf, x) \in Seq(Parts)
<1>1. Intact(buf) \in Seq(Parts)
  BY IntactIs DEF Parts
<1>2. a \o Intact(buf) \in Seq(Parts)
  BY <1>1, JoinIs
<1>3. (a \o Intact(buf)) \o x \in Seq(Parts)
  BY <1>2, JoinIs
<1> QED
  BY <1>1, <1>3 DEF Way

LEMMA WayTaken ==
  ASSUME NEW a \in Seq(Parts), NEW b \in Seq(Parts), NEW buf \in Seq(Tokens), NEW x \in Seq(Parts),
         Left(b, a)
  PROVE  Left(Way(b, buf, x), Way(a, buf, x))
<1> DEFINE i == Intact(buf)
<1>1. i \in Seq(Parts)
  BY WayType
<1> HIDE DEF i
<1>2. Left(i, i) /\ Left(x, x)
  BY <1>1, LeftSame
<1>3. a \o i \in Seq(Parts) /\ b \o i \in Seq(Parts)
  BY <1>1, JoinIs
<1>4. Left(b \o i, a \o i)
  BY <1>1, <1>2, LeftJoined
<1>5. Left((b \o i) \o x, (a \o i) \o x)
  BY <1>2, <1>3, <1>4, LeftJoined
<1> QED
  BY <1>5 DEF Way, i

LEMMA WayGot ==
  ASSUME NEW a \in Seq(Parts), NEW buf \in Seq(Tokens), WellFramed(buf), NEW x \in Seq(Parts),
         NEW item \in Items(buf)
  PROVE  /\ item[1] \in Seq(Tokens) /\ WellFramed(item[1]) /\ Len(item[1]) <= Len(buf)
         /\ item[2] \in Seq(Parts)
         /\ Left(Way(a \o item[2], item[1], x), Way(a, buf, x))
<1> DEFINE r == item[1]  v == item[2]  i == Intact(buf)  j == Intact(r)
<1>1. r \in Seq(Tokens) /\ WellFramed(r) /\ Len(r) <= Len(buf) /\ v \in Seq(Parts) /\ Left(v \o j, i)
  BY ItemsLeft DEF Parts
<1> HIDE DEF r, v
<1>2. i \in Seq(Parts) /\ j \in Seq(Parts)
  BY <1>1, WayType
<1> HIDE DEF i, j
<1>3. Left(((a \o v) \o j) \o x, (a \o i) \o x)
  BY <1>1, <1>2, WayRead
<1>4. Left(Way(a \o v, r, x), Way(a, buf, x))
  BY <1>3 DEF Way, i, j
<1> QED
  BY <1>1, <1>4 DEF r, v

LEMMA WaySent ==
  ASSUME NEW a \in Seq(Parts), NEW buf \in Seq(Tokens), WellFramed(buf), NEW x \in Seq(AllPayloads),
         x # <<>>, NEW f, FrameOf(f, Head(x)), NEW r \in 0 .. Len(f)
  PROVE  /\ buf \o SubSeq(f, 1, r) \in Seq(Tokens) /\ WellFramed(buf \o SubSeq(f, 1, r))
         /\ Len(buf \o SubSeq(f, 1, r)) = Len(buf) + r
         /\ Left(Way(a, buf \o SubSeq(f, 1, r), Tail(x)), Way(a, buf, x))
<1> DEFINE c == buf \o SubSeq(f, 1, r)  p == Head(x)  i == Intact(buf)  j == Intact(c)
<1>1. p \in AllPayloads
  OBVIOUS
<1>2. AllPayloads \subseteq Parts
  <2> SUFFICES ASSUME NEW q \in AllPayloads PROVE q \in Parts
    OBVIOUS
  <2> QED
    BY PayloadParts DEF Parts, Tokens
<1> HIDE DEF p
<1>3. FrameOf(f, p)
  BY DEF p
<1> HIDE DEF c
<1>4. c = buf \o SubSeq(f, 1, r)
  BY DEF c
<1>5. c \in Seq(Tokens) /\ Len(c) = Len(buf) + r /\ WellFramed(c) /\ Left(j, i \o <<p>>)
  <2>1. c \in Seq(Tokens)
    BY <1>1, <1>3, <1>4, Arrives
  <2>2. Len(c) = Len(buf) + r
    BY <1>1, <1>3, <1>4, Arrives
  <2>3. WellFramed(c)
    BY <1>1, <1>3, <1>4, Arrives, Zenon
  <2>4. Left(j, i \o <<p>>)
    BY <1>1, <1>3, <1>4, Arrives, Zenon
  <2> QED
    BY <2>1, <2>2, <2>3, <2>4
<1> DEFINE h == <<p>>  t == Tail(x)
<1>6. h \in Seq(Parts) /\ t \in Seq(Parts) /\ x = h \o t
  <2>1. x \in Seq(Parts)
    BY <1>2
  <2> QED
    BY <2>1 DEF p
<1>7. i \in Seq(Parts) /\ j \in Seq(Parts) /\ Left(j, i \o h)
  BY <1>5, WayType
<1> HIDE DEF h, t, i, j
<1>8. Left((a \o j) \o t, (a \o i) \o (h \o t))
  BY <1>6, <1>7, WayTransfer
<1>9. Left(Way(a, c, t), Way(a, buf, x))
  BY <1>6, <1>8 DEF Way, i, j
<1> QED
  BY <1>5, <1>9 DEF c, t

LEMMA WayPutIn ==
  ASSUME NEW a \in Seq(Parts), NEW buf \in Seq(Tokens), NEW x \in Seq(Parts), NEW p \in Parts
  PROVE  Way(a, buf, Append(x, p)) = Way(a, buf, x) \o <<p>>
<1> DEFINE i == Intact(buf)
<1>1. i \in Seq(Parts)
  BY WayType
<1> HIDE DEF i
<1>2. a \o i \in Seq(Parts)
  BY <1>1, JoinIs
<1>3. (a \o i) \o Append(x, p) = ((a \o i) \o x) \o <<p>>
  BY <1>2, WayPut, SMTT(60)
<1> QED
  BY <1>3 DEF Way, i
-----------------------------------------------------------------------------
(* The steps *)

LEMMA Others == Other("central") = "peripheral" /\ Other("peripheral") = "central"
BY DEF Other, Ends

LEMMA RoomInBuffers == \A e \in Ends : RxSize(e) \in Nat
BY SplitWireAssumption, Others, Sizes DEF RxSize, TxSize, Ends

\* A buffer that is received into holds what arrived of whole frames, and no more than it
\* has room for.
BufferOK(buf, e) == buf \in Seq(Tokens) /\ WellFramed(buf) /\ Len(buf) <= RxSize(e)
WireInv ==
  /\ tx \in [Ends -> Seq(AllPayloads)] /\ env \in [Ends -> Seq(Parts)] /\ cmdQ \in Seq(Parts)
  /\ DOMAIN rx = Ends /\ \A e \in Ends : BufferOK(rx[e], e)
  /\ budget \in [{"reports", "commands", "noise"} -> Int] /\ budget.commands <= MaxInputs

EventWay == Way(env["central"], rx["central"], tx["peripheral"])
CommandWay == Way(cmdQ \o env["peripheral"], rx["peripheral"], tx["central"])

\* What a step may do to them
EventMoves ==
  \/ Left(EventWay', EventWay)
  \/ /\ budget'.reports < budget.reports
     /\ \E k \in WiredKeys, b \in BOOLEAN : EventWay' = EventWay \o <<KeyEvent(k, b)>>
CommandMoves ==
  \/ Left(CommandWay', CommandWay)
  \/ CommandWay' = CommandWay \o <<Poll>>
  \/ /\ budget'.commands < budget.commands
     /\ \E n \in 1 .. MaxInputs : CommandWay' = CommandWay \o <<Command(n)>>

LEMMA WireTypes ==
  ASSUME WireInv
  PROVE  /\ tx["central"] \in Seq(AllPayloads) /\ tx["peripheral"] \in Seq(AllPayloads)
         /\ tx["central"] \in Seq(Parts) /\ tx["peripheral"] \in Seq(Parts)
         /\ rx["central"] \in Seq(Tokens) /\ rx["peripheral"] \in Seq(Tokens)
         /\ WellFramed(rx["central"]) /\ WellFramed(rx["peripheral"])
         /\ env["central"] \in Seq(Parts) /\ env["peripheral"] \in Seq(Parts)
         /\ cmdQ \o env["peripheral"] \in Seq(Parts)
         /\ EventWay \in Seq(Parts) /\ CommandWay \in Seq(Parts)
         /\ AllPayloads \subseteq Parts
<1>1. AllPayloads \subseteq Parts
  <2> SUFFICES ASSUME NEW q \in AllPayloads PROVE q \in Parts
    OBVIOUS
  <2> QED
    BY PayloadParts DEF Parts, Tokens
<1>2. tx["central"] \in Seq(AllPayloads) /\ tx["peripheral"] \in Seq(AllPayloads)
  BY DEF WireInv, Ends
<1>3. tx["central"] \in Seq(Parts) /\ tx["peripheral"] \in Seq(Parts)
  BY <1>1, <1>2
<1>4. rx["central"] \in Seq(Tokens) /\ rx["peripheral"] \in Seq(Tokens)
      /\ WellFramed(rx["central"]) /\ WellFramed(rx["peripheral"])
  BY DEF WireInv, Ends, BufferOK
<1>5. env["central"] \in Seq(Parts) /\ env["peripheral"] \in Seq(Parts) /\ cmdQ \in Seq(Parts)
  BY DEF WireInv, Ends
<1>6. cmdQ \o env["peripheral"] \in Seq(Parts)
  BY <1>5, JoinIs
<1>7. EventWay \in Seq(Parts)
  BY <1>3, <1>4, <1>5, WayType DEF EventWay
<1>8. CommandWay \in Seq(Parts)
  BY <1>3, <1>4, <1>6, WayType DEF CommandWay
<1> QED
  BY <1>1, <1>2, <1>3, <1>4, <1>5, <1>6, <1>7, <1>8

LEMMA WireSame ==
  ASSUME WireInv
  PROVE  /\ UNCHANGED <<env, rx, tx>> => Left(EventWay', EventWay)
         /\ UNCHANGED <<env, rx, tx, cmdQ>> => Left(CommandWay', CommandWay)
<1>1. Left(EventWay, EventWay) /\ Left(CommandWay, CommandWay)
  BY WireTypes, LeftSame
<1>2. UNCHANGED <<env, rx, tx>> => EventWay' = EventWay
  BY DEF EventWay
<1>3. UNCHANGED <<env, rx, tx, cmdQ>> => CommandWay' = CommandWay
  BY DEF CommandWay
<1> QED
  BY <1>1, <1>2, <1>3

LEMMA StepTransfer ==
  ASSUME WireInv, NEW e \in Ends, Transfer(e)
  PROVE  WireInv' /\ EventMoves /\ CommandMoves
<1> DEFINE o == Other(e)
           p == Head(tx[e])
           room == RxSize(o) - Len(rx[o])
<1>1. o \in Ends /\ o # e /\ (e = "central" => o = "peripheral") /\ (e = "peripheral" => o = "central")
      /\ e \in {"central", "peripheral"}
  BY Others DEF Ends
<1>2. tx[e] \in Seq(AllPayloads) /\ tx[e] # <<>> /\ tx' = [tx EXCEPT ![e] = Tail(@)]
  BY DEF WireInv, Transfer
<1>3. p \in AllPayloads
  BY <1>2
<1> HIDE DEF o
<1>4. BufferOK(rx[o], o) /\ RxSize(o) \in Nat
  BY <1>1, RoomInBuffers DEF WireInv
<1>5. PICK f : /\ f = Framed(p) \/ f \in Garbled(Framed(p))
               /\ rx' = [rx EXCEPT ![o] = @ \o SubSeq(f, 1, IF room < Len(f) THEN room ELSE Len(f))]
               /\ budget' = [budget EXCEPT !.noise = budget'.noise]
               /\ budget'.noise \in {budget.noise, budget.noise - 1}
  <2>1. PICK f : /\ f = Framed(p) \/ f \in Garbled(Framed(p))
                 /\ rx' = [rx EXCEPT ![o] = @ \o SubSeq(f, 1, IF room < Len(f) THEN room ELSE Len(f))]
                 /\ \E c \in BOOLEAN : budget' = [budget EXCEPT !.noise = IF c THEN @ ELSE @ - 1]
    BY DEF Transfer, o
  <2> QED
    BY <2>1 DEF WireInv
<1>6. FrameOf(f, p)
  <2>1. CASE f = Framed(p)
    BY <1>3, <2>1, FramedParts, Zenon
  <2>2. CASE f \in Garbled(Framed(p))
    BY <1>3, <2>2, GarbledParts, Zenon
  <2> QED
    BY <1>5, <2>1, <2>2
<1> DEFINE r == IF room < Len(f) THEN room ELSE Len(f)
           c == rx[o] \o SubSeq(f, 1, r)
<1>7. r \in 0 .. Len(f) /\ Len(rx[o]) + r <= RxSize(o)
  <2>1. Len(rx[o]) \in Nat /\ Len(rx[o]) <= RxSize(o) /\ Len(f) \in Nat
    BY <1>4, <1>6 DEF BufferOK, FrameOf
  <2> QED
    BY <1>4, <2>1
<1>8. rx' = [rx EXCEPT ![o] = c]
  BY <1>5
<1> HIDE DEF r, p
<1>9. ASSUME NEW a \in Seq(Parts)
      PROVE  BufferOK(c, o) /\ Left(Way(a, c, Tail(tx[e])), Way(a, rx[o], tx[e]))
  <2> DEFINE buf == rx[o]  x == tx[e]
  <2>1. buf \in Seq(Tokens) /\ WellFramed(buf) /\ x \in Seq(AllPayloads) /\ x # <<>>
        /\ FrameOf(f, Head(x)) /\ r \in 0 .. Len(f)
    BY <1>2, <1>4, <1>6, <1>7 DEF BufferOK, p
  <2>2. Len(buf) + r <= RxSize(o)
    BY <1>7
  <2> HIDE DEF buf, x
  <2>3. buf \o SubSeq(f, 1, r) \in Seq(Tokens)
    BY <2>1, WaySent
  <2>4. WellFramed(buf \o SubSeq(f, 1, r))
    BY <2>1, WaySent, Zenon
  <2>5. Len(buf \o SubSeq(f, 1, r)) = Len(buf) + r
    BY <2>1, WaySent
  <2>6. Left(Way(a, buf \o SubSeq(f, 1, r), Tail(x)), Way(a, buf, x))
    BY <2>1, WaySent, Zenon
  <2>7. BufferOK(buf \o SubSeq(f, 1, r), o)
    BY <2>2, <2>3, <2>4, <2>5 DEF BufferOK
  <2> QED
    BY <2>6, <2>7 DEF buf, x
<1> HIDE DEF c
<1>10. /\ rx'[o] = c /\ rx'[e] = rx[e] /\ DOMAIN rx' = Ends
       /\ tx'[e] = Tail(tx[e]) /\ tx'[o] = tx[o] /\ tx' \in [Ends -> Seq(AllPayloads)]
  <2>1. DOMAIN rx = Ends /\ tx \in [Ends -> Seq(AllPayloads)]
    BY DEF WireInv
  <2>2. Tail(tx[e]) \in Seq(AllPayloads)
    BY <1>2
  <2> QED
    BY <1>1, <1>2, <1>8, <2>1, <2>2
<1>11. UNCHANGED <<env, cmdQ>>
  BY DEF Transfer
<1>12. WireInv'
  <2>1. BufferOK(c, o)
    <3>1. env["central"] \in Seq(Parts)
      BY WireTypes
    <3> QED
      BY <1>9, <3>1
  <2>2. \A d \in Ends : BufferOK(rx'[d], d)
    <3> TAKE d \in Ends
    <3>1. d = e \/ d = o
      BY <1>1 DEF Ends
    <3>2. BufferOK(rx[e], e)
      BY DEF WireInv
    <3> QED
      BY <1>10, <2>1, <3>1, <3>2
  <2>3. budget' \in [{"reports", "commands", "noise"} -> Int] /\ budget'.commands <= MaxInputs
    BY <1>5 DEF WireInv
  <2> QED
    BY <1>10, <1>11, <2>2, <2>3 DEF WireInv, BufferOK
<1>13. CASE e = "peripheral"
  <2>1. o = "central"
    BY <1>1, <1>13
  <2>2. env["central"] \in Seq(Parts)
    BY WireTypes
  <2>3. Left(Way(env["central"], c, Tail(tx["peripheral"])), EventWay)
    BY <1>9, <1>13, <2>1, <2>2 DEF EventWay
  <2>4. EventWay' = Way(env["central"], c, Tail(tx["peripheral"]))
    BY <1>10, <1>11, <1>13, <2>1 DEF EventWay
  <2>5. CommandWay' = CommandWay
    BY <1>10, <1>11, <1>13, <2>1 DEF CommandWay
  <2>6. Left(CommandWay, CommandWay)
    BY WireTypes, LeftSame
  <2> QED
    BY <1>12, <2>3, <2>4, <2>5, <2>6 DEF EventMoves, CommandMoves
<1>14. CASE e = "central"
  <2>1. o = "peripheral"
    BY <1>1, <1>14
  <2>2. cmdQ \o env["peripheral"] \in Seq(Parts)
    BY WireTypes
  <2>3. Left(Way(cmdQ \o env["peripheral"], c, Tail(tx["central"])), CommandWay)
    BY <1>9, <1>14, <2>1, <2>2 DEF CommandWay
  <2>4. CommandWay' = Way(cmdQ \o env["peripheral"], c, Tail(tx["central"]))
    BY <1>10, <1>11, <1>14, <2>1 DEF CommandWay
  <2>5. EventWay' = EventWay
    BY <1>10, <1>11, <1>14, <2>1 DEF EventWay
  <2>6. Left(EventWay, EventWay)
    BY WireTypes, LeftSame
  <2> QED
    BY <1>12, <2>3, <2>4, <2>5, <2>6 DEF EventMoves, CommandMoves
<1> QED
  BY <1>1, <1>13, <1>14

LEMMA StepGetItem ==
  ASSUME WireInv, NEW e \in Ends, GetItem(e)
  PROVE  WireInv' /\ EventMoves /\ CommandMoves
<1>1. PICK item \in Items(rx[e]) : /\ rx' = [rx EXCEPT ![e] = item[1]]
                                   /\ env' = [env EXCEPT ![e] = item[2]]
  BY DEF GetItem
<1>2. env[e] = <<>> /\ UNCHANGED <<tx, cmdQ, budget>>
  BY DEF GetItem
<1>3. BufferOK(rx[e], e)
  BY DEF WireInv
<1> DEFINE r == item[1]  v == item[2]
<1>4. ASSUME NEW a \in Seq(Parts), NEW x \in Seq(Parts)
      PROVE  /\ r \in Seq(Tokens) /\ WellFramed(r) /\ Len(r) <= Len(rx[e]) /\ v \in Seq(Parts)
             /\ Left(Way(a \o v, r, x), Way(a, rx[e], x))
  <2> DEFINE buf == rx[e]
  <2>1. buf \in Seq(Tokens) /\ WellFramed(buf) /\ item \in Items(buf)
    BY <1>3 DEF BufferOK
  <2> HIDE DEF buf
  <2>2. r \in Seq(Tokens)
    BY <2>1, WayGot
  <2>3. WellFramed(r)
    BY <2>1, WayGot, Zenon
  <2>4. Len(r) <= Len(buf)
    BY <2>1, WayGot
  <2>5. v \in Seq(Parts)
    BY <2>1, WayGot
  <2>6. Left(Way(a \o v, r, x), Way(a, buf, x))
    BY <2>1, WayGot, Zenon
  <2> QED
    BY <2>2, <2>3, <2>4, <2>5, <2>6 DEF buf
<1> HIDE DEF r, v
<1>5. /\ tx["central"] \in Seq(Parts) /\ tx["peripheral"] \in Seq(Parts)
      /\ env["central"] \in Seq(Parts) /\ cmdQ \in Seq(Parts)
  BY WireTypes DEF WireInv
<1>6. BufferOK(r, e) /\ v \in Seq(Parts)
  <2>1. r \in Seq(Tokens) /\ WellFramed(r) /\ Len(r) <= Len(rx[e]) /\ v \in Seq(Parts)
    BY <1>4, <1>5
  <2>2. Len(r) \in Nat /\ Len(rx[e]) \in Nat /\ Len(rx[e]) <= RxSize(e) /\ RxSize(e) \in Nat
    BY <1>3, <2>1, RoomInBuffers DEF BufferOK
  <2> QED
    BY <2>1, <2>2 DEF BufferOK
<1>7. rx' = [rx EXCEPT ![e] = r] /\ env' = [env EXCEPT ![e] = v]
  BY <1>1 DEF r, v
<1>8. DOMAIN rx = Ends /\ env \in [Ends -> Seq(Parts)]
  BY DEF WireInv
<1>9. WireInv'
  BY <1>2, <1>6, <1>7, <1>8 DEF WireInv, BufferOK
<1>10. CASE e = "central"
  <2>1. <<>> \o v = v /\ <<>> \in Seq(Parts)
    BY <1>6
  <2>2. Left(Way(<<>> \o v, r, tx["peripheral"]), Way(<<>>, rx["central"], tx["peripheral"]))
    BY <1>4, <1>5, <1>10, <2>1
  <2>3. EventWay' = Way(v, r, tx["peripheral"]) /\ EventWay = Way(<<>>, rx["central"], tx["peripheral"])
    BY <1>2, <1>7, <1>8, <1>10 DEF EventWay, Ends
  <2>4. CommandWay' = CommandWay
    BY <1>2, <1>7, <1>8, <1>10 DEF CommandWay, Ends
  <2>5. Left(CommandWay, CommandWay)
    BY WireTypes, LeftSame
  <2> QED
    BY <1>9, <2>1, <2>2, <2>3, <2>4, <2>5 DEF EventMoves, CommandMoves
<1>11. CASE e = "peripheral"
  <2>1. cmdQ \o <<>> = cmdQ
    BY <1>5
  <2>2. Left(Way(cmdQ \o v, r, tx["central"]), Way(cmdQ, rx["peripheral"], tx["central"]))
    BY <1>4, <1>5, <1>11
  <2>3. CommandWay' = Way(cmdQ \o v, r, tx["central"])
    BY <1>2, <1>7, <1>8, <1>11 DEF CommandWay, Ends
  <2>4. CommandWay = Way(cmdQ, rx["peripheral"], tx["central"])
    BY <1>2, <1>11, <2>1 DEF CommandWay
  <2>5. EventWay' = EventWay
    BY <1>2, <1>7, <1>8, <1>11 DEF EventWay, Ends
  <2>6. Left(EventWay, EventWay)
    BY WireTypes, LeftSame
  <2> QED
    BY <1>9, <2>2, <2>3, <2>4, <2>5, <2>6 DEF EventMoves, CommandMoves
<1> QED
  BY <1>10, <1>11 DEF Ends

\* Without its first elements, and without all of it, a sequence is left of itself.
LEMMA LeftRest ==
  ASSUME NEW P, NEW s \in Seq(P), s # <<>>
  PROVE  /\ Left(Tail(s), s) /\ Left(<<Head(s)>>, s) /\ Left(<<>>, s)
         /\ Tail(s) \in Seq(P) /\ <<Head(s)>> \in Seq(P)
<1> DEFINE h == <<Head(s)>>  t == Tail(s)
<1>1. h \in Seq(P) /\ t \in Seq(P) /\ s = h \o t
  OBVIOUS
<1>2. <<>> \in Seq(P) /\ <<>> \o s = s
  OBVIOUS
<1> HIDE DEF h, t
<1>3. Left(h, h \o t) /\ Left(t, h \o t)
  BY <1>1, LeftPart
<1>4. Left(<<>>, <<>> \o s)
  BY <1>2, LeftPart
<1> QED
  BY <1>1, <1>2, <1>3, <1>4 DEF h, t

LEMMA StepHandleEvent ==
  ASSUME WireInv, HandleEvent
  PROVE  WireInv' /\ EventMoves /\ CommandMoves
<1>1. env["central"] # <<>> /\ env' = [env EXCEPT !["central"] = <<>>]
      /\ UNCHANGED <<tx, rx, cmdQ, budget>>
  BY DEF HandleEvent
<1>2. env \in [Ends -> Seq(Parts)] /\ <<>> \in Seq(Parts)
  BY DEF WireInv
<1>3. env["central"] \in Seq(Parts) /\ rx["central"] \in Seq(Tokens) /\ tx["peripheral"] \in Seq(Parts)
  BY WireTypes
<1>4. Left(<<>>, env["central"])
  BY <1>1, <1>3, LeftRest
<1>5. Left(Way(<<>>, rx["central"], tx["peripheral"]), EventWay)
  BY <1>2, <1>3, <1>4, WayTaken DEF EventWay
<1>6. EventWay' = Way(<<>>, rx["central"], tx["peripheral"]) /\ CommandWay' = CommandWay
  BY <1>1, <1>2 DEF EventWay, CommandWay, Ends
<1>7. Left(CommandWay, CommandWay)
  BY WireTypes, LeftSame
<1>8. WireInv'
  BY <1>1, <1>2 DEF WireInv, BufferOK
<1> QED
  BY <1>5, <1>6, <1>7, <1>8 DEF EventMoves, CommandMoves

LEMMA StepHandleCommand ==
  ASSUME WireInv, HandleCommand
  PROVE  WireInv' /\ EventMoves /\ CommandMoves
<1> DEFINE v == env["peripheral"]
<1>1. v # <<>> /\ env' = [env EXCEPT !["peripheral"] = <<>>]
      /\ UNCHANGED <<tx, rx, budget>>
      /\ (cmdQ' = Append(cmdQ, v[1]) \/ cmdQ' = cmdQ)
  BY DEF HandleCommand
<1>2. env \in [Ends -> Seq(Parts)] /\ <<>> \in Seq(Parts) /\ cmdQ \in Seq(Parts)
  BY DEF WireInv
<1>3. v \in Seq(Parts) /\ rx["peripheral"] \in Seq(Tokens) /\ tx["central"] \in Seq(Parts)
      /\ cmdQ \o v \in Seq(Parts)
  BY WireTypes
<1> HIDE DEF v
<1>4. Left(cmdQ', cmdQ \o v) /\ cmdQ' \in Seq(Parts)
  <2>1. CASE cmdQ' = cmdQ
    BY <1>2, <1>3, <2>1, LeftPart
  <2>2. CASE cmdQ' = Append(cmdQ, v[1])
    <3> DEFINE h == <<Head(v)>>
    <3>1. h \in Seq(Parts) /\ Left(h, v)
      BY <1>1, <1>3, LeftRest
    <3>2. Append(cmdQ, v[1]) = cmdQ \o h
      BY <1>1, <1>2, <1>3
    <3> HIDE DEF h
    <3>3. Left(cmdQ, cmdQ)
      BY <1>2, LeftSame
    <3>4. Left(cmdQ \o h, cmdQ \o v)
      BY <1>2, <1>3, <3>1, <3>3, LeftJoined
    <3>5. cmdQ \o h \in Seq(Parts)
      BY <1>2, <3>1, JoinIs
    <3> QED
      BY <2>2, <3>2, <3>4, <3>5
  <2> QED
    BY <1>1, <2>1, <2>2
<1>5. Left(Way(cmdQ', rx["peripheral"], tx["central"]), CommandWay)
  <2>1. \A b \in Seq(Parts) : Left(b, cmdQ \o v) =>
          Left(Way(b, rx["peripheral"], tx["central"]), Way(cmdQ \o v, rx["peripheral"], tx["central"]))
    BY <1>3, WayTaken
  <2> QED
    BY <1>4, <2>1 DEF CommandWay, v
<1>6. CommandWay' = Way(cmdQ', rx["peripheral"], tx["central"])
  <2>1. env'["peripheral"] = <<>> /\ cmdQ' \o <<>> = cmdQ'
    BY <1>1, <1>2, <1>4 DEF Ends
  <2> QED
    BY <1>1, <2>1 DEF CommandWay
<1>7. EventWay' = EventWay
  BY <1>1, <1>2 DEF EventWay, Ends
<1>8. Left(EventWay, EventWay)
  BY WireTypes, LeftSame
<1>9. WireInv'
  BY <1>1, <1>2, <1>4 DEF WireInv, BufferOK
<1> QED
  BY <1>5, <1>6, <1>7, <1>8, <1>9 DEF EventMoves, CommandMoves

LEMMA StepCommandWork ==
  ASSUME WireInv, CommandWork
  PROVE  WireInv' /\ EventMoves /\ CommandMoves
<1>1. cmdQ # <<>> /\ cmdQ' = Tail(cmdQ) /\ UNCHANGED <<env, tx, rx, budget>>
  BY DEF CommandWork
<1>2. cmdQ \in Seq(Parts)
  BY DEF WireInv
<1> DEFINE v == env["peripheral"]
<1>3. v \in Seq(Parts) /\ rx["peripheral"] \in Seq(Tokens) /\ tx["central"] \in Seq(Parts)
      /\ cmdQ \o v \in Seq(Parts)
  BY WireTypes
<1> HIDE DEF v
<1>4. Left(Tail(cmdQ), cmdQ) /\ Tail(cmdQ) \in Seq(Parts)
  BY <1>1, <1>2, LeftRest
<1>5. Left(v, v)
  BY <1>3, LeftSame
<1>6. Left(Tail(cmdQ) \o v, cmdQ \o v) /\ Tail(cmdQ) \o v \in Seq(Parts)
  <2> DEFINE t == Tail(cmdQ)
  <2>1. t \in Seq(Parts) /\ Left(t, cmdQ)
    BY <1>4
  <2> HIDE DEF t
  <2>2. t \o v \in Seq(Parts)
    BY <1>3, <2>1, JoinIs
  <2>3. Left(t \o v, cmdQ \o v)
    BY <1>2, <1>3, <1>5, <2>1, LeftJoined
  <2> QED
    BY <2>2, <2>3 DEF t
<1>7. Left(Way(Tail(cmdQ) \o v, rx["peripheral"], tx["central"]), CommandWay)
  BY <1>3, <1>6, WayTaken DEF CommandWay, v
<1>8. CommandWay' = Way(Tail(cmdQ) \o v, rx["peripheral"], tx["central"]) /\ EventWay' = EventWay
  BY <1>1 DEF CommandWay, EventWay, v
<1>9. Left(EventWay, EventWay)
  BY WireTypes, LeftSame
<1>10. WireInv'
  BY <1>1, <1>4 DEF WireInv, BufferOK
<1> QED
  BY <1>7, <1>8, <1>9, <1>10 DEF EventMoves, CommandMoves

LEMMA SentIs ==
  ASSUME NEW e \in Ends, NEW p \in AllPayloads, WireInv, tx' = Put(e, p) \/ UNCHANGED tx
  PROVE  /\ tx' \in [Ends -> Seq(AllPayloads)]
         /\ \A d \in Ends : d # e => tx'[d] = tx[d]
         /\ tx'[e] = Append(tx[e], p) \/ tx' = tx
<1>1. tx \in [Ends -> Seq(AllPayloads)]
  BY DEF WireInv
<1>2. Append(tx[e], p) \in Seq(AllPayloads)
  BY <1>1
<1> QED
  BY <1>1, <1>2 DEF Put

LEMMA CentralSends ==
  ASSUME NEW p \in AllPayloads, WireInv, UNCHANGED <<rx, env, cmdQ>>,
         tx' = Put("central", p) \/ UNCHANGED tx
  PROVE  /\ tx' \in [Ends -> Seq(AllPayloads)] /\ Left(EventWay', EventWay)
         /\ Left(CommandWay', CommandWay) \/ CommandWay' = CommandWay \o <<p>>
<1>1. tx' \in [Ends -> Seq(AllPayloads)] /\ tx'["peripheral"] = tx["peripheral"]
      /\ (tx'["central"] = Append(tx["central"], p) \/ tx' = tx)
  BY SentIs DEF Ends
<1>2. EventWay' = EventWay
  BY <1>1 DEF EventWay
<1>3. Left(EventWay, EventWay) /\ Left(CommandWay, CommandWay)
  BY WireTypes, LeftSame
<1>4. CASE tx' = tx
  <2>1. CommandWay' = CommandWay
    BY <1>4 DEF CommandWay
  <2> QED
    BY <1>1, <1>2, <1>3, <2>1
<1>5. CASE tx'["central"] = Append(tx["central"], p)
  <2> DEFINE a == cmdQ \o env["peripheral"]  x == tx["central"]  buf == rx["peripheral"]
  <2>1. a \in Seq(Parts) /\ x \in Seq(Parts) /\ buf \in Seq(Tokens) /\ p \in Parts
    BY WireTypes
  <2> HIDE DEF a, x, buf
  <2>2. Way(a, buf, Append(x, p)) = Way(a, buf, x) \o <<p>>
    BY <2>1, WayPutIn
  <2>3. CommandWay' = Way(a, buf, Append(x, p)) /\ CommandWay = Way(a, buf, x)
    BY <1>5 DEF CommandWay, a, x, buf
  <2> QED
    BY <1>1, <1>2, <1>3, <2>2, <2>3
<1> QED
  BY <1>1, <1>4, <1>5

LEMMA StepTell ==
  ASSUME WireInv, Tell
  PROVE  WireInv' /\ EventMoves /\ CommandMoves
<1> DEFINE n == budget.commands
<1>1. /\ n > 0 /\ budget' = [budget EXCEPT !.commands = n - 1] /\ UNCHANGED <<rx, env, cmdQ>>
      /\ tx' = Put("central", Command(n)) \/ UNCHANGED tx
  BY DEF Tell, SendCommand
<1>2. n \in Int /\ n <= MaxInputs /\ budget \in [{"reports", "commands", "noise"} -> Int]
  BY DEF WireInv
<1>3. n \in 1 .. MaxInputs /\ budget'.commands = n - 1 /\ budget'.commands < budget.commands
      /\ budget'.commands <= MaxInputs /\ budget' \in [{"reports", "commands", "noise"} -> Int]
  BY <1>1, <1>2, SplitWireAssumption
<1> HIDE DEF n
<1>4. Command(n) \in AllPayloads
  BY <1>3 DEF AllPayloads
<1>5. /\ tx' \in [Ends -> Seq(AllPayloads)] /\ Left(EventWay', EventWay)
      /\ Left(CommandWay', CommandWay) \/ CommandWay' = CommandWay \o <<Command(n)>>
  BY <1>1, <1>4, CentralSends
<1>6. WireInv'
  BY <1>1, <1>3, <1>5 DEF WireInv, BufferOK
<1> QED
  BY <1>3, <1>5, <1>6 DEF EventMoves, CommandMoves

LEMMA StepRxDone ==
  ASSUME WireInv, RxDone
  PROVE  WireInv' /\ EventMoves /\ CommandMoves
<1>1. UNCHANGED <<rx, env, cmdQ, budget>> /\ (tx' = Put("central", Poll) \/ UNCHANGED tx)
  BY DEF RxDone, SendCommand
<1>2. Poll \in AllPayloads
  BY DEF AllPayloads
<1>3. /\ tx' \in [Ends -> Seq(AllPayloads)] /\ Left(EventWay', EventWay)
      /\ Left(CommandWay', CommandWay) \/ CommandWay' = CommandWay \o <<Poll>>
  BY <1>1, <1>2, CentralSends
<1>4. WireInv'
  BY <1>1, <1>3 DEF WireInv, BufferOK
<1> QED
  BY <1>3, <1>4 DEF EventMoves, CommandMoves

LEMMA StepReport ==
  ASSUME WireInv, NEW k \in WiredKeys, Report(k)
  PROVE  WireInv' /\ EventMoves /\ CommandMoves
<1> DEFINE b == k \notin down  p == KeyEvent(k, b)
<1>1. /\ budget.reports > 0 /\ budget' = [budget EXCEPT !.reports = budget.reports - 1]
      /\ UNCHANGED <<rx, env, cmdQ>> /\ (tx' = Put("peripheral", p) \/ UNCHANGED tx)
  BY DEF Report
<1>2. b \in BOOLEAN
  OBVIOUS
<1> HIDE DEF b
<1>3. p \in AllPayloads
  BY <1>2 DEF AllPayloads
<1>4. budget' \in [{"reports", "commands", "noise"} -> Int] /\ budget'.commands <= MaxInputs
      /\ budget'.reports < budget.reports
  <2>1. /\ budget \in [{"reports", "commands", "noise"} -> Int] /\ budget.commands <= MaxInputs
        /\ budget.reports \in Int
    BY DEF WireInv
  <2>2. budget' = [budget EXCEPT !.reports = budget.reports - 1]
    BY <1>1
  <2> QED
    BY ONLY <2>1, <2>2
<1> HIDE DEF p
<1>5. tx' \in [Ends -> Seq(AllPayloads)] /\ tx'["central"] = tx["central"]
      /\ (tx'["peripheral"] = Append(tx["peripheral"], p) \/ tx' = tx)
  BY <1>1, <1>3, SentIs DEF Ends
<1>6. WireInv'
  BY <1>1, <1>4, <1>5 DEF WireInv, BufferOK
<1>7. CommandWay' = CommandWay
  BY <1>1, <1>5 DEF CommandWay
<1>8. Left(EventWay, EventWay) /\ Left(CommandWay, CommandWay)
  BY WireTypes, LeftSame
<1>9. CASE tx' = tx
  <2>1. EventWay' = EventWay
    BY <1>1, <1>9 DEF EventWay
  <2> QED
    BY <1>6, <1>7, <1>8, <2>1 DEF EventMoves, CommandMoves
<1>10. CASE tx'["peripheral"] = Append(tx["peripheral"], p)
  <2> DEFINE a == env["central"]  x == tx["peripheral"]  buf == rx["central"]
  <2>1. a \in Seq(Parts) /\ x \in Seq(Parts) /\ buf \in Seq(Tokens) /\ p \in Parts
    BY <1>3, WireTypes
  <2> HIDE DEF a, x, buf
  <2>2. Way(a, buf, Append(x, p)) = Way(a, buf, x) \o <<p>>
    BY <2>1, WayPutIn
  <2>3. EventWay' = Way(a, buf, Append(x, p)) /\ EventWay = Way(a, buf, x)
    BY <1>1, <1>10 DEF EventWay, a, x, buf
  <2>4. EventWay' = EventWay \o <<KeyEvent(k, b)>>
    BY <2>2, <2>3 DEF p
  <2> QED
    BY <1>2, <1>4, <1>6, <1>7, <1>8, <2>4 DEF EventMoves, CommandMoves
<1> QED
  BY <1>5, <1>9, <1>10

LEMMA StepWire ==
  ASSUME WireInv, [WireNext]_wireVars
  PROVE  WireInv' /\ EventMoves /\ CommandMoves
<1>1. CASE \E e \in Ends : Transfer(e)
  BY <1>1, StepTransfer
<1>2. CASE \E e \in Ends : GetItem(e)
  BY <1>2, StepGetItem
<1>3. CASE HandleEvent \/ HandleCommand \/ CommandWork
  BY <1>3, StepHandleEvent, StepHandleCommand, StepCommandWork
<1>4. CASE RxDone \/ Tell \/ \E k \in WiredKeys : Report(k)
  BY <1>4, StepRxDone, StepTell, StepReport
<1>5. CASE UNCHANGED <<tx, rx, env, cmdQ, budget>>
  <2>1. WireInv'
    BY <1>5 DEF WireInv, BufferOK
  <2> QED
    BY <1>5, <2>1, WireSame DEF EventMoves, CommandMoves
<1>6. CASE (\E e \in Ends : TxComplete(e)) \/ PublishStarts
  BY <1>5, <1>6 DEF TxComplete, PublishStarts
<1>7. CASE UNCHANGED wireVars
  BY <1>5, <1>7 DEF wireVars
<1> QED
  BY <1>1, <1>2, <1>3, <1>4, <1>6, <1>7 DEF WireNext

LEMMA InitWire ==
  ASSUME WireInit
  PROVE  WireInv /\ EventsUnderWay = <<>> /\ CommandsUnderWay = <<>>
<1>1. /\ tx = [e \in Ends |-> <<>>] /\ rx = [e \in Ends |-> <<>>] /\ env = [e \in Ends |-> <<>>]
      /\ cmdQ = <<>>
  BY DEF WireInit
<1>2. <<>> \in Seq(Tokens) /\ Len(<<>>) = 0 /\ <<>> \in Seq(AllPayloads) /\ <<>> \in Seq(Parts)
  OBVIOUS
<1>3. budget \in [{"reports", "commands", "noise"} -> Int] /\ budget.commands <= MaxInputs
  BY SplitWireAssumption DEF WireInit
<1>4. \A e \in Ends : BufferOK(rx[e], e)
  BY <1>1, <1>2, RoomInBuffers DEF BufferOK, WellFramed
<1>5. WireInv
  BY <1>1, <1>2, <1>3, <1>4 DEF WireInv
<1>6. Intact(<<>>) = <<>>
  <2>1. Starts(<<>>) = {}
    BY DEF Starts
  <2>2. Len(Intact(<<>>)) = 0 /\ Intact(<<>>) \in Seq(Seq(Tokens))
    BY <1>2, <2>1, IntactIs, FS_EmptySet
  <2> QED
    BY <2>2
<1>7. Commands(<<>>) = <<>>
  <2>1. Places(<<>>) = {}
    BY DEF Places
  <2>2. Len(Commands(<<>>)) = 0 /\ Commands(<<>>) \in Seq(Parts)
    BY <1>2, <2>1, CommandsAre, FS_EmptySet
  <2> QED
    BY <2>2
<1>8. /\ tx["central"] = <<>> /\ tx["peripheral"] = <<>> /\ rx["central"] = <<>> /\ rx["peripheral"] = <<>>
      /\ env["central"] = <<>> /\ env["peripheral"] = <<>>
  BY <1>1 DEF Ends
<1>9. EventsUnderWay = <<>>
  BY <1>6, <1>8 DEF EventsUnderWay, EventsOnTheWay
<1>10. CommandsUnderWay = <<>>
  <2>1. ((<<>> \o <<>>) \o <<>>) \o <<>> = <<>>
    OBVIOUS
  <2> QED
    BY <1>1, <1>6, <1>7, <1>8, <2>1 DEF CommandsUnderWay
<1> QED
  BY <1>5, <1>9, <1>10

WaysInv ==
  /\ EventsUnderWay = EventWay /\ EventWay \in Seq(Parts)
  /\ CommandsUnderWay = Commands(CommandWay) /\ CommandWay \in Seq(Parts)
LEMMA UnderWay == WireInv => WaysInv
<1> HAVE WireInv
<1> DEFINE a == env["central"]  i == Intact(rx["central"])  x == tx["peripheral"]
<1>1. a \in Seq(Parts) /\ x \in Seq(Parts) /\ i \in Seq(Parts)
  BY WireTypes, WayType
<1> HIDE DEF a, i, x
<1>2. (a \o i) \o x = a \o (i \o x)
  BY <1>1, JoinsMove, SMTT(60)
<1>3. EventsUnderWay = EventWay
  BY <1>2 DEF EventsUnderWay, EventsOnTheWay, EventWay, Way, a, i, x
<1>4. CommandsUnderWay = Commands(CommandWay)
  BY DEF CommandsUnderWay, CommandWay, Way
<1> QED
  BY <1>3, <1>4, WireTypes DEF WaysInv

LEMMA LeftLoses ==
  ASSUME NEW P, NEW s \in Seq(P), NEW t \in Seq(P), Left(t, s)
  PROVE  t = s \/ (Len(t) < Len(s) /\ EventFifo!IsLeftOf(t, s) /\ CommandFifo!IsLeftOf(t, s))
BY LeftLength, LeftIs

LEMMA Appended ==
  ASSUME NEW P, NEW s \in Seq(P), NEW x, NEW t, t = s \o <<x>>
  PROVE  /\ t # <<>> /\ t[Len(t)] = x
         /\ EventFifo!IsLeftOf(SubSeq(t, 1, Len(t) - 1), s)
<1>1. Len(t) = Len(s) + 1 /\ t[Len(t)] = x /\ Len(s) \in Nat
  OBVIOUS
<1>2. SubSeq(t, 1, Len(t) - 1) = s
  <2> DEFINE u == SubSeq(t, 1, Len(s))
  <2>1. t \in Seq(P \cup {x}) /\ s \in Seq(P \cup {x}) /\ Len(t) - 1 = Len(s)
        /\ \A k \in 1 .. Len(s) : t[k] = s[k]
    BY <1>1
  <2>2. u \in Seq(P \cup {x}) /\ Len(u) = Len(s) /\ \A k \in 1 .. Len(s) : u[k] = s[k]
    BY <1>1, <2>1
  <2> HIDE DEF u
  <2>3. u = s
    BY <2>1, <2>2, SeqSame
  <2> QED
    BY <2>1, <2>3 DEF u
<1>3. EventFifo!IsLeftOf(s, s)
  BY LeftSame, LeftIs
<1>4. t # <<>>
  BY <1>1
<1> QED
  BY <1>1, <1>2, <1>3, <1>4

LEMMA StepEvents ==
  ASSUME WireInv, [WireNext]_wireVars
  PROVE  /\ [EventFifo!Put \/ EventFifo!Lose \/ EventFifo!Deliver]_EventsUnderWay
         /\ [EventFifo!IsLeftOf(EventsUnderWay', EventsUnderWay) \/ budget'.reports < budget.reports]_wireVars
<1> DEFINE q == EventsUnderWay
<1>1. WireInv' /\ EventMoves
  BY StepWire
<1>2. q = EventWay /\ q \in Seq(Parts)
  BY UnderWay DEF WaysInv
<1>3. q' = EventWay' /\ q' \in Seq(Parts)
  <2>1. WaysInv'
    BY <1>1, UnderWay, PTL
  <2> QED
    BY <2>1 DEF WaysInv
<1> HIDE DEF q
<1>4. CASE Left(EventWay', EventWay)
  <2>1. q' = q \/ (Len(q') < Len(q) /\ EventFifo!IsLeftOf(q', q))
    BY <1>2, <1>3, <1>4, LeftLoses
  <2>2. EventFifo!IsLeftOf(q', q)
    BY <1>2, <1>3, <1>4, LeftIs
  <2> QED
    BY <2>1, <2>2 DEF EventFifo!Lose, q
<1>5. CASE /\ budget'.reports < budget.reports
           /\ \E k \in WiredKeys, b \in BOOLEAN : EventWay' = EventWay \o <<KeyEvent(k, b)>>
  <2>1. PICK k \in WiredKeys, b \in BOOLEAN : q' = q \o <<KeyEvent(k, b)>>
    BY <1>2, <1>3, <1>5
  <2>2. KeyEvent(k, b) \in {KeyEvent(j, c) : j \in WiredKeys, c \in BOOLEAN}
    OBVIOUS
  <2>3. /\ q' # <<>> /\ q'[Len(q')] = KeyEvent(k, b)
        /\ EventFifo!IsLeftOf(SubSeq(q', 1, Len(q') - 1), q)
    BY <1>2, <2>1, Appended
  <2>4. EventFifo!Put
    BY <2>2, <2>3 DEF EventFifo!Put, q
  <2> QED
    BY <1>5, <2>4
<1> QED
  BY <1>1, <1>4, <1>5 DEF EventMoves

LEMMA StepCommands ==
  ASSUME WireInv, [WireNext]_wireVars
  PROVE  /\ [CommandFifo!Put \/ CommandFifo!Lose \/ CommandFifo!Deliver]_CommandsUnderWay
         /\ [CommandFifo!IsLeftOf(CommandsUnderWay', CommandsUnderWay) \/ budget'.commands < budget.commands]_wireVars
<1> DEFINE q == CommandsUnderWay  w == CommandWay
<1>1. WireInv' /\ CommandMoves
  BY StepWire
<1>2. q = Commands(w) /\ w \in Seq(Parts)
  BY UnderWay DEF WaysInv
<1>3. q' = Commands(w') /\ w' \in Seq(Parts)
  <2>1. WaysInv'
    BY <1>1, UnderWay, PTL
  <2> QED
    BY <2>1 DEF WaysInv, Commands
<1> HIDE DEF q, w
<1>4. q \in Seq(Parts) /\ q' \in Seq(Parts)
  BY <1>2, <1>3, CommandsAre
<1>5. CASE Left(q', q)
  <2>1. q' = q \/ (Len(q') < Len(q) /\ CommandFifo!IsLeftOf(q', q))
    BY <1>4, <1>5, LeftLoses
  <2>2. CommandFifo!IsLeftOf(q', q)
    BY <1>5, LeftIs
  <2> QED
    BY <2>1, <2>2 DEF CommandFifo!Lose, q
<1>6. CASE Left(w', w)
  BY <1>2, <1>3, <1>5, <1>6, CommandsLeft
<1>7. CASE w' = w \o <<Poll>>
  <2>1. Poll \in Parts
    BY WireTypes DEF AllPayloads
  <2>2. Left(q', q)
    BY <1>2, <1>3, <1>7, <2>1, CommandsMore
  <2> QED
    BY <1>5, <2>2
<1>8. CASE /\ budget'.commands < budget.commands
           /\ \E n \in 1 .. MaxInputs : w' = w \o <<Command(n)>>
  <2>1. PICK n \in 1 .. MaxInputs : w' = w \o <<Command(n)>>
    BY <1>8
  <2>2. Command(n) \in Parts /\ Command(n) # Poll
    BY WireTypes, CommandParts DEF AllPayloads
  <2>3. Command(n) \in {Command(m) : m \in 1 .. MaxInputs}
    OBVIOUS
  <2>4. /\ q' # <<>> /\ q'[Len(q')] = Command(n)
        /\ Left(SubSeq(q', 1, Len(q') - 1), q)
    <3> DEFINE x == Command(n)
    <3>1. w' = w \o <<x>> /\ x \in Parts /\ x # Poll /\ w \in Seq(Parts)
      BY <1>2, <2>1, <2>2
    <3> HIDE DEF x
    <3>2. Commands(w') # <<>> /\ Commands(w')[Len(Commands(w'))] = x
      BY <3>1, CommandsMore
    <3>3. Left(SubSeq(Commands(w'), 1, Len(Commands(w')) - 1), Commands(w))
      BY <3>1, CommandsMore, Zenon
    <3> QED
      BY <1>2, <1>3, <3>2, <3>3 DEF x
  <2>5. CommandFifo!IsLeftOf(SubSeq(q', 1, Len(q') - 1), q)
    BY <2>4, LeftIs
  <2>6. CommandFifo!Put
    BY <2>3, <2>4, <2>5 DEF CommandFifo!Put, q
  <2> QED
    BY <1>8, <2>6
<1> QED
  BY <1>1, <1>6, <1>7, <1>8 DEF CommandMoves, w

LEMMA WireInvariance == WireSpec => []WireInv
<1>1. WireInv /\ [WireNext]_wireVars => WireInv'
  BY StepWire
<1>2. WireInit => WireInv
  BY InitWire
<1> QED
  BY <1>1, <1>2, PTL DEF WireSpec

\* The cable implements a lossy FIFO for the key events of the peripheral half: whatever
\* tokens are garbled, whatever part of a frame a full buffer cuts off and wherever reading
\* resumes, the central half handles an event at most once and in the order in which the
\* peripheral reported them, and there is nothing more to handle unless it reported one.
THEOREM WiredEventsInOrder == WireSpec => EventsInOrder
<1>1. WireInv /\ [WireNext]_wireVars =>
        [EventFifo!Put \/ EventFifo!Lose \/ EventFifo!Deliver]_EventsUnderWay
  BY StepEvents
<1>2. WireInv /\ [WireNext]_wireVars =>
        [EventFifo!IsLeftOf(EventsUnderWay', EventsUnderWay) \/ budget'.reports < budget.reports]_wireVars
  BY StepEvents
<1>3. WireInit => EventFifo!Init
  BY InitWire DEF EventFifo!Init
<1> QED
  BY <1>1, <1>2, <1>3, WireInvariance, PTL DEF WireSpec, EventFifo!Spec, EventsInOrder

\* The same for the commands of the central half, which polls accompany: they come out of
\* the queue of the peripheral at most once and in the order in which they were sent.
THEOREM WiredCommandsInOrder == WireSpec => CommandsInOrder
<1>1. WireInv /\ [WireNext]_wireVars =>
        [CommandFifo!Put \/ CommandFifo!Lose \/ CommandFifo!Deliver]_CommandsUnderWay
  BY StepCommands
<1>2. WireInv /\ [WireNext]_wireVars =>
        [CommandFifo!IsLeftOf(CommandsUnderWay', CommandsUnderWay) \/ budget'.commands < budget.commands]_wireVars
  BY StepCommands
<1>3. WireInit => CommandFifo!Init
  BY InitWire DEF CommandFifo!Init
<1> QED
  BY <1>1, <1>2, <1>3, WireInvariance, PTL DEF WireSpec, CommandFifo!Spec, CommandsInOrder
=============================================================================
