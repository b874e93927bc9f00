------------------------------- MODULE Split -------------------------------
(***************************************************************************)
(* A split keyboard over Bluetooth: the connections of SplitLink and the   *)
(* keys of SplitKeys together.  A connection that ends takes with it what  *)
(* is on the air, and the central releases the positions of its slot.      *)
(***************************************************************************)
EXTENDS SplitLink, SplitKeys

vars == <<linkVars, keysVars>>

Heard(p) == link[p] = "up" /\ \E s \in Slots : IsSlotOf(s, p) /\ listening[s] = "yes"

KeyChange(p, pos) == PositionChanged(p, pos, Heard(p)) /\ UNCHANGED linkVars
StateTaken(p) == TakeState(p) /\ UNCHANGED linkVars
StateNotified(p) == Notify(p, link[p] = "up" /\ bonded[p]) /\ UNCHANGED linkVars
Notification(p, s) == /\ link[p] = "up" /\ IsSlotOf(s, p)
                      /\ Notified(p, s, listening[s] = "yes") /\ UNCHANGED linkVars
EventRaised == EventWork /\ UNCHANGED linkVars

LinkBreaks(p) == LinkLost(p) /\ Hush(p) /\ UNCHANGED <<view, events, lost, dropped>>
SlotReleased(p, s) ==
  /\ Disconnected(p, s) /\ ReleasePositions(s)
  /\ UNCHANGED <<pressed, stateQ, sending, air, keys, fresh, changes>>

Init == LinkInit /\ KeysInit

Next ==
  \/ \E p \in Peripherals, pos \in Positions : KeyChange(p, pos)
  \/ \E p \in Peripherals : StateTaken(p) \/ StateNotified(p) \/ LinkBreaks(p)
  \/ \E p \in Peripherals, s \in Slots : Notification(p, s) \/ SlotReleased(p, s)
  \/ EventRaised
  \/ /\ UNCHANGED keysVars
     /\ \/ FinishInit
        \/ \E p \in Peripherals, s \in Slots :
             \/ DeviceFound(p, s) \/ CreateFails(p, s) \/ Connected(p, s) \/ ConnectFails(p, s)
             \/ Subscribe(p, s)
        \/ \E p \in Peripherals : \/ AdvertisingTimeout(p) \/ AdvertisingWork(p)
                                  \/ PeripheralDisconnected(p)

\* The work queues and the Bluetooth threads of both halves run.  While the central scans
\* and a peripheral advertises, one is found again and again; and of the attempts to
\* connect, again and again one succeeds.
KeyWork == \/ EventRaised
           \/ \E p \in Peripherals : \/ StateTaken(p) \/ StateNotified(p)
                                     \/ \E s \in Slots : Notification(p, s)
LinkWork == \/ \E p \in Peripherals, s \in Slots : SlotReleased(p, s)
            \/ /\ UNCHANGED keysVars
               /\ \/ FinishInit
                  \/ \E p \in Peripherals : \/ AdvertisingWork(p) \/ PeripheralDisconnected(p)
                                            \/ \E s \in Slots : Subscribe(p, s)
Finding == \E p \in Peripherals, s \in Slots :
             DeviceFound(p, s) /\ link'[p] = "pending" /\ UNCHANGED keysVars
Connecting == \E p \in Peripherals, s \in Slots : Connected(p, s) /\ UNCHANGED keysVars
Fairness == WF_vars(KeyWork) /\ WF_vars(LinkWork) /\ SF_vars(Finding) /\ SF_vars(Connecting)
Spec == Init /\ [][Next]_vars /\ Fairness
-----------------------------------------------------------------------------
TypeOK == LinkTypeOK /\ KeysTypeOK

\* Slots, connections and the scan of the central agree in every state.
LinksSound == TypeOK /\ SlotsFollowLinks /\ ScanningWhenNeeded

LatestStateArrives ==
  \A p \in Peripherals, s \in Slots : IsSlotOf(s, p) => LastStateArrives(s, p)

\* What all retrying leads to, unless the stack failed: every peripheral is connected, and
\* the keymap knows the last change of its keys, but for events that were dropped.
InSync(p) == \E s \in Slots : conn[s] = p /\ (fresh[p] /\ lost = {} => keys[s] = pressed[p])
SettledByAir == failures > 0 \/ \A p \in Peripherals : InSync(p)
=============================================================================
