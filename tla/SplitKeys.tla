------------------------------ MODULE SplitKeys ------------------------------
(***************************************************************************)
(* The way of a key from a peripheral half to the keymap of the central    *)
(* one: src/app/src/split/bluetooth/service.c on the peripheral,           *)
(* split/bluetooth/central.c and split/central.c on the central half.      *)
(*                                                                         *)
(* The peripheral sends the bitmap of all its positions whenever one of    *)
(* them changes, through a queue that its own work queue empties.  The     *)
(* Bluetooth thread of the central compares each bitmap with the last one  *)
(* and puts an event per changed position into a queue that the system     *)
(* work queue empties into the keymap.                                     *)
(***************************************************************************)
EXTENDS SplitNodes, Sequences

CONSTANTS
  Positions,     \* the key positions, each a number
  StateQueue,    \* CONFIG_ZMK_SPLIT_BLE_PERIPHERAL_POSITION_QUEUE_SIZE
  EventQueue,    \* CONFIG_ZMK_SPLIT_BLE_CENTRAL_POSITION_QUEUE_SIZE
  MaxChanges     \* bound on the number of key changes

ASSUME SplitKeysAssumption ==
  /\ Positions \subseteq Nat /\ IsFiniteSet(Positions)
  /\ StateQueue \in Nat \ {0} /\ EventQueue \in Nat \ {0} /\ MaxChanges \in Nat

VARIABLES
  pressed,    \* per peripheral, position_state: the positions that are down
  stateQ,     \* per peripheral, position_state_msgq
  sending,    \* per peripheral, the state its work queue took and has yet to notify
  air,        \* per peripheral, the notifications on their way
  view,       \* per slot, position_state: the last state the central got
  events,     \* peripheral_event_msgq
  keys,       \* per slot, the positions that are down for the keymap
  lost,       \* the slots and positions whose last event found the queue full
  dropped,    \* did an event ever find it full?
  fresh,      \* per peripheral, did a key change since the central listens to it?
  changes     \* how many keys changed, for the bound
keysVars == <<pressed, stateQ, sending, air, view, events, keys, lost, dropped, fresh, changes>>

Event(s, pos, down) == [slot |-> s, pos |-> pos, pressed |-> down]
Toggle(set, x) == (set \ {x}) \cup ({x} \ set)
Smaller(n, m) == IF n < m THEN n ELSE m
-----------------------------------------------------------------------------
(* The peripheral.                                                          *)

\* Operators whose comment starts with "Fault:" are faulty variants of the definition that
\* follows.  Nothing uses them: put in its place they show that a property notices.
\* Fault: a state that finds the queue full is not sent.
QueuedIfRoom(q, state) == IF Len(q) < StateQueue THEN Append(q, state) ELSE q
\* send_position_state: a full queue loses its oldest state
Queued(q, state) == Append(IF Len(q) < StateQueue THEN q ELSE Tail(q), state)

\* zmk_split_bt_position_pressed and _released; `heard' when the central is subscribed
PositionChanged(p, pos, heard) ==
  /\ changes < MaxChanges /\ changes' = changes + 1
  /\ pressed' = [pressed EXCEPT ![p] = Toggle(@, pos)]
  /\ stateQ' = [stateQ EXCEPT ![p] = Queued(@, pressed'[p])]
  /\ fresh' = [fresh EXCEPT ![p] = @ \/ heard]
  /\ UNCHANGED <<sending, air, view, events, keys, lost, dropped>>

\* send_position_state_callback: the work queue takes the next state ...
TakeState(p) ==
  /\ sending[p] = <<>> /\ stateQ[p] # <<>>
  /\ sending' = [sending EXCEPT ![p] = <<Head(stateQ[p])>>]
  /\ stateQ' = [stateQ EXCEPT ![p] = Tail(@)]
  /\ UNCHANGED <<pressed, air, view, events, keys, lost, dropped, fresh, changes>>

\* ... and notifies it, which fails, with no retry, unless a central has enabled it
Notify(p, enabled) ==
  /\ sending[p] # <<>>
  /\ sending' = [sending EXCEPT ![p] = <<>>]
  /\ air' = [air EXCEPT ![p] = IF enabled THEN @ \o sending[p] ELSE @]
  /\ UNCHANGED <<pressed, stateQ, view, events, keys, lost, dropped, fresh, changes>>
-----------------------------------------------------------------------------
(* The central.                                                             *)

\* The loop over bytes and bits: the positions of a set in ascending order
Ascending(set) ==
  [k \in 1 .. Cardinality(set) |->
     CHOOSE x \in set : Cardinality({y \in set : y < x}) = k - 1]

\* Puts with K_NO_WAIT, results ignored: what does not fit is dropped
PutEvents(s, positions, down) ==
  LET order == Ascending(positions)
      fit == Smaller(Len(order), EventQueue - Len(events))
  IN /\ events' = events \o [k \in 1 .. fit |-> Event(s, order[k], order[k] \in down)]
     /\ lost' = {l \in lost : l[1] # s \/ l[2] \notin positions}
                  \cup {<<s, order[k]>> : k \in fit + 1 .. Len(order)}
     /\ dropped' = (dropped \/ fit < Len(order))

\* Fault: the bits that fell are not taken over.
StoredIfSet(s, state) == [view EXCEPT ![s] = @ \cup state]
Stored(s, state) == [view EXCEPT ![s] = state]

\* split_central_notify_func, for slot s; without a subscription nobody is called
Notified(p, s, subscribed) ==
  /\ air[p] # <<>>
  /\ air' = [air EXCEPT ![p] = Tail(@)]
  /\ LET state == Head(air[p])
         changed == (state \ view[s]) \cup (view[s] \ state)
     IN IF subscribed
        THEN view' = Stored(s, state) /\ PutEvents(s, changed, state)
        ELSE UNCHANGED <<view, events, lost, dropped>>
  /\ UNCHANGED <<pressed, stateQ, sending, keys, fresh, changes>>

\* Fault: the slot is emptied without releasing its positions.
ReleasePositionsSilently(s) ==
  /\ view' = [view EXCEPT ![s] = {}]
  /\ UNCHANGED <<events, lost, dropped>>
\* release_peripheral_slot, for the positions: a release for each one that is down
ReleasePositions(s) ==
  /\ PutEvents(s, view[s], {})
  /\ view' = [view EXCEPT ![s] = {}]

\* A connection ends, with what is on its way over it
Hush(p) ==
  /\ air' = [air EXCEPT ![p] = <<>>]
  /\ fresh' = [fresh EXCEPT ![p] = FALSE]
  /\ UNCHANGED <<pressed, stateQ, sending, keys, changes>>

\* peripheral_event_work_callback and the handler of split/central.c, one event
EventWork ==
  /\ events # <<>>
  /\ events' = Tail(events)
  /\ LET e == Head(events)
     IN keys' = [keys EXCEPT ![e.slot] = IF e.pressed THEN @ \cup {e.pos} ELSE @ \ {e.pos}]
  /\ UNCHANGED <<pressed, stateQ, sending, air, view, lost, dropped, fresh, changes>>
-----------------------------------------------------------------------------
KeysInit ==
  /\ pressed = [p \in Peripherals |-> {}] /\ stateQ = [p \in Peripherals |-> <<>>]
  /\ sending = [p \in Peripherals |-> <<>>] /\ air = [p \in Peripherals |-> <<>>]
  /\ view = [s \in Slots |-> {}] /\ events = <<>> /\ keys = [s \in Slots |-> {}]
  /\ lost = {} /\ dropped = FALSE /\ fresh = [p \in Peripherals |-> FALSE] /\ changes = 0

KeysTypeOK ==
  /\ pressed \in [Peripherals -> SUBSET Positions]
  /\ {stateQ, sending, air} \subseteq [Peripherals -> Seq(SUBSET Positions)]
  /\ \A p \in Peripherals : Len(stateQ[p]) <= StateQueue /\ Len(sending[p]) <= 1
  /\ view \in [Slots -> SUBSET Positions] /\ keys \in [Slots -> SUBSET Positions]
  /\ events \in Seq([slot : Slots, pos : Positions, pressed : BOOLEAN])
  /\ Len(events) <= EventQueue
  /\ lost \subseteq Slots \X Positions
  /\ dropped \in BOOLEAN
  /\ fresh \in [Peripherals -> BOOLEAN] /\ changes \in 0 .. MaxChanges

\* What the keymap will hold once the queue is empty
About(s, pos) == {k \in DOMAIN events : events[k].slot = s /\ events[k].pos = pos}
WillBeDown(s, pos) ==
  IF About(s, pos) = {} THEN pos \in keys[s]
  ELSE events[CHOOSE k \in About(s, pos) : \A j \in About(s, pos) : j <= k].pressed

\* Whatever is pressed, released and disconnected while events wait in the queue, the
\* keymap ends up with the positions that the central last saw down, save those whose
\* last event found the queue full: a dropped event is the only way to a stuck key, and
\* the next change of the same key mends it.
KeymapFollowsView ==
  \A s \in Slots, pos \in Positions :
    <<s, pos>> \notin lost => WillBeDown(s, pos) = (pos \in view[s])

\* Events about one position alternate as long as none is dropped: the keymap is never
\* told that a key went down which it has down already.
EventsAlternate ==
  [][~dropped /\ Len(events') < Len(events) => keys' # keys]_keysVars

\* The last bitmap on the way to a central that listens is the state of the keys: with
\* full queues and lost connections a change may be overtaken, but never the last one.
LastStateArrives(s, p) ==
  LET way == <<view[s]>> \o air[p] \o sending[p] \o stateQ[p]
  IN fresh[p] => way[Len(way)] = pressed[p]
=============================================================================
