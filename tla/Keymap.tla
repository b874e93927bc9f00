------------------------------- MODULE Keymap -------------------------------
(***************************************************************************)
(* The keymap of src/app/src/keymap.c with the layer behaviors of          *)
(* src/app/src/behaviors: which layers are active or locked, which binding *)
(* a key invokes, and the edits ZMK Studio makes while keys are held.      *)
(*                                                                         *)
(* Key events are handled on the cooperative system work queue, one step   *)
(* per event.  Edits run on the Studio RPC thread, of the lowest priority, *)
(* without a lock: a key event may come between any two writes of one.     *)
(***************************************************************************)
EXTENDS Integers, Sequences, FiniteSets

CONSTANTS
  LayerCount,    \* ZMK_KEYMAP_LAYERS_LEN
  Positions,     \* key positions
  Bindings,      \* the bindings of the keymap
  Assignable,    \* those that Studio assigns
  Builds,        \* the stock keymaps, each with the number of layers it uses
  MaxEdits,      \* bound on the number of edits
  Inval,         \* ZMK_KEYMAP_LAYER_ID_INVAL
  NoBinding      \* no binding was invoked

Layers == 0 .. LayerCount - 1
Default == 0     \* _zmk_keymap_layer_default, never assigned
LayerKinds == {"mo", "tog", "tog_on", "tog_off", "to"}

\* A binding: a layer behavior, &trans, or "kp" for any other behavior
ASSUME KeymapAssumption ==
  /\ LayerCount \in Nat \ {0}
  /\ MaxEdits \in Nat
  /\ Inval \notin Layers /\ NoBinding \notin Bindings
  /\ \A b \in Bindings : /\ b.kind \in LayerKinds \cup {"trans", "kp"}
                         /\ b.kind \in LayerKinds => b.arg \in Layers
  /\ Assignable \subseteq Bindings
  /\ Builds \subseteq [used : 1 .. LayerCount, keymap : [Layers -> [Positions -> Bindings]]]

VARIABLES
  active,      \* _zmk_keymap_layer_state
  locks,       \* _zmk_keymap_layer_locks
  order,       \* keymap_layer_orders
  keymap,      \* zmk_keymap
  recorded,    \* zmk_keymap_active_behavior_layer
  writes,      \* the writes to order an edit has still to make
  edits,       \* how many edits there were, for the bound
  down,        \* the positions that are pressed
  held,        \* per position, the binding its press invoked
  edited,      \* the pressed positions that saw an edit since their press
  misrouted    \* did a release ever go to another binding than the press?
keymapVars == <<active, locks, order, keymap, recorded, writes, edits, down, held, edited,
                misrouted>>
-----------------------------------------------------------------------------
(* Layer state.  st is what the operators change.  Operators whose comment  *)
(* starts with "Fault:" are faulty variants of the definition that follows, *)
(* which nothing uses: put in its place they show that a property notices.  *)

LayerState == [active |-> active, locks |-> locks]

\* set_layer_state: the default layer is never turned off, and a layer that is
\* locked active only by a locking call
SetLayerState(st, l, on, locking) ==
  IF ~on /\ (l = Default \/ (~locking /\ l \in st.locks)) THEN st
  ELSE LET Write(set) == IF on THEN set \cup {l} ELSE set \ {l}
       IN [active |-> Write(st.active),
           locks |-> IF locking THEN Write(st.locks) ELSE st.locks]

\* zmk_keymap_layer_active_with_state, also used for the locks
ActiveWithState(l, set) == l \in set \/ l = Default

\* zmk_keymap_layer_toggle, called with locking set
LayerToggle(st, l) ==
  SetLayerState(st, l, ~(ActiveWithState(l, st.active) /\ ActiveWithState(l, st.locks)), TRUE)

\* Fault: it takes the locks off but not the layers that they protect.
LayerToUnlocking(st, l) == [active |-> (st.active \cap (st.locks \cup {Default})) \cup {l},
                            locks |-> (st.locks \cap {Default}) \cup {l}]
\* zmk_keymap_layer_to, called with locking set: all others off, then this one on
LayerTo(st, l) == [active |-> (st.active \cap {Default}) \cup {l},
                   locks |-> (st.locks \cap {Default}) \cup {l}]

\* What the press or release of a layer behavior does
Invoke(st, b, pressed) ==
  IF b = NoBinding THEN st
  ELSE CASE b.kind = "mo"                  -> SetLayerState(st, b.arg, pressed, FALSE)
         [] b.kind = "tog_on"  /\ pressed  -> SetLayerState(st, b.arg, TRUE, TRUE)
         [] b.kind = "tog_off" /\ pressed  -> SetLayerState(st, b.arg, FALSE, TRUE)
         [] b.kind = "tog"     /\ pressed  -> LayerToggle(st, b.arg)
         [] b.kind = "to"      /\ pressed  -> LayerTo(st, b.arg)
         [] OTHER                          -> st
-----------------------------------------------------------------------------
(* zmk_keymap_position_state_changed: from the top of the order down to the *)
(* default layer, the first active layer whose binding is not transparent.  *)

Takes(i, p, state) ==
  /\ \E j \in 0 .. i : order[j] = Default
  /\ order[i] # Inval
  /\ ActiveWithState(order[i], state)
  /\ keymap[order[i]][p].kind # "trans"
Resolve(p, state) ==
  IF \E i \in Layers : Takes(i, p, state)
  THEN LET i == CHOOSE i \in Layers : /\ Takes(i, p, state)
                                      /\ \A j \in Layers : j > i => ~Takes(j, p, state)
       IN keymap[order[i]][p]
  ELSE NoBinding

SetLayers(st) == active' = st.active /\ locks' = st.locks

\* Fault: the layers of the press are not recorded.
PositionPressedUnrecorded(p) ==
  /\ p \notin down
  /\ SetLayers(Invoke(LayerState, Resolve(p, active), TRUE))
  /\ down' = down \cup {p}
  /\ held' = [held EXCEPT ![p] = Resolve(p, active)]
  /\ edited' = edited \ {p}
  /\ UNCHANGED <<order, keymap, recorded, writes, edits, misrouted>>
PositionPressed(p) ==
  /\ p \notin down
  /\ recorded' = [recorded EXCEPT ![p] = active]
  /\ SetLayers(Invoke(LayerState, Resolve(p, active), TRUE))
  /\ down' = down \cup {p}
  /\ held' = [held EXCEPT ![p] = Resolve(p, active)]
  /\ edited' = edited \ {p}
  /\ UNCHANGED <<order, keymap, writes, edits, misrouted>>

PositionReleased(p) ==
  /\ p \in down
  /\ SetLayers(Invoke(LayerState, Resolve(p, recorded[p]), FALSE))
  /\ down' = down \ {p}
  /\ held' = [held EXCEPT ![p] = NoBinding]
  /\ misrouted' = (misrouted \/ held[p] # Resolve(p, recorded[p]))
  /\ UNCHANGED <<order, keymap, recorded, writes, edits, edited>>
-----------------------------------------------------------------------------
(* Edits of ZMK Studio.                                                     *)

Write(i, id) == [at |-> i, id |-> id]

\* The writes of zmk_keymap_move_layer, in their order; start # dest
MoveWrites(start, dest) ==
  LET by == IF dest > start THEN 1 ELSE -1
      n  == IF dest > start THEN dest - start ELSE start - dest
  IN [k \in 1 .. n + 1 |-> IF k <= n
                           THEN Write(start + (k - 1) * by, order[start + k * by])
                           ELSE Write(dest, order[start])]
\* Fault: every write goes one index too far.
RemoveWritesPast(index) ==
  [k \in 1 .. LayerCount - index |->
     Write(index + k, IF index + k < LayerCount THEN order[index + k] ELSE Inval)]
\* of zmk_keymap_remove_layer
RemoveWrites(index) ==
  [k \in 1 .. LayerCount - index |->
     Write(index + k - 1, IF index + k < LayerCount THEN order[index + k] ELSE Inval)]
\* of zmk_keymap_restore_layer, which drops the last layer of the order
RestoreWrites(id, at) ==
  [k \in 1 .. LayerCount - at |->
     Write(LayerCount - k, IF LayerCount - k > at THEN order[LayerCount - k - 1] ELSE id)]
StartEdit == writes = <<>> /\ edits < MaxEdits /\ edits' = edits + 1
LeaveKeys == UNCHANGED <<active, locks, recorded, down, held, misrouted>>
EditOrder(ws) ==
  /\ StartEdit /\ writes' = ws /\ ws # <<>>
  /\ LeaveKeys /\ UNCHANGED <<order, keymap, edited>>

MoveLayer(start, dest) == start # dest /\ EditOrder(MoveWrites(start, dest))
RemoveLayer(index)     == order[index] # Inval /\ EditOrder(RemoveWrites(index))
RestoreLayer(id, at)   == EditOrder(RestoreWrites(id, at))
\* into the first free index, the lowest id that no index before it has
AddLayer(id, at) ==
  LET unused == {i \in Layers : \A j \in Layers : j < at => order[j] # i}
  IN /\ order[at] = Inval /\ \A j \in Layers : j < at => order[j] # Inval
     /\ id \in unused /\ \A i \in unused : id <= i
     /\ EditOrder(<<Write(at, id)>>)

\* One write of the edit in progress
WriteOrder ==
  /\ writes # <<>>
  /\ order' = [order EXCEPT ![Head(writes).at] = Head(writes).id]
  /\ writes' = Tail(writes)
  /\ edited' = down
  /\ LeaveKeys /\ UNCHANGED <<keymap, edits>>

\* zmk_keymap_set_layer_binding_at_idx
SetLayerBinding(l, p, b) ==
  /\ StartEdit
  /\ keymap[l][p] # b
  /\ keymap' = [keymap EXCEPT ![l][p] = b]
  /\ edited' = down
  /\ LeaveKeys /\ UNCHANGED <<order, writes>>
-----------------------------------------------------------------------------
\* load_stock_keymap_layer_ordering and reload_from_stock_keymap
KeymapInit ==
  /\ active = {} /\ locks = {}
  /\ \E b \in Builds : /\ order = [i \in Layers |-> IF i < b.used THEN i ELSE Inval]
                       /\ keymap = b.keymap
  /\ recorded = [p \in Positions |-> {}]
  /\ writes = <<>> /\ edits = 0
  /\ down = {} /\ held = [p \in Positions |-> NoBinding] /\ edited = {}
  /\ misrouted = FALSE

Edit == \/ \E i, j \in Layers : MoveLayer(i, j) \/ RestoreLayer(i, j) \/ AddLayer(i, j)
        \/ \E i \in Layers : RemoveLayer(i)
        \/ WriteOrder
        \/ \E l \in Layers, p \in Positions, b \in Assignable : SetLayerBinding(l, p, b)
KeymapNext == \/ \E p \in Positions : PositionPressed(p) \/ PositionReleased(p)
              \/ Edit
KeymapSpec == KeymapInit /\ [][KeymapNext]_keymapVars
-----------------------------------------------------------------------------
Bound == Bindings \cup {NoBinding}

KeymapTypeOK ==
  /\ active \subseteq Layers /\ locks \subseteq Layers
  /\ order \in [Layers -> Layers \cup {Inval}]
  /\ keymap \in [Layers -> [Positions -> Bindings]]
  /\ recorded \in [Positions -> SUBSET Layers]
  /\ writes \in Seq([at : Layers, id : Layers \cup {Inval}])
  /\ edits \in 0 .. MaxEdits
  /\ down \subseteq Positions
  /\ held \in [Positions -> Bound]
  /\ edited \subseteq Positions
  /\ misrouted \in BOOLEAN

\* A locked layer is active: no release of a momentary key, and no order in which
\* toggles, momentary keys and &to come, turns it off behind the lock.
LocksActive == locks \subseteq active

\* A layer that is active and not locked has a momentary key held down for it: no
\* layer is left on when its keys are up, whatever the keys in between did.
MomentaryHeld ==
  ~misrouted =>
    \A l \in active \ (locks \cup {Default}) :
      \E p \in down : held[p] # NoBinding /\ held[p].kind = "mo" /\ held[p].arg = l

\* The release of a key goes to the binding its press invoked, even when the layers
\* have changed in between, unless the keymap was edited while the key was down.
ReleaseFollowsPress ==
  [][\A p \in down \ edited : p \notin down' => misrouted' = misrouted]_keymapVars
=============================================================================
