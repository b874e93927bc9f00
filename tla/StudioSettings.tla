---------------------------- MODULE StudioSettings ----------------------------
(***************************************************************************)
(* What ZMK Studio edits and keeps: the bindings, the layer order and the  *)
(* layer names of src/app/src/keymap.c, the selected layout of             *)
(* physical_layouts.c and the configurations of hold-taps and combos, in   *)
(* RAM and in the settings in flash.                                       *)
(*                                                                         *)
(* Requests are served one after the other by the Studio RPC thread.  An   *)
(* edit changes RAM.  save_changes and reset_settings write one setting    *)
(* after the other; a write may fail, and power may go between any two.    *)
(*                                                                         *)
(* Operators whose comment starts with "Fault:" are faulty variants of the *)
(* definition that follows, which nothing uses.                            *)
(***************************************************************************)
EXTENDS Integers, FiniteSets

CONSTANTS
  LayerCount,     \* ZMK_KEYMAP_LAYERS_LEN, reserved layers included
  StockCount,     \* how many of them the devicetree keymap defines
  PositionCount,  \* ZMK_KEYMAP_LEN
  HoldTapCount,   \* hold-tap behaviors
  ComboCount,     \* combos
  Bindings,       \* a binding: head is its behavior and the low half of param1, tail the rest
  StockKeymap,    \* zmk_stock_keymap
  Names,          \* names of layers
  StockName,      \* the name of each layer in the devicetree
  Layouts,        \* physical layouts
  DefaultLayout,  \* get_default_layout
  Configs,        \* configurations of a hold-tap or combo
  StockConfig,    \* the one in the devicetree
  MaxEdits,       \* bound on the number of edits
  Inval,          \* ZMK_KEYMAP_LAYER_ID_INVAL
  None            \* no such setting in flash

CellCount == LayerCount * PositionCount
ConfigCount == HoldTapCount + ComboCount
Layers == 0 .. LayerCount - 1
Cells == 0 .. CellCount - 1        \* binding p of layer l is cell l * PositionCount + p
ConfigIds == 0 .. ConfigCount - 1  \* hold-taps before combos

ASSUME SettingsAssumption ==
  /\ LayerCount \in Nat \ {0} /\ StockCount \in 1 .. LayerCount
  /\ PositionCount \in Nat \ {0} /\ CellCount \in Nat
  /\ HoldTapCount \in Nat /\ ComboCount \in Nat /\ MaxEdits \in Nat
  /\ StockKeymap \in [Cells -> Bindings] /\ StockName \in [Layers -> Names]
  /\ DefaultLayout \in Layouts /\ StockConfig \in [ConfigIds -> Configs]
  /\ Inval \notin Layers
  /\ None \notin Bindings /\ None \notin Names /\ None \notin Layouts /\ None \notin Configs
  /\ None \notin [Layers -> Layers \cup {Inval}]

\* The settings, and where in save_changes each one is written
Cell(n) == <<"cell", n>>
Name(l) == <<"name", l>>
Config(n) == <<"config", n>>
Layout == <<"layout", 0>>
Order == <<"order", 0>>
CellKeys == {Cell(n) : n \in Cells}
NameKeys == {Name(l) : l \in Layers}
ConfigKeys == {Config(n) : n \in ConfigIds}
Keys == CellKeys \cup NameKeys \cup ConfigKeys \cup {Layout, Order}

VARIABLES
  ram,            \* the values in use, per setting
  flash,          \* the settings in flash, per setting
  dirty,          \* zmk_keymap_layer_pending_changes and changed_layer_names
  settingsOrder,  \* settings_layer_orders
  job,            \* the request at work
  at,             \* how many settings it is done with
  failed,         \* first_err of a reset
  reply,          \* the last request to be answered, and how
  told,           \* the last unsaved_changes_status_changed notification
  since,          \* the resets and discards since power-up
  edits           \* how many edits there were, for the bound
vars == <<ram, flash, dirty, settingsOrder, job, at, failed, reply, told, since, edits>>

Orders == [Layers -> Layers \cup {Inval}]
StockOrder == [i \in Layers |-> IF i < StockCount THEN i ELSE Inval]

Stock(k) ==
  CASE k[1] = "cell"   -> [bind |-> StockKeymap[k[2]], id |-> FALSE]
    [] k[1] = "name"   -> StockName[k[2]]
    [] k[1] = "config" -> StockConfig[k[2]]
    [] k[1] = "layout" -> DefaultLayout
    [] k[1] = "order"  -> StockOrder

\* What saving puts in flash: of a binding, the id of its behavior and the parameters
Stored(k, v) == IF k[1] = "cell" THEN v.bind ELSE v
\* keymap_handle_set and its like: a binding that was loaded has its local_id
\* set, one from the devicetree or from set_layer_binding does not.
Loaded(k, s) == IF k[1] = "cell" THEN [bind |-> s, id |-> TRUE] ELSE s
\* What a setting is after a restart
Kept(k) == IF flash[k] = None THEN Stock(k) ELSE Loaded(k, flash[k])
Synced(k) == Stored(k, ram[k]) = Stored(k, Kept(k))

\* load_stock_keymap_layer_ordering leaves the tail of settings_layer_orders alone
StockSettingsOrder(old) == [i \in Layers |-> IF i < StockCount THEN i ELSE old[i]]
LoadOrder(old) == IF flash[Order] = None THEN StockSettingsOrder(old) ELSE flash[Order]
-----------------------------------------------------------------------------
(* Edits.  The ones of the layer order are those the Studio client makes:   *)
(* it names layers that are there, and restores one that is not.            *)

Edit(k, v) ==
  /\ job = "idle" /\ edits < MaxEdits
  /\ ram' = [ram EXCEPT ![k] = v]
  /\ told' = "unsaved" /\ reply' = "edited" /\ edits' = edits + 1
  /\ UNCHANGED <<flash, settingsOrder, job, at, failed, since>>

\* set_layer_binding: n is the cell that the selected layout maps the key to
SetLayerBinding(n, b) ==
  LET new == [bind |-> b, id |-> FALSE]
  IN /\ Edit(Cell(n), new)
     /\ dirty' = IF ram[Cell(n)] = new THEN dirty ELSE dirty \cup {Cell(n)}

SetLayerName(l, name) == Edit(Name(l), name) /\ dirty' = dirty \cup {Name(l)}

\* set_active_physical_layout answers at once when the layout is in use
SelectLayout(x) == x # ram[Layout] /\ Edit(Layout, x) /\ UNCHANGED dirty

\* set_behavior_config and set_combo
SetConfig(n, v) == Edit(Config(n), v) /\ UNCHANGED dirty

EditOrder(o) == Edit(Order, o) /\ UNCHANGED dirty

Used == {i \in Layers : ram[Order][i] # Inval}

\* zmk_keymap_move_layer
Moved(o, from, to) ==
  [i \in Layers |-> IF i = to THEN o[from]
                    ELSE IF from <= i /\ i < to THEN o[i + 1]
                    ELSE IF to < i /\ i <= from THEN o[i - 1]
                    ELSE o[i]]
MoveLayer(from, to) == {from, to} \subseteq Used /\ EditOrder(Moved(ram[Order], from, to))

\* Fault: it takes the id of the place.
AddLayerHere ==
  \E i \in Layers \ Used :
    /\ \A j \in Layers : j < i => j \in Used
    /\ EditOrder([ram[Order] EXCEPT ![i] = i])
\* zmk_keymap_add_layer: the first free place gets the first id not seen before it
AddLayer ==
  \E i \in Layers \ Used, id \in Layers :
    LET seen == {ram[Order][j] : j \in 0 .. i - 1}
    IN /\ \A j \in Layers : j < i => j \in Used
       /\ id \notin seen /\ \A c \in Layers : c < id => c \in seen
       /\ EditOrder([ram[Order] EXCEPT ![i] = id])

\* zmk_keymap_remove_layer
RemoveLayer(index) ==
  /\ index \in Used
  /\ EditOrder([i \in Layers |-> IF i < index THEN ram[Order][i]
                                 ELSE IF i = LayerCount - 1 THEN Inval
                                 ELSE ram[Order][i + 1]])

\* zmk_keymap_restore_layer
RestoreLayer(id, index) ==
  /\ \A i \in Layers : ram[Order][i] # id
  /\ \A j \in Layers : j < index => j \in Used
  /\ EditOrder([i \in Layers |-> IF i < index THEN ram[Order][i]
                                 ELSE IF i = index THEN id
                                 ELSE ram[Order][i - 1]])

MakeEdit ==
  \/ \E n \in Cells, b \in Bindings : SetLayerBinding(n, b)
  \/ \E l \in Layers, name \in Names : SetLayerName(l, name)
  \/ \E x \in Layouts : SelectLayout(x)
  \/ \E n \in ConfigIds, v \in Configs : SetConfig(n, v)
  \/ \E i, j \in Layers : MoveLayer(i, j) \/ RestoreLayer(i, j)
  \/ \E i \in Layers : RemoveLayer(i)
  \/ AddLayer
-----------------------------------------------------------------------------
(* save_changes: the layout, the bindings that are pending, the order, the  *)
(* names that are marked, all hold-taps, all combos.  The first write that  *)
(* fails ends it.                                                           *)

SavePlace(k) ==
  CASE k[1] = "layout" -> 0
    [] k[1] = "cell"   -> 1 + k[2]
    [] k[1] = "order"  -> 1 + CellCount
    [] k[1] = "name"   -> 2 + CellCount + k[2]
    [] k[1] = "config" -> 2 + CellCount + LayerCount + k[2]
SaveLength == 2 + CellCount + LayerCount + ConfigCount

StartSave ==
  /\ job = "idle"
  /\ job' = "save" /\ at' = 0
  /\ UNCHANGED <<ram, flash, dirty, settingsOrder, failed, reply, told, since, edits>>

ToSave(k) == k \in CellKeys \cup NameKeys => k \in dirty

\* Fault: one binding that is written clears the marks of all.
CleanAll(k) == dirty \ (IF k \in CellKeys THEN CellKeys
                        ELSE IF k = Name(LayerCount - 1) THEN NameKeys
                        ELSE {})
\* The marks that go: of the binding, or those of all names after the last one
Clean(k) == dirty \ (IF k \in CellKeys THEN {k}
                     ELSE IF k = Name(LayerCount - 1) THEN NameKeys
                     ELSE {})

Write(k) ==
  /\ flash' = [flash EXCEPT ![k] = Stored(k, ram[k])]
  /\ settingsOrder' = IF k = Order THEN ram[Order] ELSE settingsOrder
  /\ dirty' = Clean(k)
  /\ at' = at + 1
  /\ UNCHANGED <<ram, job, failed, reply, told, since, edits>>
Skip(k) ==
  /\ at' = at + 1 /\ dirty' = Clean(k)
  /\ UNCHANGED <<ram, flash, settingsOrder, job, failed, reply, told, since, edits>>
GiveUp(answer) ==
  /\ job' = "idle" /\ at' = 0 /\ failed' = FALSE /\ reply' = answer
  /\ UNCHANGED <<ram, flash, dirty, settingsOrder, told, since, edits>>

\* Fault: a failed write is logged only.
SaveOnPastErrors ==
  \E k \in Keys : /\ job = "save" /\ SavePlace(k) = at
                  /\ Skip(k) \/ (ToSave(k) /\ Write(k))
SaveOne ==
  \E k \in Keys :
    /\ job = "save" /\ SavePlace(k) = at
    /\ \/ ToSave(k) /\ Write(k)
       \/ ToSave(k) /\ GiveUp("not saved")
       \/ ~ToSave(k) /\ Skip(k)

SaveDone ==
  /\ job = "save" /\ at = SaveLength
  /\ job' = "idle" /\ at' = 0 /\ reply' = "saved" /\ told' = "none unsaved"
  /\ UNCHANGED <<ram, flash, dirty, settingsOrder, failed, since, edits>>
-----------------------------------------------------------------------------
\* discard_changes: the default layout, and what flash and devicetree have of
\* the rest, but a name that flash does not have stays as it is.
DiscardChanges ==
  /\ job = "idle"
  /\ ram' = [k \in Keys |-> IF k = Layout THEN DefaultLayout
                            ELSE IF k \in NameKeys /\ flash[k] = None THEN ram[k]
                            ELSE Kept(k)]
  /\ dirty' = {} /\ settingsOrder' = LoadOrder(settingsOrder)
  /\ reply' = "discarded" /\ told' = "none unsaved"
  /\ since' = since \cup {"discard"}
  /\ UNCHANGED <<flash, job, at, failed, edits>>

(* reset_settings: the hold-taps, the combos, then the keymap; of the keymap *)
(* the order, then the name and the bindings of each layer.                  *)

ResetPlace(k) ==
  CASE k[1] = "config" -> k[2]
    [] k[1] = "order"  -> ConfigCount
    [] k[1] = "name"   -> ConfigCount + 1 + k[2] * (1 + PositionCount)
    [] k[1] = "cell"   -> ConfigCount + 2 + (k[2] \div PositionCount) * (1 + PositionCount)
                                      + (k[2] % PositionCount)
    [] k[1] = "layout" -> -1
ResetLength == ConfigCount + 1 + LayerCount * (1 + PositionCount)

StartReset ==
  /\ job = "idle"
  /\ job' = "reset" /\ at' = 0 /\ failed' = FALSE
  /\ since' = since \cup {"reset"}
  /\ UNCHANGED <<ram, flash, dirty, settingsOrder, reply, told, edits>>

\* Fault: what a subsystem returns is not looked at.
StoppedNever == FALSE
\* A subsystem that met an error ends the reset
Stopped == failed /\ at \in {HoldTapCount, ConfigCount}

\* The first ten bytes of a binding, which zmk_keymap_reset_settings compares:
\* its local_id, its behavior and the low half of param1
Prefix(v) == <<v.bind.head, v.id>>

\* Is there a setting, and does the reset delete it?
ToDelete(k) ==
  /\ flash[k] # None
  /\ k \in CellKeys => Prefix(ram[k]) # Prefix(Stock(k))

\* Hold-taps and combos take their defaults in RAM whatever becomes of the setting
Defaults(k) == IF k \in ConfigKeys THEN [ram EXCEPT ![k] = Stock(k)] ELSE ram

ResetOne ==
  \E k \in Keys :
    /\ job = "reset" /\ ~Stopped /\ ResetPlace(k) = at
    /\ ram' = Defaults(k)
    /\ \/ /\ flash' = IF ToDelete(k) THEN [flash EXCEPT ![k] = None] ELSE flash
          /\ UNCHANGED failed
       \/ ToDelete(k) /\ failed' = (failed \/ k \in ConfigKeys) /\ UNCHANGED flash
    /\ at' = at + 1
    /\ UNCHANGED <<dirty, settingsOrder, job, reply, told, since, edits>>

ResetStopped == job = "reset" /\ Stopped /\ GiveUp("not reset")

\* The marks of pending changes and the names in RAM stay as they are
ResetDone ==
  /\ job = "reset" /\ ~Stopped /\ at = ResetLength
  /\ ram' = [k \in Keys |-> IF k \in CellKeys \cup {Order} THEN Stock(k) ELSE ram[k]]
  /\ settingsOrder' = StockSettingsOrder(settingsOrder)
  /\ job' = "idle" /\ at' = 0 /\ reply' = "reset"
  /\ UNCHANGED <<flash, dirty, failed, told, since, edits>>
-----------------------------------------------------------------------------
\* A restart at any moment: settings_load over the values of the devicetree
Restart ==
  /\ ram' = [k \in Keys |-> Kept(k)]
  /\ dirty' = {} /\ settingsOrder' = LoadOrder([i \in Layers |-> 0])
  /\ job' = "idle" /\ at' = 0 /\ failed' = FALSE
  /\ reply' = "none" /\ told' = "nothing" /\ since' = {}
  /\ UNCHANGED <<flash, edits>>

Init ==
  /\ ram = [k \in Keys |-> Stock(k)] /\ flash = [k \in Keys |-> None]
  /\ dirty = {} /\ settingsOrder = StockSettingsOrder([i \in Layers |-> 0])
  /\ job = "idle" /\ at = 0 /\ failed = FALSE
  /\ reply = "none" /\ told = "nothing" /\ since = {} /\ edits = 0

Next ==
  \/ MakeEdit
  \/ StartSave \/ SaveOne \/ SaveDone
  \/ DiscardChanges
  \/ StartReset \/ ResetOne \/ ResetStopped \/ ResetDone
  \/ Restart

Spec == Init /\ [][Next]_vars
-----------------------------------------------------------------------------
\* Values of each setting in RAM, and in flash
RamValues(k) ==
  CASE k[1] = "cell"   -> [bind : Bindings, id : BOOLEAN]
    [] k[1] = "name"   -> Names
    [] k[1] = "config" -> Configs
    [] k[1] = "layout" -> Layouts
    [] k[1] = "order"  -> Orders

\* Every variable has values of its type.
TypeOK ==
  /\ ram = [k \in Keys |-> ram[k]] /\ \A k \in Keys : ram[k] \in RamValues(k)
  /\ flash = [k \in Keys |-> flash[k]]
  /\ \A k \in Keys : flash[k] # None => Loaded(k, flash[k]) \in RamValues(k)
  /\ dirty \subseteq CellKeys \cup NameKeys
  /\ settingsOrder \in Orders
  /\ job \in {"idle", "save", "reset"}
  /\ at \in Nat /\ failed \in BOOLEAN
  /\ reply \in {"none", "edited", "saved", "not saved", "discarded", "reset", "not reset"}
  /\ told \in {"nothing", "unsaved", "none unsaved"}
  /\ since \subseteq {"reset", "discard"} /\ edits \in 0 .. MaxEdits

\* A layer order has its layers in front and each of them once.
Sound(o) ==
  \A i, j \in Layers : o[i] # Inval /\ j < i => o[j] # Inval /\ o[j] # o[i]

\* Moving, adding, removing and restoring layers, loading and resetting, with
\* power lost at any moment, never give a layer twice and never leave a gap in
\* the order, in RAM and in flash: a gap hides the layers behind it from Studio
\* and a duplicate gives two places one set of bindings.
OrderSound == Sound(ram[Order]) /\ (flash[Order] # None => Sound(flash[Order]))

\* What a failing save or a restart leaves is of its type, and the layer order sound.
StateSound == TypeOK /\ OrderSound

\* zmk_keymap_check_unsaved_changes
CheckUnsaved == (\E k \in CellKeys : k \in dirty) \/ settingsOrder # ram[Order]

\* When zmk_keymap_check_unsaved_changes returns 0, a restart keeps every binding
\* and the layer order, whatever saves failed halfway or were discarded: no edit
\* is lost unannounced.  It holds until a reset, which leaves settings behind.
ReportedWhenDiffers ==
  "reset" \notin since /\ ~CheckUnsaved => \A k \in CellKeys \cup {Order} : Synced(k)

\* Once Studio was told that nothing is unsaved, and until it is told of a change,
\* a restart keeps bindings, order and configurations; without a discard also
\* names and layout.  save_changes may say so only when every write succeeded.
ToldTheTruth ==
  "reset" \notin since /\ told = "none unsaved" =>
    /\ \A k \in CellKeys \cup ConfigKeys \cup {Order} : Synced(k)
    /\ "discard" \notin since => \A k \in NameKeys \cup {Layout} : Synced(k)

\* A reset that reports success left no configuration of a hold-tap or combo,
\* in RAM or in flash, also when it failed before and was repeated.
ResetClearsConfigs ==
  reply = "reset" /\ job = "idle" =>
    \A k \in ConfigKeys : flash[k] = None /\ ram[k] = Stock(k)

\* A reset that reports success leaves the keymap of the devicetree in force after
\* a restart, as the documentation of ZMK Studio says of "Restore Stock Settings".
ResetRestoresStock ==
  reply = "reset" /\ job = "idle" => \A k \in CellKeys \cup {Order} : flash[k] = None
=============================================================================
