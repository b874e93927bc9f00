# ZMK, modelled and checked

TLA+ specifications of the keyboard firmware in this repository (a fork of ZMK: Zephyr, C, with split keyboards over
BLE and wire, a 2.4G link with its own ESB driver, and ZMK Studio), with TLC configurations and TLAPS proofs. The
firmware's own logic is in `src/app/src` and `src/app/module`; paths below are relative to `src/app/src`. Boards, shields
and the vendored Zephyr tree are configuration or external.

1. [The system](#1-the-system) 2. [Plan](#2-plan) 3. [The modules and the code](#3-the-modules-and-the-code)
4. [The runs](#4-the-runs) 5. [The proofs](#5-the-proofs) 6. [What the checks found](#6-what-the-checks-found)
7. [What is not modelled](#7-what-is-not-modelled)

## 1. The system

A key press travels

    kscan driver -> physical_layouts (queue) -> combo -> hold_tap -> keymap -> behaviors
      -> keycode events -> sticky key / hold_tap / hid_listener -> hid (reports) -> endpoints -> USB | BLE (hog) | 2.4G

and, on a split keyboard, enters the central half through a BLE or wired link instead of its own kscan.

**Threads.** Position events, behaviors and all their timers run on the Zephyr *system work queue*, which is cooperative: a
handler runs to completion. What it raises with the event manager is handled before `raise` returns, by each listener in
link order; a listener may capture an event and raise it again later. Other contexts are the Bluetooth thread
(cooperative), a work queue each for BLE reports, split notifications and split commands, the thread of Studio RPC (the
lowest priority, so the work queue interrupts it anywhere), the interrupts of the kscan and of the radio, and the
writing of settings to flash, which any of these may start.

### Inventory

For each component: its state; its operations; who it talks to; what is hard; what makes it correct.

| Component | State | Operations | Talks to | Hard | Correct when |
|---|---|---|---|---|---|
| Key scan and debouncing (`module/drivers/kscan`, `module/lib/zmk_debounce`) | debounce counters, interrupt or poll mode | interrupt, scan, reschedule | physical layouts by callback | an error half way through a scan; the switch between interrupts and polling | every change is reported once, the driver never stops scanning |
| Physical layouts (`physical_layouts.c`) | active layout, saved layout, message queue | kscan callback, process queue, select, save, revert | kscan, event manager, Studio | full queue; a layout switch between a press and its release | press and release of a key reach the same position |
| Combos (`combo.c`) | candidates, pressed keys, active combos, timeout work | key down, key up, timeout, Studio edits | event manager (capture and re-raise) | timeouts against keys, overlapping combos, nested replay | keys are never swallowed or doubled; a combo is released once |
| Hold-tap (`behaviors/behavior_hold_tap.c`) | active hold-taps, the undecided one, captured events, a timer per hold-tap | press, release, position and keycode listener, timer, replay | keymap, behaviors, event manager | recursive replay, timer races, options that combine | no event is lost or reordered, bindings pair up, every hold-tap is decided |
| Sticky key, tap dance | slots with timers, stored keys | press, release, keycode listener, timeout | event manager | timeout against the next key | slot freed once, key released once |
| Behavior queue, macros | one message queue, a delayed work | add, process | behaviors | full queue, several macros at once | an action runs with its counterpart |
| Other behaviors (caps word, key repeat, mod-morph, ...) | a flag or key each | press, release, listener | event manager, `hid.c` masks | overlap with itself | effect ends with the key |
| Keymap and layers (`keymap.c`, `&mo &tog &to &trans`) | layer state and locks, order, bindings, layers recorded per pressed key | position event, layer on/off/toggle/to, Studio edits | behaviors, Studio thread | layers change between press and release; edits without a lock | release follows press; no layer is left on or off |
| Settings of Studio (in `keymap.c`, `physical_layouts.c`, `studio/*`, hold-taps, combos) | values in RAM and in flash, pending flags, saved order and names | edit, save, discard, reset, load | settings, Studio | failure or power loss between writes | what was saved is what a reboot loads |
| Conditional layers | update counter | layer listener | keymap | updates raised from within the update loop | loop ends, layer on iff its conditions hold |
| HID state (`hid.c`, `hid_listener.c`) | reports, modifier counts, explicit and implicit modifiers | press, release, listener | endpoints | overlapping bindings, full report, two pages | no ghost or stuck key or modifier |
| Endpoints (`endpoints.c`, `usb.c`) | selected and preferred endpoint, switch flag, watchdog | select, toggle, send, load | USB, BLE, 2.4G | asynchronous radio switch against its watchdog | one transport at a time; a switch ends |
| HID over GATT, BLE profiles (`hog.c`, `ble.c`) | report queues; profiles, bonds, advertising | send; select, pair, clear | Bluetooth stack | full queue; profile changes with reports queued | no report reaches the wrong host |
| Split over BLE (`split/central.c`, `split/bluetooth/*`) | slots, scan flag, event queue; position bitmap, state queue, advertising | connect, disconnect, discover, notify, key change | Bluetooth threads and work queues of two halves | lost links, full queues, failing calls | slots follow connections; keymap follows keys |
| Split over a wire (`split/wired`) | ring buffers, interrupt enabled or not, a semaphore for turns, command queue | report, command, poll, interrupt, read an item | UART interrupts, keymap | corrupted bytes, full buffers, half-duplex turns | resynchronises; no message twice; turns go on |
| 2.4G link, dongle, ESB driver (`2g4*.c`, `module/drivers/esb`) | packet ids, FIFOs, failure counters, keep-alive | send, acknowledge, timeout, resend | radio interrupts, endpoints | lost packets and acknowledgements, silence after failures | delivered once, in order; no stuck key |
| 2.4G pairing and encryption | keys, counters | pair, encrypt | 2.4G link | - | - (cryptographic) |
| Studio RPC (`studio/rpc.c`, `core.c`) | transport, lock state, mutex, rx ring | request, respond, notify, lock, unlock | transports, subsystems | error paths under the mutex | no request without unlocking; a mutex is given back |
| Studio subsystems | - | convert messages to calls | keymap, combos, hold-tap, layouts | several saves in a row, one failing | saved or reported as unsaved |
| Activity, power (`activity.c`, `pm.c`) | idle state, suspended devices | tick, event, sleep, soft off | drivers, endpoints | one device of several fails to suspend | all or none asleep |
| Pointing | listeners, temporary layer | input event, position event | keymap | timer against keys | layer goes off |
| Motion; lighting; battery, WPM, display, sensors; boards and drivers | readings, levels | periodic work | settings, events | - | - |

`PROJECT.json` lists the same components with their files and status, and the hazards of this code, each at its line.

## 2. Plan

The order was by what goes wrong for a user: first the way of a key through one keyboard (HoldTap, Hid, Keymap, Keyboard),
then what remembers and what transports (StudioSettings, Split, Link24, Endpoints, Output), then the ends of the way
(Behaviors, KeyScan and PhysicalLayouts).

| Module | Extends or instantiates | Abstract specification | Proofs |
|---|---|---|---|
| HoldTap | | | HoldTapProofs, HoldTapBindings |
| Hid, Keymap, Keyboard | Keyboard composes the two | Hid and Keymap are what Keyboard implements | ReportProofs |
| Behaviors | | | none possible: recursive operators |
| KeyScan, PhysicalLayouts | PhysicalLayouts extends KeyScan | | PhysicalLayoutsProofs |
| Ble, Endpoints, Output | Endpoints and Output extend Ble | | EndpointsProofs, ReportProofs |
| LossyFifo, Esb, Link24 | Link24 extends Esb | LossyFifo, which Link24 implements | Link24Proofs |
| SplitNodes, SplitLink, SplitKeys, Split | Split composes link and keys | | SplitProofs |
| SplitWire | | LossyFifo, once for events and once for commands | SplitProofs |
| StudioSettings | | | StudioSettingsProofs |

Of the code, the models leave out what section 7 lists. What is left to prove are the hold-taps the theorems of HoldTap exclude by
their hypotheses (section 5).

## 3. The modules and the code

Modules take everything that varies as CONSTANTS with named assumptions. In a module, a definition whose comment starts with
*Fault:* is a faulty variant of the definition that follows it. It is part of no specification: put in the place of
its original it makes a property fail, and so shows what that property notices. Variables marked *history* record what
happened, for properties to speak of; no guard reads them.

### HoldTap

`undecided`, `held`, `timer`, `captured`, `lastTapped` are `undecided_hold_tap`, `active_hold_taps`, the scheduled works,
`captured_events` and `last_tapped`. The C code recurses: deciding a hold-tap releases captured events, which raises
them, which may press another hold-tap, which decides, and so on, all on shared globals. The model keeps this recursion as
`stack`, a sequence of frames; a frame is a call that is to run or to be continued after what it called.

| Action | Code |
|---|---|
| `KeyDown`, `KeyUp` | a key event starts on the work queue (`physical_layouts.c`) |
| `RaisePosition`, `ListenPosition` | `position_state_changed_listener` before and after the decision it may make by time |
| `RaiseKeycode` | `keycode_state_changed_listener` for a replayed modifier |
| `InvokePressed`, `ScheduleTimer` | `on_hold_tap_binding_pressed` around its decisions |
| `InvokeReleased`, `FinishRelease` | `on_hold_tap_binding_released` around its decisions |
| `InvokePlain` | a key-press binding |
| `DecideHoldTap` | `decide_hold_tap` up to the replay |
| `ReleaseCaptured` | one iteration of `release_captured_events` |
| `TimerHandler`, `Tick` | the timer work; time |

`k_work_cancel_delayable` may return -EINPROGRESS, which the source handles by leaving the slot to the handler
(`cancelled`). The model allows this outcome whenever the work is due and no replay runs. On a single cooperative queue the
kernel would hardly return it, so this admits more behaviours than the firmware has; the branch is in the code.

### Keymap, Hid, Keyboard

Keymap: `active`, `locks`, `order`, `keymap`, `recorded` are `_zmk_keymap_layer_state`, `_zmk_keymap_layer_locks`,
`keymap_layer_orders`, `zmk_keymap`, `zmk_keymap_active_behavior_layer`. A key event is one action (`PositionPressed`,
`PositionReleased`), since nothing interrupts the work queue that also changes layers. A layer edit of Studio is a
list of `writes` to the order, computed when the edit starts as its loop would, and `WriteOrder` makes one of them: key events
come between. `held`, `edited` and `misrouted` are history: what a press invoked, whether an edit came since, whether a
release went elsewhere.

Hid: `modCounts`, `explicit`, `implicit`, `report` are the statics of `hid.c`; `host` is what was last sent, and `sent` the
reports a handler sends before its last one. `KeycodePressed` and `KeycodeReleased` are the two handlers of
`hid_listener.c` with everything they call. Clearing an endpoint (`ClearReports`) empties reports and keeps counts, as the
code does. `holding` and `unpaired` are history.

Keyboard conjoins them: `KeyDown(p)` is `PositionPressed(p)` with, for a key-press binding, `KeycodePressed` in the same
step. The sources of Hid are the key positions.

### Behaviors

What keeps state between a key and its report: `combo.c`, tap dance, sticky key, the behavior queue with its macros,
mod-morph, caps word, key repeat, key toggle, `&mo`, `&tog`, `&to` and conditional layers, in one module, since they call each
other through the event manager. All of it runs on the system work queue and each handler runs to its end, so the state
is one record `kb`, a C function is an operator from states to states, and a call that may come back to its caller goes
through the recursive `Call`. `PositionStateChanged`, `TapDance`, `Keymap`, `KeycodeStateChanged` and `HidListener` are the
listeners in link order.

| Action | Code |
|---|---|
| `Press`, `Release` | a position event is raised, and all that follows from it |
| `ComboWork` | `combo_timeout_handler` |
| `DanceWork`, `StickyWork` | the timers of the slots |
| `QueueWork` | `behavior_queue_process_next` from its delayed work |
| `ConditionalUpdate` | a round of the loop in `layer_state_changed_listener` of `conditional_layer.c` |
| `LayerCall` | a call of `zmk_keymap_layer_to`; the loop runs between two of them |
| `Tick` | a millisecond; work that is due runs first |

The last handler of an event is the one that changes layers, so what it still has to do can be steps of its own, without which
nothing else happens (`Busy`): `updates` is `conditional_layer_updates_needed`, which every change of layers sets, those of a
round included (the semaphore turns their listener away), and `calls` is what `&to` has yet to call.

Times are relative to now. `waiting` (presses nobody has handled yet), `wrong` and `excuse` are history. A sticky key held
back by a combo for longer than its time never starts its timer (`excuse` "late"); the code does so too. A macro
is given as the two lists that `pause-for-release` separates.

### KeyScan, PhysicalLayouts

KeyScan is `kscan_gpio_matrix.c` with interrupts and `PM_DEVICE`, and `debounce.c`. `contact` are the switches, `deb`
the debouncers, `outs` and `irq` what the GPIO driver is set to, `work` the delayed scan. A scan is split where an interrupt or
another thread may come in: `StartScan`, a `ReadOutput` per output (or `ReadFails`), `Reports` per changed cell and `Passes` behind each
cell, which brings `continue_scan` up to date, `EndRead`, and an `ArmOutput` per output. `loop` is where a thread is in the loop that
reports; the flag of a change stays set behind it, until the next `zmk_debounce_update` of the cell. It runs on the system work queue, or on the thread that enables the device (`thread`).
`Interrupt` may come between any two of these steps.

PhysicalLayouts adds the callback with its bounded queue (`Callback`), the work item that translates into positions and raises
them (`ProcessMsgq`, one turn of its loop: what it raises may wait, and then other threads run), and the selection of a layout
(`Select`, `Mask`, `Suspend`, `Resume`, `Enable`): the old device is cancelled, masked and suspended, the new one resumed, which
reads it, configured with the callback and enabled, which reads it again. `held` is what the keymap has been told; `strayed`
are the positions whose last event was lost, that were down while the layout changed, or whose device two threads read at once,
until the next event that tells what the key is.

### Ble, Endpoints, Output

Ble holds profiles, bonds and advertising of `ble.c`; the Bluetooth stack is external: hosts connect and disconnect,
pairings are accepted and complete.

Endpoints is the build with BLE and 2.4G. `ep` is `current_instance`, `preferred_transport`, `manual_override` and
`usb_was_ready`, `rf` the `active_wireless_transport` and the flag `radio_switching`. Selecting a radio (`Select`) waits for flash, timers and the
Bluetooth stack; `call` holds, per thread, where the call is. The stages are `Persist`, `Check` and `Claim` (the test and the setting
of the flag, two steps for a preemptible thread), `Reserve`, `Stop`, `Start` towards 2.4G, `Enable` towards BLE, `Applied`, and
`Rollback` after a failure. Each stage may fail. `WatchdogExpires` and `RecoverWork` are the watchdog, `PairingStops` and
`PairingStarts` is `pairing_restart_radio` of Studio, `Restart` a loss of power. `astray` says why the parts need not agree (a selection
failed, or two overlapped).

Output is the build with BLE and USB: `SelectProfile`, `ClearBonds`, `ClearAllBonds`, `StudioUnpairs`, `PairingAccept`,
`PairingComplete`, `SelectTransport`, `UsbChanges`, the works that follow them, and the report queue of `hog.c` (`SendReport`,
`HogRound`). `view` is the last report each host knows of.

### LossyFifo, Esb, Link24

Esb is the driver (`esb.c`): `tx` is the transmitter with its FIFO, packet id, retransmissions left and the state of the radio,
`rxInfo` the pid and checksum by which the receiver tells duplicates, `rxFifo` its FIFO. Link24 is `2g4.c` on the keyboard
(`ReportChanged`, `ResendWork`, `KeepaliveHandler`, `TxSuccess`, `TxFailed`, `Start`, `Stop`) and `2g4_dongle.c` on the dongle
(`HandlePayload`, `KbLost`), with the session ids and counters of `2g4_crypto.c` in place of the cipher. Any packet or
acknowledgement may get lost (`Interrupt`), and the radio may hang (`Watchdog`). LossyFifo says what such a link promises: what is put in comes out at
most once and in order. `DeliversInOrder` maps the FIFOs of both sides to its queue, and adds that what is in the queue is left of
what was there before, unless the keyboard sends with a new counter: a packet that the dongle takes twice is not a new message.

### SplitNodes, SplitLink, SplitKeys, Split

SplitLink is about connections. On the central: `state`, `conn`, `listening` of each slot, `addrs` (the bonded addresses in
flash), `isScanning` (the flag) and `scanning` (what the stack does). On each peripheral: `isConnected`, `adv` (advertising,
or the work that starts it), `lowDuty`, `bonded`. Each callback and work handler is an action: `DeviceFound` with
`CreateFails`, `Connected` with `ConnectFails`, `Subscribe` (the end of discovery), `Disconnected`; `AdvertisingWork`,
`AdvertisingTimeout`, `PeripheralDisconnected`; `FinishInit`. The Bluetooth stack is external: one connection can be created
at a time, a call may fail, a link may break (`LinkLost`), and each side notices on its own. A failure the code only
logs is counted in `failures`, so that a property can say "unless the stack failed"; failures the code handles are free.

SplitKeys is about what travels: `pressed`, `stateQ`, `sending` on the peripheral (`position_state`, its message queue, the
state taken by the work queue), `air`, and `view`, `events`, `keys` on the central (`position_state` of the slot,
`peripheral_event_msgq`, what the keymap was told). `PutEvents` puts with K_NO_WAIT and drops what does not fit, as the code
does; `lost` and `dropped` remember it. `Queued` pops the oldest state when the queue is full.

Split puts them together. `SlotReleased` is all of `split_central_disconnected`: slot, positions and scan in one step.

### SplitWire

The wired link of `split/wired` with interrupts. `tx` and `rx` are the ring buffers of both ends, `txOn` says whether an end's transmit
interrupt is enabled, `txSem` is `tx_sem` of the central, `cmdQ` is `cmd_msg_queue`. A message is a frame of tokens: the prefix, the
size, the parts of the payload, the checksum. So sizes and room in the buffers are counted in tokens, of which the
largest message takes as many as the code reserves for an item, and a poll fewer.

| Action | Code |
|---|---|
| `Report` | `split_peripheral_listener` with `split_peripheral_wired_report_event` |
| `Tell` | the commands of `split/central.c` with `split_central_wired_send_command` |
| `Transfer`, `TxComplete` | `serial_cb` at both ends, with `zmk_split_wired_fifo_fill` and `zmk_split_wired_fifo_read` |
| `GetItem` | a turn of the loop of `publish_events_work` (a work item) or `process_tx_cb` (in the interrupt) with `zmk_split_wired_get_item` |
| `HandleEvent`, `HandleCommand`, `CommandWork` | what follows a complete item |
| `RxDone` | `rx_done_cb`, the poll of the half-duplex mode |

A frame arrives in one step: receiving a part of one makes the reader return without any change. Noise (`Garbled`) turns a size
into another one or hits the prefix or the checksum; it makes no difference to the code whether a payload or its checksum is hit,
or what a prefix turns into. When tokens were lost, a byte of a payload may be read as a size, and then be any number (`SizesIn`). A
checksum is taken to match its payload only. In half duplex, frames that both ends send at a time collide and may be garbled without
limit. The timeouts of `rx_done_work` are taken to be longer than a transmission, so `RxDone` waits until neither
end sends; they are configuration, and shorter ones would only add collisions.

`EventsInOrder` and `CommandsInOrder` map the intact frames in the buffers, and the item being handled, to the queue of
LossyFifo. `missed` is history: the keys whose last event was dropped for lack of room, garbled, or queued behind a garbled one whose
bytes swallow it. Jamming and frames that are too long (section 6) are `Stuck`.

### StudioSettings

A setting is a key: a cell (binding `p` of layer `l` is cell `l * PositionCount + p`), the name of a layer, the configuration of
a hold-tap or combo (hold-taps first), the layout, the layer order. `ram` and `flash` map them to values. `dirty` is
`zmk_keymap_layer_pending_changes` with `changed_layer_names`, `settingsOrder` is `settings_layer_orders`. Requests are served
one after the other by the Studio thread; one that writes many settings is a `job`, with the number `at` of settings it is
done with and, for a reset, `failed` = `first_err`. `reply` and `told` are the last answer and the last
`unsaved_changes_status_changed`; `since` remembers resets and discards, and `edits` is a bound.

| Action | Code |
|---|---|
| `SetLayerBinding`, `SetLayerName`, `SelectLayout`, `SetConfig`, `MoveLayer`, `AddLayer`, `RemoveLayer`, `RestoreLayer` | the edits of the Studio subsystems, each with the notification it sends |
| `StartSave`, `SaveOne`, `SaveDone` | `save_changes`: each step writes one setting, passes one that is not marked, or gives up at an error |
| `DiscardChanges` | `discard_changes` |
| `StartReset`, `ResetOne`, `ResetStopped`, `ResetDone` | `reset_settings` over the subsystems in the order of the linker section: hold-taps, combos, keymap |
| `Restart` | loss of power at any step, then `settings_load` |

The settings store is external: a write to one key happens or fails as a whole. Edits of the order are those of a client that
works from the last answer it got: it names layers that exist, and restores one that does not at a place no further
than the end. A binding is `[bind, id]`, where `id` says whether `local_id` is filled in: it is in a binding that was loaded, not
in one from the devicetree or from an edit, and the comparisons in the code see the difference. Bindings are compared by a
`head` and a `tail`, since the reset compares their first ten bytes only. The array `zmk_keymap_layer_changes` that is used
without being initialised can only cause the deletion of settings that do not exist, and is left out.

## 4. The runs

State counts are of complete explorations, with the bounds of the cfg.

| Run | Module, cfg | States | Shows |
|---|---|---|---|
| HoldTap | MCHoldTap, HoldTap.cfg | 820,544 | `SlotsSound`, `EventsKept`, `BindingsReleased`, `EventuallyDecided` |
| Keyboard | MCKeyboard, Keyboard.cfg | 724,630 | `TypeOK`, `LayersFollowKeys`, `ReportsFollowKeys`, `NothingStuck`, `PairedByKeymap`, `ReleaseFollowsPress`, `FreshPress` |
| Behaviors | MCBehaviors, Behaviors.cfg | 1,237,044 | `Settles`, `KeysAccounted`, `StickyOnce`, `UpdatesEnd` |
| ComboStuck | MCBehaviors, ComboStuck.cfg | | violation of `KeysExpire`, section 6 |
| Input | MCPhysicalLayouts, Input.cfg | 725,314 | `ScansOrWaits`, `NoGhosts`, `KeymapFollowsMatrix`, `ContactsArrive` |
| EagerBoot | MCPhysicalLayouts, EagerBoot.cfg | | violation of `CallbackSet`, section 6 |
| Endpoints | Endpoints, Endpoints.cfg | 522,353 | `OneRadio`, `EndpointsAgree`, `SwitchEnds` |
| Output | Output, Output.cfg | 2,042,458 | `OutputSound`, `BondsMatch`, `ReportsArrive` |
| Link24 | MCLink24, Link24.cfg | 157,882 | `HostAgrees`, `DeliversInOrder` (a refinement), `ReportsSettle` |
| StudioSettings | MCStudioSettings, StudioSettings.cfg | 1,298,908 | `StateSound`, `ReportedWhenDiffers`, `ToldTheTruth`, `ResetClearsConfigs` |
| StudioReset | MCStudioSettings, StudioReset.cfg | | violation of `ResetRestoresStock`, section 6 |
| Split | MCSplit, Split.cfg | 343,618 | `LinksSound`, `KeymapFollowsView`, `LatestStateArrives`, `EventsAlternate`, `KeysArrive`, `EventsInOrder` and `CommandsInOrder` (refinements) |

Deadlock is checked in Keyboard and StudioSettings, which never stop. The others stop when their bounds on inputs, faults or
time are used up.

**HoldTap** has a mod-tap `m`, a layer-tap `l` and a plain modifier `k` (two hold-taps nest; the modifier is what the keycode
listener captures). `MCConfigs` has every flavor and every option but `hold-while-undecided-linger`, and `hold-while-undecided`
only without a quick tap (section 6 on both), and pairs where
the replay of one hold-tap makes the other undecided. Terms of 1 or 2 ticks, a clock to 3, three presses and any releases, two
slots, and three captured events, which is one less than can be needed, so that the array overflows. `SlotsSound` guards
`undecided_hold_tap`, the slots and their timers, `EventsKept` the captured array (nothing stranded, lost, doubled or overtaken),
`BindingsReleased` what the hold-taps press. `EventuallyDecided` needs the fairness `WF(Handler)` (a call that
runs is continued), `WF(TimerHandler)` (the kernel runs due work) and `WF(Tick)` (time passes); no key press is assumed fair. A
press is only allowed while its term fits under the clock's bound, or the bound would stop the timer.

**Keyboard** has three keys and two builds: one with three layers that has modifiers, explicit modifiers on a modifier
code, a consumer key with an implicit modifier, two keys that send the same usage and a report of one slot; and one whose
third layer is reserved for Studio, with `&mo`, `&tog` and a locking toggle for the same layer. One edit (any move,
removal, restoration, addition, or one new binding), its writes interleaved with key events, and changes of endpoint at any time.
`LayersFollowKeys` (a layer that is on is locked or held) and `ReleaseFollowsPress` are about layers, `ReportsFollowKeys`
(counts, slots, the host) and `FreshPress` about reports, `PairedByKeymap` and `NothingStuck` about the composition. One edit
suffices to put a state between press and release; the theorems of section 5 drop all these bounds. There is no liveness
here: the system only reacts to keys.

**Behaviors** has ten keymaps of three keys: overlapping combos of which one contains the others; combos on two layers that need an
idle keyboard; a sticky key and a tap dance under a combo; sticky keys that are quick, lazy or ignore modifiers; tap dances of two
and three taps, one of a sticky key; nested macros; caps word with key repeat; mod-morphs; three momentary layers with a chain of
conditional ones; conditional layers that follow from higher to lower ones, with `&tog`, `&to` and `&mo` for the same layers. Three presses (four where timers overlap most) and any releases, timers of 1 to 3 ms, at most 6 ms without a key, which is
longer than any of them, one active combo and a queue of five actions, both of which overflow. `Settles` is the strongest: after
the longest timer with all keys up nothing at all is left. It excuses what a full queue dropped and a timer that started late.
`UpdatesEnd`: the loop of conditional layers ends, `&to` too, and then the layers are those asked for. Its fairness is that a handler
that has begun goes on. It is for configurations without a cycle (`ConditionalAssumption`; section 6 on cycles), whose if-layers
do not include the default layer: this one is active without a bit in the layer state.

**Input** has a matrix of two keys under two layouts that swap them, a second device with one key, and a layout that is rejected
when selected. Contacts of powered devices close, open and bounce at any moment; what happens without power is only seen
when power is back. Debouncing is counted in scans (one for a press, one for a release), a queue of one event. One mishap: a selection
of a layout, or a GPIO call that fails anywhere in a read or an interrupt; so a selection after a failure is not explored, nor a
failure of `interrupt_disable` within a selection. Times are "now" or "later". Fairness: the work queue and interrupts are
served (WF); the thread that selects gets on between two scans, which are a period apart (SF), since it runs only while the
work queue is idle or its handler waits. `ScansOrWaits`: no interleaving leaves the selected device neither scanning nor armed.
`ContactsArrive`: when contacts rest, the keymap agrees with them.

**Endpoints** has one profile and one host, two requests (by key, by Studio, or a change of USB) and two mishaps (failures of flash
or radio, the watchdog, a restart). One request overlaps another, and a failure comes while the previous transport is being restored. Fairness:
each thread that waits is continued, which is what flash, timers and the stack do. `EndpointsAgree`: at rest the radio that runs, the
one in use, the preferred one and the saved one are the same.

**Output** has two profiles, two hosts, a report queue of two (it overflows), three key changes and three requests (profile, bonds, pairing,
transport, USB, restart). A bond may complete after its profile changed or was taken. No liveness: `ReportsArrive` speaks of the
state in which the queue is drained.

**Link24** has a keyboard and a consumer report over FIFOs of two packets (one at the receiver), one retransmission, packet ids 0 to 3
as in the code, giving up after two failures, counters that end at 4 (for 2^32-1) and a replay window of 2. `MaxFaults` is one
outage, lost acknowledgement, hang, stop or restart; the packets lost within an outage are free. One event of the driver is
handled per step of `evt_work`; a resend is not interrupted by another event, since both are of one work queue. A keepalive is sent when the radio is
idle. `HostAgrees` excuses a type (`excused`) where the code itself gives up: after `MaxFailures`, when a write that
found no room flushed it, when the dongle acknowledged what it could not keep, when the event queue was full, after `KbLost`, for a
suspended host, at a stop or restart of the link. Fairness: interrupts, the keyboard's work queue and the dongle's run (WF). Nothing
is assumed of the radio: it may hear nothing for ever, and resending must still end (`ReportsSettle`).

**Split** has two keyboards, a wireless one (314,272 states) and a wired one (29,346). The wireless one has two peripherals with two
keys, two slots, queues of one entry (so that both overflow), two key changes, one lost link, one unhandled failure. `LinksSound` is about connecting, `LatestStateArrives`,
`KeymapFollowsView`, `EventsAlternate` about keys, and `KeysArrive` is the whole: every peripheral is connected for good
and the keymap knows the last state of its keys. Fairness: work queues and Bluetooth threads run (weak fairness of `KeyWork`
and of `LinkWork`); while one half scans and the other advertises one is found again and again, and again and
again an attempt to connect succeeds (strong fairness of `Finding` and `Connecting`; `CreateFails` and `ConnectFails` may come
in between any number of times). `AdvertisingTimeout` needs no fairness. `LinksSound` and `KeysArrive` excuse runs with a
failure that the code only logs: a scan that cannot be stopped leaves a slot reserved for ever, and a scan that cannot be
started leaves `is_scanning` set, after which `start_scanning` does nothing. `LatestStateArrives` speaks only of
peripherals whose keys changed after the central subscribed (`fresh`): the code sends no state upon connection, so
keys held across a reconnection are unknown to the central until the next change.

The wired keyboard is full or half duplex and has two keys, two inputs (key changes or commands), one frame hit by noise, room for one event
and two commands, and a command queue of one: all of them overflow. One frame hit among two shows each way in which a
receiver can lose its place; the second is the one that must be found again. Fairness: interrupts are served and the work
of the peripheral runs (`CableWork`), so does the work queue of the central (`CentralWork`), and the timer of the half-duplex mode
expires (`RxDone`), all weak. `KeysArrive` says of it that the keymap knows the last change of each key that is not in `missed`,
unless the link is `Stuck`; nothing is sent again, so an event that is hit is gone, as in the code.

**StudioSettings** has three layers of one key, the last reserved for Studio, one hold-tap, one combo, three bindings of which
two differ only where the reset does not look, two names, layouts and configurations, and two edits with any number of
saves, discards, resets and restarts around them. Two edits are enough to have one setting saved and the next
not, and to undo an edit that was saved. `StateSound` is about the layer order in RAM and flash, `ReportedWhenDiffers`
about what `zmk_keymap_check_unsaved_changes` returns, `ToldTheTruth` about what the client was told, `ResetClearsConfigs` about
resets that fail and are repeated. No step is forced to happen, so there is no liveness to state.

## 5. The proofs

Proved for every value of the constants that meets the assumptions (which TLC checks for each instance).

* **ReportProofs**, about Hid. `HidTyping`: types. The other theorems come from the inductive invariant `HidInv` =
  `HidTypeOK /\ ModifierCounts /\ NoGhostKey /\ NoGhostModifier /\ HostInSync`. None of them is inductive alone: that a
  release empties the slot of the right key needs that a key is in one slot only and that every key in a slot is held
  by some source, and the counts are the cardinalities of two sets of sources, which a press enlarges and a release
  shrinks by one element (`PressedHolders`, `ReleasedHolders`). `HidFreshPress` follows from the
  invariant: the last report before a new press has every pressed key.
  About Keymap. `KeymapTyping`; `KeymapInv` adds `LocksActive`, `MomentaryHeld` and `RecordedBinding` (what a pressed key
  invoked is what its recorded layers still resolve to, unless edited), without which a release could not be known to undo
  its press. `KeymapReleases` is then an action property of the same invariant. The choice of the highest layer rests
  on `HighestLayer`, a well-founded argument about bounded sets of integers.
  About Keyboard. `KeyboardImplementsKeymap` and `KeyboardImplementsHid` show each step of the composition to be
  one of the component or a stutter, so all of the above holds of the keyboard: `KeyboardTyping`, `KeyboardLayers`,
  `KeyboardReports`, and `KeyboardSteps` for the two action properties. New is `Pairing`: each position holds in Hid what its
  binding in Keymap pressed; from it `KeyboardPairing` (only an edit under a held key can unpair) and `KeyboardAtRest` (with
  every key up nothing is stuck). With these, all seven properties of the run Keyboard are theorems.
* **HoldTapProofs.** `HoldTapSlots` and `HoldTapEvents`, and in **HoldTapBindings**, which extends it, `BindingsFollow`.
  The first two come from one invariant `Core` of the whole call stack. The stack is counted from the outermost call (`Fr(d)`), so that a call keeps its number while others nest in it; `Shape` says which call returns
  to which. A decision in a replay starts a second replay inside the first, and both take from the same array. `CellsInv` is why the
  inner one does not reach what the outer one has still to release: inner replays are at earlier cells (`Rising`), the cell before
  the outer one's is free (`Gap`), and runs of events begin only where a replay is (`Packed`). So all events under way,
  captured or in a call, have a place in one order (`Items`), and each step moves one of them forward, takes out the first of its key or
  appends one. `ItemsInv` says that they alternate per key and name the typed presses in order.
  `RoomInv` is the part that was hard to find: what is captured in a replay must fit into the cells the replay has freed, or it
  would land behind later events. It counts them: one event in progress, and one keycode for each hold-tap that is still silent for its
  retro-tap, of which `SilentInv` leaves one at most beside that of the event's own key. `SlotsInv` and `CallInv` relate slots, timers and calls in progress: a
  release that is not finished has nothing of its key under way, which is why no second slot is taken for a key.

  `BindingsFollow` adds two invariants. `CodeInv`: what is pressed follows from the slots and the keys the keymap has seen (`Bound`), except
  for the modifiers that were captured and are not yet raised again (`CodeItems`). Their presses and releases alternate, from what the
  reports show to what is bound (`Told`), the same form as for key events. They also stand before the next event of
  the key that emitted them (`BeforeEvents`) and before the end of its release (`BeforeFinish`), and a slot that is undecided or silent
  has none (`Quiet`); without this an emission could overtake an earlier one of its own code. `TimeInv` is about time stamps:
  presses wait in the order of their stamps, and neither `last_tapped` nor a slot is younger than any of them. So a
  press that is replayed late is not taken for a quick tap of a key after it, which `CodeInv` needs of hold-taps that hold while undecided.

  Three hypotheses. `lost = {}`: when `captured_events` is full an event is dropped, it may be a release, and the slot of its key is
  then never given back. The run claims `SlotsSound` and `NothingStranded` after that too, and `EventsConserved` for the keys that lost
  nothing; the theorems do not. `SimpleHolds`:
  a hold-tap with `hold-while-undecided` has neither its linger nor `retro-tap`. With one of these its release may emit
  up to three keycodes, for which a replay may have freed too few cells, and `RoomInv` does not hold (TLC finds this);
  the run has such a hold-tap with `retro-tap`, in which the properties themselves hold. `PatientHolds`, for
  `BindingsFollow` only: a hold-tap with `hold-while-undecided` has no quick tap, neither by `quick-tap-ms` nor by
  `require-prior-idle-ms`, which are off by default. With one the theorem is false, as section 6 says.
* **StudioSettingsProofs.** `OrdersStaySound`, `UnsavedIsReported` and `StudioIsToldTheTruth`, from the invariant `Typed /\ Agrees`.
  `ToldTheTruth` is not inductive: that a finished save left nothing unsaved needs that a setting without a mark is in flash as
  it is in RAM (`UnmarkedSynced`), that a save has written every setting it is past (`SavedSoFar`), and that
  `settings_layer_orders` is the order in flash (`OrderKnown`). `SavedSoFar` rests on `SavePlaces`, that a save
  comes to each setting at a place of its own. A stock order that was never written leaves zeros behind the stock layers in
  `settings_layer_orders`; that these can pass for an order in RAM without a difference to flash is excluded by
  `OrderSound`, since layer 0 would be there twice. `Agrees` claims this only while no reset ran.

  `ResetsClear` has its own invariant: a reset without an error has cleared every configuration it is past (`ResetSoFar`), so
  that one which passes over an error and still reports success is seen at the step in which it does.
* **EndpointsProofs.** `EndpointsTypes`; the rest is proved in three layers. `RadioInv`, from which `EndpointsOneRadio` follows: between
  setting and clearing `radio_switching` there is one switch only, and BLE is down before 2.4G starts, unless two threads passed the test
  of the flag together. `AdvInv` and `FollowInv`: advertising and the endpoint in use are right, or a work item or a call that will put them
  right is pending. `AgreeInv` says for each stage of a call (`CallInv`) which radio runs, which one is believed to run and what is in
  flash, on the way to the new transport and on the way back after a failure; a call at rest then leaves them equal, which is
  `EndpointsAgreement`.
* **ReportProofs**, about Output. The invariant is `OutputInv` = `Types /\ AdvInv /\ FollowInv /\ BondsInv /\ ArriveInv`. `OutputFollows` is
  about advertising and the endpoint, `OutputBonds` about the bonds of the stack, which are those of the profiles and of one profile each.
  For `OutputReports`, `Arrived` says that the last report is at the host in use or last in the queue; the queue drops the oldest, never
  the newest (`PutNewestLast`).
* **SplitProofs.** `LinkInv`, for `SplitLinks`: slot, connection and address of a peripheral are of each other, addresses fill the
  slots from the first on, and `is_scanning` is set only while the stack scans, unless a call failed. `SplitKeymap` rests on
  `Synced`: the last event about a position says what the central saw. `SplitAlternates` rests on `Alternating`: the events about a
  position alternate, starting with a change of the keymap. `SplitLatest` rests on `FreshInv`: the last state on the way from a
  peripheral (`AirWay`), through its queue, its work queue and the air, is that of its keys.

  About SplitWire, `WiredEventsInOrder` and `WiredCommandsInOrder`, from `WireInv`: the buffers on the way hold no more than fits,
  and are well framed (`WellFramed`): before a checksum stand its payload and a size, as far back as the buffer reaches. What arrives
  then completes at most one frame that is intact (`Arrives`), what is read out of a buffer was its first intact frame
  (`ItemsLeft`), and a garbled frame takes from those behind it but adds none. So every step leaves the way as it was, loses
  from it, or appends to it (`EventMoves`; `CommandMoves` for the same without polls), which is LossyFifo. The intact frames are
  listed by `Sorted` in the order of their places; `SortedLists` shows that it lists every finite set of numbers once.
* **Link24Proofs.** The invariant is `LinkInv` = `TypeInv /\ SentInv /\ ReceivedInv /\ SettleInv`. `SentInv`: the packets in the FIFO of the keyboard
  have growing sessions and counters, below the next one, and the packet the dongle received last is before them or is the first of
  them. `ReceivedInv`: those in the FIFO of the dongle grow as well, and are later than what it processed. Without these two a
  retransmission could not be told from a new packet, nor would the replay window be known to accept the next one. With them every step
  leaves what is under way as it was, takes one message out of it, cuts off its end, or cuts off its end and adds a new message
  (`Moves`), which is `Link24InOrder`, the refinement of LossyFifo. `SettleInv`, for `Link24Agrees`: each report is excused, or to be
  sent again, or its failure is in the event queue, or `Shows`: what is under way ends with it, or has nothing of its type and the host has it.

* **PhysicalLayoutsProofs.** `ScansOn`, from `ScanInv`: the device of every layout but the selected one is quiet (`QuietInv`), the low
  thread works on the device of the selected one (`LowInv`), a thread in the middle of arming has armed its outputs so far, unless an
  interrupt came, which has submitted a scan, or a scan is under way (`ArmInv`), and so a device at rest is armed or scanned (`LiveInv`).
  `NoGhostKeys`, from `GhostInv`: a cell whose switch has not conducted is at rest, or its debouncer counts one scan in the dark, in which an
  output that an interrupt left active drove the row; the next scan finds the outputs behind it cleared and takes the
  one back (`Tells`, `Hidden`, `Orderly`). One such scan is enough to press a key if the debounce time is zero, so
  the theorem needs `PressScans # 0`; with zero TLC finds the ghost. `KeymapFollows`, from `KeymapInv`: the queued events about a key
  alternate, from what the keymap holds to what the callback was told last (`Alternates`), and a change it was not told of yet
  will be reported by the one read that is under way (`Seen`): it is in the loop of that read once (`LoopOK`), whose flag nobody else
  clears or reports. With an event lost, or two reads at once, a key is excused, until an event comes that agrees with its debouncer
  while no read is yet to report it and no other event about it waits. With these, all three invariants of the run Input are theorems.

The proofs use the named assumptions of the modules. Those that are more than types of numbers: the slots of Split are numbered from 1
(the code searches them in this order), each position of a keymap is that of one cell in PhysicalLayouts (`TransformAssumption`: the
lookup table of a transform is built from one row and column per position, `matrix_transform.c:45-52`), `"usb"` is no Bluetooth host in Output, `Nothing` is no packet and the types `"keepalive"`
and `"boot"` are no reports in Link24.

Only model-checked: liveness (`EventuallyDecided`, `ContactsArrive`, `SwitchEnds`, `ReportsSettle`, `KeysArrive`), which is beyond the
prover; everything about Behaviors, whose operators are recursive as the code is, which is beyond it too; and what the theorems of
HoldTap leave out by their hypotheses.

## 6. What the checks found

* **ComboStuck** (`combo.c:535`): where a long has 32 bits, the timer of combos is armed for 24 days after its first timeout,
  and the next key that a combo holds back, while another is still down, waits beyond its timeout until any other key event.
* **EagerBoot** (`physical_layouts.c:290`): with a debounce time of zero for presses, which the documentation recommends, a key that is
  down when its device is first resumed is reported through a callback that is not set yet.
* **StudioReset** (`keymap.c:680`): the reset passes over an edited binding whose first ten bytes are those of the devicetree's, for
  example `&kp LS(A)` over `&kp A`, and over every failed deletion, and reports success. The binding is back after a restart,
  where `docs/docs/features/studio.md:49` promises the keymap of the devicetree.

What follows was seen while modelling. The properties excuse it by name, or it is outside of what they say.

Keys and behaviors:

* With `hold-while-undecided` and a quick tap (`quick-tap-ms` or `require-prior-idle-ms`), the tap is decided before the hold
  binding is pressed, and releases it all the same (`behavior_hold_tap.c:482`): the release takes a modifier or a layer from another key
  that holds it. `BindingsReleased` is false for such a hold-tap, where `docs/docs/config/behaviors.md:84` says that the hold is
  triggered immediately on press and released before a tap.
* With `hold-while-undecided-linger` a hold-tap decided as hold releases its hold binding twice (`behavior_hold_tap.c:665`).
  An inner hold-tap that becomes undecided in a replay is not checked against its own tapping term, and a key pressed after
  the term still interrupts it (`:765`). A live change of its configuration has no check for held keys.
* A second tap of a lazy sticky key releases a modifier that was never pressed (`behavior_sticky_key.c:163`). When all
  slots for active combos are taken, candidates and a running timer stay behind without a key, against the assertion at
  `combo.c:353`. A combo edited by Studio to no positions between its last key and its activation is never released.
* Two positions with `&key_repeat` share one record of what they pressed. `timer_cancelled` of sticky keys and tap dances is never set.
* Conditional layers that depend on each other in a cycle (3 if 4, 4 if 3) keep the system work queue in their update loop for
  ever once one of the two is turned on by a key, contrary to `conditional_layer.c:53` ("the process will eventually
  terminate").
* `keys_held` of the boot report is decremented for keys that a change of endpoint has already cleared, and wraps (`hid.c:226`).
* Studio can remove the default layer from the order, or be interrupted while it moves it: the keys of that layer then do
  nothing, though the code takes pains to keep it active (`keymap.c:738` against `:144`).
* Discarding selects the default layout, not the saved one, and leaves a name that is not in flash as it was edited. With reserved
  layers `zmk_keymap_check_unsaved_changes` reports changes right after the first start; it never looks at names and
  configurations.

Scanning:

* An interrupt that comes while outputs are being armed leaves the later ones active, contrary to the comment at
  `kscan_gpio_matrix.c:172`. Debouncing hides the one ghost sample; with a press time of zero it is a ghost key.
* Resuming a device reads it, and enabling it reads it again; the scan scheduled by the first may overtake the second:
  it clears the flag of a change that the read has found, which is then not reported, or both report the same change, since a report
  does not clear the flag (TLC reaches both; the keymap then gets two presses for one). A read that fails leaves the device deaf until it is
  enabled again. A layout whose selection failed leaves the old device disabled, and selecting the old layout again returns early (`physical_layouts.c:256`).

Endpoints and BLE:

* The watchdog's recovery is submitted to the work queue that the switch it watches may block, and clears the flag without
  looking whether the switch has ended. The flag is tested and set in two steps, between which a preemptible thread can be overtaken.
* After a failed selection of 2.4G while another switch runs, or a save that was pending since before, flash may hold another
  transport than the one in use. A restart of the radio after pairing, overtaken by a switch to BLE, starts 2.4G beside BLE.
* A queued report may reach the newly selected host; the old host never gets the releases (`endpoints.c:715`). A host paired into two
  profiles loses its bond in both when one is cleared. After a restart reports go to BLE profile 0 until the first event.
* After 40 failures the keyboard gives up, "10 s" by the help of the option; with a resend 1 ms after each failure that is
  a fifth of a second.
* With a FIFO of one packet, which `module/drivers/esb/Kconfig` allows, a report that changes while a packet is in flight is lost: the
  flush keeps that packet, the second write fails like the first, and nothing sends the report again (`2g4.c:107`). This came out of the proof of
  `Link24Agrees`; the run has two packets. `GivesUp` excuses it.

Split:

* When a half disconnects, the releases that do not fit the event queue are dropped and the keys stay down (`central.c:207`), and a switch of
  transports ignores those still queued. `is_scanning` stays set when the scan could not be started, and a slot stays
  reserved when it could not be stopped.
* Over a wire, a length that noise turned into one larger than any message makes `get_item` return without consuming
  (`wired.c:297`): the same prefix is found at every later call, and nothing more is ever received. A checksum error leaves intact
  messages behind it until the next byte arrives.
* In half duplex, commands that are given between two polls wait in the buffer, and four of `invoke_behavior` fill it at the default
  size of four items. The poll then finds no room (`wired/central.c:211`), returns before it takes the semaphore, and nothing is sent
  any more. A command given while a poll is still being sent is sent right behind it, and collides with the answer to the poll.
* `publish_events_work` takes HALF_DUPLEX_RX_COMPLETE_TIMEOUT as milliseconds (`wired/central.c:470`), `serial_cb` as ticks (`:268`), which is what its
  help says (`wired/Kconfig:55`).

## 7. What is not modelled

In modelled components: NKRO and boot reports, masked modifiers in Hid (Behaviors has them for mod-morphs), mouse reports;
sensor bindings; Studio's edits of hold-taps and combos while keys are held; for the settings, lighting and motion, the saved index
of the layout (which a save does not update), and requests refused because Studio is locked; for scanning, polling and the drivers
for other wirings, which repeat the structure of the matrix driver; for the endpoints, the build with all of USB, BLE and
2.4G sees BLE profiles only in Output, one profile in Endpoints; for the 2.4G link, a restart of the dongle, payloads in
acknowledgements, pairing and the cipher; for split, the commands over BLE, sensors, pointing, battery and indicators, switching
transports (with one transport without a detect pin, `set_enabled(false)` is never called), the polling and asynchronous modes of the wired
link, which fill and empty the same buffers, and the restart of a half. A binding is
written as a whole, although Studio overwrites it word by word.

Whole components:

* *Studio RPC.* Framing and encoding; one request is served at a time, which is how StudioSettings and Endpoints take it.
* *Activity and power.* Before power goes off all devices are suspended in a loop; what the scan makes of being suspended and
  resumed is in PhysicalLayouts. When soft off fails half way (`pm.c:131`), devices that its first loop suspended stay so.
* *Pointing, motion, lighting, battery, WPM, indicators, sensors, display.* Arithmetic, animations and periodic readings without a
  protocol of their own. Boards, shields, bindings and device drivers are configuration and I/O.
