------------------------------ MODULE Keyboard ------------------------------
(***************************************************************************)
(* From key positions to the host: the Keymap resolves each key event to a *)
(* binding, and a key-press binding raises the keycode event that the Hid  *)
(* listener handles, all within the same handler of the system work queue. *)
(* The sources of Hid are the key positions.                               *)
(***************************************************************************)
EXTENDS Keymap, Hid

ASSUME KeyboardAssumption ==
  /\ Sources = Positions
  /\ \A b \in Bindings : b.kind = "kp" => b.arg \in Usages

vars == <<active, locks, order, keymap, recorded, writes, edits, down, held, edited, misrouted,
          modCounts, explicit, implicit, report, host, sent, holding, unpaired>>

IsKeyPress(b) == b # NoBinding /\ b.kind = "kp"

KeyDown(p) ==
  LET b == Resolve(p, active)
  IN /\ PositionPressed(p)
     /\ IF IsKeyPress(b) THEN KeycodePressed(p, b.arg) ELSE UNCHANGED hidVars

\* Fault (a variant of the definition that follows, used by nothing): the release goes to
\* the binding of the layers that are active now.
KeyUpByActive(p) ==
  LET b == Resolve(p, active)
  IN /\ PositionReleased(p)
     /\ IF IsKeyPress(b) THEN KeycodeReleased(p, b.arg) ELSE UNCHANGED hidVars

KeyUp(p) ==
  LET b == Resolve(p, recorded[p])
  IN /\ PositionReleased(p)
     /\ IF IsKeyPress(b) THEN KeycodeReleased(p, b.arg) ELSE UNCHANGED hidVars

\* update_current_endpoint, when the selected endpoint has changed
EndpointChanged == ClearReports /\ report # EmptyReport /\ UNCHANGED keymapVars

Init == KeymapInit /\ HidInit
Next == \/ \E p \in Positions : KeyDown(p) \/ KeyUp(p)
        \/ EndpointChanged
        \/ Edit /\ UNCHANGED hidVars
Spec == Init /\ [][Next]_vars
-----------------------------------------------------------------------------
TypeOK == KeymapTypeOK /\ HidTypeOK

\* The layers follow the keys: a locked layer is on, and a layer that is on is locked or
\* held by a momentary key, in whatever order the keys of a layer overlap.
LayersFollowKeys == LocksActive /\ MomentaryHeld

\* The reports follow the keys, and the host the reports: modifiers are counted once per
\* binding that is held, no key outlives its bindings, no change stays unsent.
ReportsFollowKeys == ModifierCounts /\ NoGhostKey /\ NoGhostModifier /\ HostInSync

\* With every key up, nothing is held for the host and no layer is on but the locked
\* ones, unless an edit sent the release of a key to another binding than its press.
NothingStuck ==
  down = {} /\ ~misrouted => host = EmptyReport /\ active \subseteq locks \cup {Default}

\* The Hid's pairing of presses and releases is guaranteed by the keymap: only an edit
\* under a held key makes a binding release what it did not press.
PairedByKeymap == unpaired => misrouted

\* The composition is a behavior of each component.
KeymapImplemented == KeymapSpec
HidImplemented == HidSpec
=============================================================================
