-------------------------------- MODULE Hid --------------------------------
(***************************************************************************)
(* The HID report state of src/app/src/hid.c, and src/app/src/             *)
(* hid_listener.c, which turns keycode events into reports to the host.    *)
(*                                                                         *)
(* Bindings (the "sources") press a usage and later release one.  Both     *)
(* handlers run to completion on the system work queue, so each of them is *)
(* one step; `sent' holds what the host saw in the middle of that step.    *)
(* The keyboard report is the HKRO one.                                    *)
(***************************************************************************)
EXTENDS Integers, Sequences, FiniteSets

CONSTANTS
  Mods,                \* the eight modifiers
  Keys,                \* keyboard usages that are no modifiers
  ConsumerKeys,        \* usages of the consumer page
  NoKey,               \* an empty slot of a report, and a source at rest
  ReportSize,          \* CONFIG_ZMK_HID_KEYBOARD_REPORT_SIZE
  ConsumerSize,        \* CONFIG_ZMK_HID_CONSUMER_REPORT_SIZE
  SeparateModRelease,  \* CONFIG_ZMK_HID_SEPARATE_MOD_RELEASE_REPORT
  Usages,              \* the usages that bindings send
  Sources              \* what presses and releases them

Codes == Mods \cup Keys \cup ConsumerKeys
Usage == [code : Codes, implicit : SUBSET Mods, explicit : SUBSET Mods]

\* zmk_keycode_state_changed_from_encoded: the modifiers in a usage are explicit
\* when its code is itself a modifier, and implicit otherwise.
ASSUME HidAssumption ==
  /\ ReportSize \in Nat \ {0} /\ ConsumerSize \in Nat \ {0}
  /\ SeparateModRelease \in BOOLEAN
  /\ Keys \cap Mods = {} /\ Keys \cap ConsumerKeys = {} /\ Mods \cap ConsumerKeys = {}
  /\ NoKey \notin Codes /\ NoKey \notin Usages
  /\ Usages \subseteq Usage
  /\ \A u \in Usages : IF u.code \in Mods THEN u.implicit = {} ELSE u.explicit = {}
  /\ IsFiniteSet(Sources)

VARIABLES
  modCounts,   \* explicit_modifier_counts
  explicit,    \* explicit_modifiers
  implicit,    \* implicit_modifiers
  report,      \* keyboard_report and consumer_report
  host,        \* the reports as the host last received them
  sent,        \* the states of `host' the last step went through before its last report
  holding,     \* per source, the usage it pressed and has not released
  unpaired     \* did a source ever release what it had not pressed?
hidVars == <<modCounts, explicit, implicit, report, host, sent, holding, unpaired>>

Report == [mods : SUBSET Mods,
           keys : [1 .. ReportSize -> Keys \cup {NoKey}],
           consumer : [1 .. ConsumerSize -> ConsumerKeys \cup {NoKey}]]
EmptyReport == [mods |-> {},
                keys |-> [i \in 1 .. ReportSize |-> NoKey],
                consumer |-> [i \in 1 .. ConsumerSize |-> NoKey]]
-----------------------------------------------------------------------------
\* TOGGLE_KEYBOARD(0U, usage): into the first empty slot; a full report drops it
Select(slots, k) ==
  [i \in DOMAIN slots |->
     IF slots[i] = NoKey /\ \A j \in 1 .. i - 1 : slots[j] # NoKey THEN k ELSE slots[i]]
\* TOGGLE_KEYBOARD(usage, 0U): out of every slot
Deselect(slots, k) == [i \in DOMAIN slots |-> IF slots[i] = k THEN NoKey ELSE slots[i]]

IsPressed(slots, k) == \E i \in DOMAIN slots : slots[i] = k

\* zmk_hid_is_pressed, for a usage that is no modifier
Reported(r, u) == \/ u.code \in Keys /\ IsPressed(r.keys, u.code)
                  \/ u.code \in ConsumerKeys /\ IsPressed(r.consumer, u.code)

\* zmk_hid_press and zmk_hid_release, for the slots of the usage's page
PressSlots(r, u) ==
  [r EXCEPT !.keys = IF u.code \in Keys THEN Select(@, u.code) ELSE @,
            !.consumer = IF u.code \in ConsumerKeys THEN Select(@, u.code) ELSE @]
ReleaseSlots(r, u) ==
  [r EXCEPT !.keys = IF u.code \in Keys THEN Deselect(@, u.code) ELSE @,
            !.consumer = IF u.code \in ConsumerKeys THEN Deselect(@, u.code) ELSE @]

\* zmk_endpoints_send_report: the host h receives the page of usage u from report r
Send(h, r, u) == IF u.code \in ConsumerKeys
                 THEN [h EXCEPT !.consumer = r.consumer]
                 ELSE [h EXCEPT !.mods = r.mods, !.keys = r.keys]
SendMods(h, r) == [h EXCEPT !.mods = r.mods, !.keys = r.keys]
Extra(h, h1) == IF h1 = h THEN <<>> ELSE <<h1>>

\* The modifiers a usage registers, by its code and by its explicit modifiers
ByCode(u, m)  == IF u.code = m THEN 1 ELSE 0
ByFlags(u, m) == IF m \in u.explicit THEN 1 ELSE 0
-----------------------------------------------------------------------------
\* Operators whose comment starts with "Fault:" are faulty variants of the definition that
\* follows.  Nothing uses them: put in its place they show that a property notices.
\* Fault: a key that is still in the report is not released first.
NeverAgain(u) == FALSE
PressedAgain(u) == Reported(report, u)

(* hid_listener_keycode_pressed: a key that is still in the report is first *)
(* released and reported so; an event of the consumer page sends the        *)
(* keyboard report too when it changed the modifiers.                       *)
KeycodePressed(s, u) ==
  LET again == PressedAgain(u)
      before == IF again THEN ReleaseSlots(report, u) ELSE report
      after == [PressSlots(before, u) EXCEPT !.mods = explicit' \cup implicit']
      h1 == IF again THEN Send(host, before, u) ELSE host
      h2 == IF u.code \in ConsumerKeys /\ after.mods # report.mods
            THEN SendMods(h1, after) ELSE h1
  IN /\ modCounts' = [m \in Mods |-> modCounts[m] + ByCode(u, m) + ByFlags(u, m)]
     /\ explicit' = explicit \cup {m \in Mods : ByCode(u, m) + ByFlags(u, m) > 0}
     /\ implicit' = u.implicit
     /\ report' = after
     /\ host' = Send(h2, after, u)
     /\ sent' = Extra(host, h1) \o Extra(h1, h2)
     /\ holding' = [holding EXCEPT ![s] = u]
     /\ unpaired' = (unpaired \/ holding[s] # NoKey)

\* Fault: the first release clears a modifier that two bindings hold.
UnregisterAll(counts, n) == [m \in Mods |-> IF n[m] > 0 THEN 0 ELSE counts[m]]
\* Fault: the last count is never given back.
UnregisterButOne(counts, n) ==
  [m \in Mods |-> IF counts[m] > 1 THEN counts[m] - n[m] ELSE counts[m]]
\* zmk_hid_unregister_mod: fails, and changes nothing, when the count is 0
Unregister(counts, n) ==
  [m \in Mods |-> IF counts[m] > 0 THEN counts[m] - n[m] ELSE counts[m]]

(* hid_listener_keycode_released: returns early when the release of a       *)
(* modifier code fails; `released' is the report before the modifiers of    *)
(* the usage are released.                                                  *)
KeycodeReleased(s, u) ==
  LET failed == u.code \in Mods /\ modCounts[u.code] <= 0
      byCode == Unregister(modCounts, [m \in Mods |-> ByCode(u, m)])
      released == [ReleaseSlots(report, u) EXCEPT !.mods =
                     IF u.code \in Mods
                     THEN (explicit \ {m \in Mods : m = u.code /\ byCode[m] = 0}) \cup implicit
                     ELSE @]
      after == [released EXCEPT !.mods = explicit']
      h1 == IF SeparateModRelease THEN Send(host, released, u) ELSE host
      h2 == IF u.code \in ConsumerKeys /\ after.mods # report.mods
            THEN SendMods(h1, after) ELSE h1
  IN /\ IF failed
        THEN UNCHANGED <<modCounts, explicit, implicit, report, host>> /\ sent' = <<>>
        ELSE /\ modCounts' = Unregister(byCode, [m \in Mods |-> ByFlags(u, m)])
             /\ explicit' = explicit \ {m \in Mods : modCounts'[m] # modCounts[m]
                                                     /\ modCounts'[m] = 0}
             /\ implicit' = {}
             /\ report' = after
             /\ host' = Send(h2, after, u)
             /\ sent' = Extra(host, h1) \o Extra(h1, h2)
     /\ holding' = [holding EXCEPT ![s] = NoKey]
     /\ unpaired' = (unpaired \/ holding[s] # u)

\* zmk_endpoints_clear_current, for the host of a newly selected endpoint: empties
\* the reports but keeps the counts, the modifiers and the keys that are held.
ClearReports ==
  /\ report' = EmptyReport
  /\ host' = EmptyReport
  /\ sent' = <<>>
  /\ UNCHANGED <<modCounts, explicit, implicit, holding, unpaired>>
-----------------------------------------------------------------------------
HidInit ==
  /\ modCounts = [m \in Mods |-> 0]
  /\ explicit = {} /\ implicit = {}
  /\ report = EmptyReport /\ host = EmptyReport /\ sent = <<>>
  /\ holding = [s \in Sources |-> NoKey]
  /\ unpaired = FALSE

HidNext == \/ \E s \in Sources, u \in Usages : KeycodePressed(s, u) \/ KeycodeReleased(s, u)
           \/ ClearReports
HidSpec == HidInit /\ [][HidNext]_hidVars
-----------------------------------------------------------------------------
HidTypeOK ==
  /\ modCounts \in [Mods -> Nat]
  /\ explicit \subseteq Mods /\ implicit \subseteq Mods
  /\ report \in Report /\ host \in Report
  /\ sent \in Seq(Report)
  /\ holding \in [Sources -> Usages \cup {NoKey}]
  /\ unpaired \in BOOLEAN

Holders(m)  == {s \in Sources : holding[s] # NoKey /\ holding[s].code = m}
Flaggers(m) == {s \in Sources : holding[s] # NoKey /\ m \in holding[s].explicit}

\* A modifier is down exactly as long as some binding that registered it is held: the
\* counts, which decide when the bit is cleared, never drift from the held bindings,
\* in whatever order overlapping bindings with the same modifier are released.
ModifierCounts ==
  /\ explicit = {m \in Mods : modCounts[m] > 0}
  /\ ~unpaired => \A m \in Mods : modCounts[m] = Cardinality(Holders(m)) + Cardinality(Flaggers(m))

Distinct(slots) == \A i, j \in DOMAIN slots : slots[i] # NoKey /\ slots[i] = slots[j] => i = j
Backed(slots) == \A i \in DOMAIN slots : slots[i] # NoKey => Holders(slots[i]) # {}

\* No key stays in a report after its last binding was released, and none is in it
\* twice, with more keys held than slots and with two bindings for the same key.
NoGhostKey ==
  /\ Distinct(report.keys) /\ Distinct(report.consumer)
  /\ ~unpaired => Backed(report.keys) /\ Backed(report.consumer)

\* Between handlers the host has every change of both reports: an event of the
\* consumer page does not leave the host with stale modifiers.
HostInSync == host = report

\* A modifier in the report is either registered or implied by the last key event.
NoGhostModifier == report.mods \subseteq explicit \cup implicit

AllAtRest == \A s \in Sources : holding[s] = NoKey
\* With nothing held, the host sees nothing held.
NothingHeldNothingSent == ~unpaired /\ AllAtRest => host = EmptyReport

\* A key that is pressed and fits the report reaches the host as a fresh press, even
\* when another binding already holds it: some report before the last lacks the key.
FreshPress ==
  [][\A s \in Sources :
       LET u == holding'[s]
       IN holding[s] = NoKey /\ u # NoKey /\ u.code \notin Mods /\ Reported(host', u)
            => \/ ~Reported(host, u)
               \/ \E i \in DOMAIN sent' : ~Reported(sent'[i], u)]_hidVars
=============================================================================
