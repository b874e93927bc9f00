------------------------------- MODULE Behaviors -------------------------------
(***************************************************************************)
(* From a key to the HID report through the behaviors that keep state:     *)
(* combos, tap dances, sticky keys, macros and their queue, mod-morphs,    *)
(* caps word, key repeat, key toggle, the layer behaviors and conditional  *)
(* layers (src/app/src).  Events pass the listeners in the order in which  *)
(* CMakeLists.txt links them.                                              *)
(*                                                                         *)
(* All of it runs on the system work queue, where a handler and whatever   *)
(* it raises run to completion: the state of the keyboard is the record    *)
(* kb, and a function of the code is an operator from states to states.    *)
(* Only what follows a change of layers comes in steps: each round of the  *)
(* loop of conditional_layer.c and each call that &to makes.  A change of  *)
(* layers is the last thing that the handlers of an event do.              *)
(* Times are relative to k_uptime_get(): now is 0, the past negative.      *)
(*                                                                         *)
(* Operators whose comment starts with "Fault:" are faulty variants of the *)
(* definition that follows, which nothing uses.                            *)
(***************************************************************************)
EXTENDS Integers, FiniteSets, SequencesExt

CONSTANTS
  Positions, Modifiers, Ids,
  Class,       \* key -> "alpha", "numeric", "continue" (continue_list) or "other"
  Keymaps,     \* keymaps, with their combos and conditional layers
  MaxKeys,     \* MAX_COMBO_KEYS
  MaxCombos,   \* CONFIG_ZMK_COMBO_MAX_PRESSED_COMBOS
  MaxHeld,     \* CONFIG_ZMK_BEHAVIOR_STICKY_KEY_MAX_HELD, .._TAP_DANCE_MAX_HELD
  QueueSize,   \* CONFIG_ZMK_BEHAVIORS_QUEUE_SIZE
  MaxPresses,  \* keymap -> bound on the presses of keys
  Longest      \* no timer runs longer

ASSUME BehaviorsAssumption ==
  /\ MaxKeys \in Nat \ {0} /\ MaxCombos \in Nat /\ MaxHeld \in Nat \ {0}
  /\ QueueSize \in Nat \ {0} /\ MaxPresses \in [Keymaps -> Nat] /\ Longest \in Nat \ {0}
  /\ \A k \in Keymaps : \A i, j \in DOMAIN k.combos :
       i < j => Cardinality(k.combos[i].at) <= Cardinality(k.combos[j].at)

\* No conditional layers that wait for each other in a cycle; the default layer, which is
\* active without a bit in the layer state, is no part of a conditional layer
ASSUME ConditionalAssumption ==
  \A k \in Keymaps :
    /\ \A c \in k.conditional : 0 \notin c.ifs \cup {c.then}
    /\ \A ls \in SUBSET {c.then : c \in k.conditional} :
         ls # {} => \E l \in ls : \A c \in k.conditional : c.then = l => c.ifs \cap ls = {}

VARIABLES
  keymap,    \* the configuration, fixed at build time
  kb,        \* what the firmware remembers
  down,      \* keys that are physically pressed
  presses,   \* how many presses there were
  quiet      \* time since the last key event, for the bound on time

vars == <<keymap, kb, down, presses, quiet>>

None == "none"
Free == -1              \* an unused slot; no position
Idle == 1000            \* the delayable work is not scheduled
Far == 900              \* it is scheduled in LONG_MAX ms
Virtual(c) == 100 + c   \* ZMK_VIRTUAL_KEY_POSITION_COMBO

\* Time passes
Past == -Longest - 1  \* older times are not told apart
Older(t) == IF t >= Far \/ t = Past THEN t ELSE t - 1
Expired(due) == due <= 0
\* k_work_schedule of an idle work item; it does nothing to one that is pending
Schedule(due, delay) == IF due = Idle THEN (IF delay < 0 THEN 0 ELSE delay) ELSE due

NoKeycode == [key |-> None, mods |-> {}, down |-> FALSE, ts |-> 0]
NoBinding == [type |-> None]
NoDance == [pos |-> Free, b |-> NoBinding, count |-> 0, pressed |-> FALSE, decided |-> FALSE,
            release_at |-> 0, due |-> Idle]
NoSticky == [pos |-> Free, b |-> NoBinding, started |-> FALSE, release_at |-> 0, used |-> None,
             due |-> Idle, hits |-> 0]
Slots == 1..MaxHeld

\* History: presses that no one has handled yet, what went wrong, what excuses it
Wrong(s, what) == [s EXCEPT !.wrong = @ \cup {what}]
Excuse(s, why) == [s EXCEPT !.excuse = @ \cup {why}]
\* The presses at positions ps are handled now
Delivered(s, ps) ==
  LET n == Len(ps) IN
  IF n <= Len(s.waiting) /\ SubSeq(s.waiting, 1, n) = ps
  THEN [s EXCEPT !.waiting = SubSeq(@, n + 1, Len(@))]
  ELSE [Wrong(s, "order") EXCEPT !.waiting = SelectSeq(@, LAMBDA p : ~Contains(ps, p))]

\* A call that may lead back to its caller: to listeners, behaviors and the queue
RECURSIVE Call(_, _)
RaisePosition(s, e) == Call(s, [to |-> "position", e |-> e])
RaiseKeycode(s, k) == Call(s, [to |-> "keycode", e |-> k])
Invoke(s, b, p, d, ts) == Call(s, [to |-> "binding", b |-> b, p |-> p, d |-> d, ts |-> ts])
ProcessNext(s) == Call(s, [to |-> "queue"])
-----------------------------------------------------------------------------
(* hid_listener.c, hid.c *)

ExplicitMods(s) == {m \in Modifiers : s.hid.mods[m] > 0}
IsPressed(s, key) == IF key \in Modifiers THEN s.hid.mods[key] > 0 ELSE key \in s.hid.keys

\* A tapped quick-release sticky key whose modifier is out
Applies(slot) == /\ slot.pos # Free /\ slot.started /\ slot.b.quick
                 /\ (slot.b.lazy => slot.used # None)
\* History: a key press counts as a use of such a sticky key
Count(s, k) ==
  IF ~k.down \/ k.key \in Modifiers THEN s
  ELSE LET hit == [i \in Slots |-> IF Applies(s.stickies[i]) THEN [s.stickies[i] EXCEPT !.hits = @ + 1]
                                   ELSE s.stickies[i]]
       IN IF \E i \in Slots : hit[i].hits > 1 THEN Wrong([s EXCEPT !.stickies = hit], "twice")
          ELSE [s EXCEPT !.stickies = hit]

HidListener(s, k) ==
  LET at == [Count(s, k) EXCEPT !.hid.implicit = IF k.down THEN k.mods ELSE {}] IN
  CASE k.key \notin Modifiers -> [at EXCEPT !.hid.keys = IF k.down THEN @ \cup {k.key} ELSE @ \ {k.key}]
    [] k.down -> [at EXCEPT !.hid.mods[k.key] = @ + 1]
    [] s.hid.mods[k.key] > 0 -> [at EXCEPT !.hid.mods[k.key] = @ - 1]
    [] OTHER -> Wrong(s, "unregister")
-----------------------------------------------------------------------------
(* Keycode events: sticky key, caps word, key repeat, combo, HID *)

\* caps_word_keycode_state_changed_listener
CapsMods(s, k) ==
  IF k.down /\ s.caps /\ Class[k.key] = "alpha" THEN [k EXCEPT !.mods = @ \cup {"shift"}] ELSE k
CapsWord(s, k) ==
  IF k.down /\ Class[k.key] = "other" /\ k.key \notin Modifiers THEN [s EXCEPT !.caps = FALSE] ELSE s

\* key_repeat_keycode_state_changed_listener
KeyRepeat(s, k) ==
  IF k.down THEN [s EXCEPT !.repeat.last = [k EXCEPT !.mods = @ \cup ExplicitMods(s)]] ELSE s

\* keycode_state_changed_listener of combo.c
StoreLastTapped(s, k) ==
  IF k.down /\ k.key \notin Modifiers /\ k.ts > s.comboed THEN [s EXCEPT !.tapped = k.ts] ELSE s

AfterSticky(s, k) ==
  LET e == CapsMods(s, k) IN
  HidListener(StoreLastTapped(KeyRepeat(CapsWord(s, e), e), e), e)

KeyPress(s, b, down_, ts) == RaiseKeycode(s, [key |-> b.key, mods |-> b.mods, down |-> down_, ts |-> ts])
-----------------------------------------------------------------------------
(* behavior_sticky_key.c; k_work_cancel_delayable never returns -EINPROGRESS, so *)
(* timer_cancelled is never set *)

Bound(slot) == [type |-> "kp", key |-> slot.b.key, mods |-> {}]
\* clear_sticky_key; what else is in the slot no longer matters
FreeSticky(s, i) == [s EXCEPT !.stickies[i] = [NoSticky EXCEPT !.due = s.stickies[i].due]]
ReleaseSticky(s, i, ts) ==
  Invoke(FreeSticky(s, i), Bound(s.stickies[i]), s.stickies[i].pos, FALSE, ts)
OnStickyTimeout(s, i) ==
  IF s.stickies[i].b.lazy THEN FreeSticky(s, i)
  ELSE ReleaseSticky(s, i, s.stickies[i].release_at)

\* find_sticky_key; 0 for NULL
FindSticky(s, b, p) ==
  LET found == {i \in Slots : s.stickies[i].pos = p /\ s.stickies[i].b.key = b.key} IN
  IF found = {} THEN 0 ELSE Min(found)

StickyPressed(s, b, p, ts) ==
  LET same == FindSticky(s, b, p)
      stopped == [s EXCEPT !.stickies[same].due = Idle]
      s1 == IF same = 0 THEN s
            ELSE ReleaseSticky(IF s.stickies[same].b.lazy THEN Excuse(stopped, "retapped") ELSE stopped, same, ts)
      free == {i \in Slots : s1.stickies[i].pos = Free}
      i == Min(free)
      s2 == [s1 EXCEPT !.stickies[i] = [NoSticky EXCEPT !.pos = p, !.b = b, !.due = s1.stickies[i].due]]
  IN IF free = {} THEN s1
     ELSE IF b.lazy THEN s2 ELSE Invoke(s2, Bound(s2.stickies[i]), p, TRUE, ts)

StickyReleased(s, b, p, ts) ==
  LET i == FindSticky(s, b, p) IN
  IF i = 0 THEN s
  ELSE IF s.stickies[i].used # None THEN ReleaseSticky(s, i, ts)
  ELSE LET at == ts + b.after
           s1 == [s EXCEPT !.stickies[i].started = TRUE, !.stickies[i].release_at = at]
       IN IF at > 0 THEN [s1 EXCEPT !.stickies[i].due = Schedule(@, at)]
          ELSE Excuse(s1, "late")

\* Fault: a quick-release sticky key lasts until the key that it modifies is up.
StickySeesSlow(acc, i, k) ==
  LET slot == acc.s.stickies[i]
      s1 == [acc.s EXCEPT !.stickies[i].due = Idle]
  IN
  CASE slot.pos = Free \/ (slot.b.key = k.key /\ k.mods = {}) -> acc
    [] ~k.down /\ slot.started /\ slot.used = k.key -> [acc EXCEPT !.s = s1, !.release = Append(@, i)]
    [] ~k.down \/ (slot.b.ignore /\ k.key \in Modifiers) \/ slot.used # None -> acc
    [] slot.started /\ k.ts > slot.release_at -> [acc EXCEPT !.s = OnStickyTimeout(s1, i)]
    [] OTHER -> [acc EXCEPT !.s = [s1 EXCEPT !.stickies[i].used = k.key],
                            !.press = IF slot.b.lazy THEN Append(@, i) ELSE @]
\* One round of the first loop of the listener
StickySees(acc, i, k) ==
  LET slot == acc.s.stickies[i]
      s1 == [acc.s EXCEPT !.stickies[i].due = Idle]
  IN
  CASE slot.pos = Free \/ (slot.b.key = k.key /\ k.mods = {}) -> acc
    [] ~k.down /\ slot.started /\ slot.used = k.key -> [acc EXCEPT !.s = s1, !.release = Append(@, i)]
    [] ~k.down \/ (slot.b.ignore /\ k.key \in Modifiers) \/ slot.used # None -> acc
    [] slot.started /\ k.ts > slot.release_at -> [acc EXCEPT !.s = OnStickyTimeout(s1, i)]
    [] OTHER -> [s |-> [s1 EXCEPT !.stickies[i].used = k.key],
                 press |-> IF slot.b.lazy THEN Append(acc.press, i) ELSE acc.press,
                 release |-> IF slot.started /\ slot.b.quick THEN Append(acc.release, i) ELSE acc.release]

\* sticky_key_keycode_state_changed_listener: the sticky keys are pressed before and
\* released after the event that they modify
KeycodeStateChanged(s, k) ==
  LET seen == FoldLeft(LAMBDA acc, i : StickySees(acc, i, k),
                       [s |-> s, press |-> <<>>, release |-> <<>>], [i \in Slots |-> i])
      before == FoldLeft(LAMBDA t, i : Invoke(t, Bound(t.stickies[i]), t.stickies[i].pos, TRUE, k.ts),
                         seen.s, seen.press)
  IN FoldLeft(LAMBDA t, i : ReleaseSticky(t, i, k.ts), AfterSticky(before, k), seen.release)
-----------------------------------------------------------------------------
(* behavior_tap_dance.c *)

Chosen(dance) == dance.b.list[dance.count]
PressDance(s, i, ts) ==
  Invoke([s EXCEPT !.dances[i].decided = TRUE], Chosen(s.dances[i]), s.dances[i].pos, TRUE, ts)
ReleaseDance(s, i, ts) ==
  Invoke([s EXCEPT !.dances[i] = [NoDance EXCEPT !.due = s.dances[i].due]], Chosen(s.dances[i]), s.dances[i].pos, FALSE, ts)
FindDance(s, p) == {i \in Slots : s.dances[i].pos = p}

DancePressed(s, b, p, ts) ==
  LET free == FindDance(s, Free)
      i == Min(IF FindDance(s, p) = {} THEN free ELSE FindDance(s, p))
      dance == IF FindDance(s, p) # {} THEN s.dances[i] ELSE [NoDance EXCEPT !.pos = p, !.b = b]
      count == IF dance.count < Len(b.list) THEN dance.count + 1 ELSE dance.count
      s1 == [s EXCEPT !.dances[i] = [dance EXCEPT !.pressed = TRUE, !.due = Idle, !.count = count]]
      at == ts + b.term
  IN IF FindDance(s, p) = {} /\ free = {} THEN s
     ELSE IF count = Len(b.list) THEN PressDance(s1, i, ts)
     ELSE LET s2 == [s1 EXCEPT !.dances[i].release_at = at] IN
          IF at > 0 THEN [s2 EXCEPT !.dances[i].due = at] ELSE Excuse(s2, "late")

DanceReleased(s, p, ts) ==
  IF FindDance(s, p) = {} THEN s
  ELSE LET i == Min(FindDance(s, p))
           s1 == [s EXCEPT !.dances[i].pressed = FALSE]
       IN IF s1.dances[i].decided THEN ReleaseDance(s1, i, ts) ELSE s1

\* A dance is decided; its key may be up again
Decide(s, i, ts) ==
  LET s1 == PressDance(s, i, ts) IN
  IF s1.dances[i].pressed THEN s1 ELSE ReleaseDance(s1, i, ts)

\* tap_dance_position_state_changed_listener: the first undecided dance is interrupted
TapDance(s, e) ==
  LET others == {i \in Slots : /\ s.dances[i].pos \notin {Free, e.pos} /\ ~s.dances[i].decided} IN
  IF ~e.down \/ others = {} THEN s
  ELSE Decide([s EXCEPT !.dances[Min(others)].due = Idle], Min(others), e.ts)
-----------------------------------------------------------------------------
(* behavior_queue.c, behavior_macro.c *)

\* behavior_queue_process_next
RunQueue(s) ==
  IF s.queue.items = <<>> THEN s
  ELSE LET item == Head(s.queue.items)
           s1 == Invoke([s EXCEPT !.queue.items = Tail(@)], item.b, item.pos, item.down, 0)
       IN IF item.wait > 0 THEN [s1 EXCEPT !.queue.due = Schedule(@, item.wait)] ELSE ProcessNext(s1)

\* zmk_behavior_queue_add; the work counts as pending while its handler runs
QueueAdd(s, item) ==
  IF Len(s.queue.items) = QueueSize THEN Excuse(s, "dropped")
  ELSE LET s1 == [s EXCEPT !.queue.items = Append(@, item)] IN
       IF s.queue.due = Idle /\ ~s.queue.running THEN ProcessNext(s1) ELSE s1

\* queue_macro: a step is a tap, a press or a release
QueueMacro(s, steps, p) ==
  FoldLeft(LAMBDA t, step :
             LET Add(u, d, wait) == QueueAdd(u, [b |-> step.b, pos |-> p, down |-> d, wait |-> wait]) IN
             CASE step.mode = "tap" -> Add(Add(t, TRUE, step.tap), FALSE, step.wait)
               [] step.mode = "press" -> Add(t, TRUE, step.wait)
               [] step.mode = "release" -> Add(t, FALSE, step.wait),
           s, steps)
-----------------------------------------------------------------------------
(* behavior_mod_morph.c, conditional_layer.c *)

MorphPressed(s, b, p, ts) ==
  IF s.morphs[b.id] # None THEN s
  ELSE IF ExplicitMods(s) \cap b.when = {}
  THEN Invoke([s EXCEPT !.morphs[b.id] = "normal"], b.normal, p, TRUE, ts)
  ELSE Invoke([s EXCEPT !.morphs[b.id] = "morph", !.hid.masked = b.masks], b.morph, p, TRUE, ts)
\* Fault: the mask stays when the normal binding was pressed.
MorphReleasedPlain(s, b, p, ts) ==
  LET s1 == [s EXCEPT !.morphs[b.id] = None] IN
  CASE s.morphs[b.id] = None -> s
    [] s.morphs[b.id] = "normal" -> [Invoke(s1, b.normal, p, FALSE, ts) EXCEPT !.hid.masked = {}]
    [] s.morphs[b.id] = "morph" -> Invoke(s1, b.morph, p, FALSE, ts)
MorphReleased(s, b, p, ts) ==
  IF s.morphs[b.id] = None THEN s
  ELSE [Invoke([s EXCEPT !.morphs[b.id] = None],
               IF s.morphs[b.id] = "normal" THEN b.normal ELSE b.morph, p, FALSE, ts)
        EXCEPT !.hid.masked = {}]

\* Fault: a layer that its lock keeps on counts as changed.
SetLayerStateRaising(s, l, on, locking) ==
  LET Write(ls) == IF on THEN ls \cup {l} ELSE ls \ {l}
      s1 == [s EXCEPT !.layers = Write(@), !.locks = IF locking THEN Write(@) ELSE @]
      kept == ~on /\ (l = 0 \/ (~locking /\ l \in s.locks))
  IN IF s1.layers = s.layers /\ s1.locks = s.locks THEN s
     ELSE [(IF kept THEN s ELSE s1) EXCEPT !.updates = keymap.conditional # {}]
\* set_layer_state, with the listener of the event that it raises; the semaphore is taken
\* when a round of the loop raises it
SetLayerState(s, l, on, locking) ==
  LET Write(ls) == IF on THEN ls \cup {l} ELSE ls \ {l}
      s1 == [s EXCEPT !.layers = Write(@), !.locks = IF locking THEN Write(@) ELSE @]
      kept == ~on /\ (l = 0 \/ (~locking /\ l \in s.locks))
  IN IF kept \/ (s1.layers = s.layers /\ s1.locks = s.locks) THEN s
     ELSE [s1 EXCEPT !.updates = keymap.conditional # {}]

\* Fault: the events that a round raises itself are forgotten.
UpdateOnce(s) ==
  LET thens == {c.then : c \in keymap.conditional}
      met == {c.then : c \in {d \in keymap.conditional : d.ifs \subseteq s.layers}}
  IN [FoldLeft(LAMBDA t, l : IF (l \in met) = (l \in t.layers) THEN t ELSE SetLayerState(t, l, l \in met, FALSE),
               s, SetToSortSeq(thens, <)) EXCEPT !.updates = FALSE]
\* A round of the loop of layer_state_changed_listener
Update(s) ==
  LET thens == {c.then : c \in keymap.conditional}
      met == {c.then : c \in {d \in keymap.conditional : d.ifs \subseteq s.layers}}
  IN FoldLeft(LAMBDA t, l : IF (l \in met) = (l \in t.layers) THEN t ELSE SetLayerState(t, l, l \in met, FALSE),
              [s EXCEPT !.updates = FALSE], SetToSortSeq(thens, <))

\* zmk_keymap_layer_toggle, called with locking set
Toggle(s, l) == SetLayerState(s, l, ~(l \in s.layers /\ l \in s.locks \cup {0}), TRUE)

\* The calls of zmk_keymap_layer_to: all layers off, from the highest, then this one on
LayerTo(l) ==
  LET high == Max(DOMAIN keymap.layers) IN
  Append([i \in 1..high + 1 |-> [layer |-> high + 1 - i, on |-> FALSE]], [layer |-> l, on |-> TRUE])
-----------------------------------------------------------------------------
(* zmk_behavior_invoke_binding *)

InvokeBinding(s, b, p, d, ts) ==
  CASE b.type = "kp" -> KeyPress(s, b, d, ts)
    [] b.type = "sk" -> IF d THEN StickyPressed(s, b, p, ts) ELSE StickyReleased(s, b, p, ts)
    [] b.type = "td" -> IF d THEN DancePressed(s, b, p, ts) ELSE DanceReleased(s, p, ts)
    [] b.type = "macro" -> QueueMacro(s, IF d THEN b.press ELSE b.release, p)
    [] b.type = "morph" -> IF d THEN MorphPressed(s, b, p, ts) ELSE MorphReleased(s, b, p, ts)
    [] b.type = "mo" -> SetLayerState(s, b.layer, d, FALSE)
    [] b.type = "tog" -> IF d THEN Toggle(s, b.layer) ELSE s
    [] b.type = "to" -> IF d THEN [s EXCEPT !.calls = LayerTo(b.layer)] ELSE s
    [] b.type = "caps" -> IF d THEN [s EXCEPT !.caps = ~@] ELSE s
    [] b.type = "toggle" ->
         IF d THEN KeyPress([s EXCEPT !.toggled = @ \cup {b.key}], b, ~IsPressed(s, b.key), ts) ELSE s
    [] b.type = "repeat" ->
         IF d THEN IF s.repeat.last = NoKeycode THEN s
                   ELSE RaiseKeycode([s EXCEPT !.repeat.cur = s.repeat.last], [s.repeat.last EXCEPT !.ts = 0])
         ELSE IF s.repeat.cur = NoKeycode THEN s
              ELSE RaiseKeycode([s EXCEPT !.repeat.cur.down = FALSE],
                                [s.repeat.cur EXCEPT !.down = FALSE, !.ts = 0])

\* zmk_keymap_position_state_changed; the binding of the highest layer that has one
Keymap(s, e) ==
  LET at == IF e.down THEN s.layers ELSE s.pressed[e.pos]
      bound == {l \in at : l \in DOMAIN keymap.layers /\ keymap.layers[l][e.pos].type # "trans"}
      s1 == IF e.down THEN [Delivered(s, <<e.pos>>) EXCEPT !.pressed[e.pos] = at]
                      ELSE [s EXCEPT !.pressed[e.pos] = {}]
  IN IF e.down # (s.pressed[e.pos] = {}) THEN Wrong(s, "unpaired")
     ELSE Invoke(s1, keymap.layers[Max(bound)][e.pos], e.pos, e.down, e.ts)
-----------------------------------------------------------------------------
(* combo.c *)

Combos == DOMAIN keymap.combos
AfterCombo(s, e) == Keymap(TapDance(s, e), e)

\* release_pressed_keys
ReleasePressedKeys(s) ==
  LET ks == s.keys
      s1 == [s EXCEPT !.keys = <<>>]
  IN IF ks = <<>> THEN s ELSE FoldLeft(RaisePosition, AfterCombo(s1, ks[1]), Tail(ks))

\* activate_combo; the combo takes the keys that were pressed first
Activate(s, c) ==
  LET combo == keymap.combos[c]
      n == Min({Len(s.keys), Cardinality(combo.at)})
      taken == SubSeq(s.keys, 1, n)
      ps == [i \in 1..n |-> taken[i].pos]
      s1 == [Delivered(s, ps) EXCEPT !.keys = SubSeq(@, n + 1, Len(@)), !.comboed = taken[1].ts,
                     !.oldest = IF Len(s.keys) > n THEN s.keys[n + 1].ts ELSE @,
                     !.active = Append(@, [combo |-> c, left |-> ToSet(ps), all |-> n = Cardinality(combo.at)])]
      s2 == IF ToSet(ps) = combo.at /\ taken[n].ts - taken[1].ts < combo.timeout THEN s1
            ELSE Wrong(s1, "partial")
  IN IF Len(s.active) = MaxCombos THEN ReleasePressedKeys(Excuse(s, "noslot"))
     ELSE Invoke(s2, combo.does, Virtual(c), TRUE, taken[1].ts)

\* cleanup, with the number of keys that it released
Cleanup(s) ==
  LET s1 == [s EXCEPT !.due = Idle, !.cand = {}]
      Flush(s2) == [s |-> ReleasePressedKeys(s2), released |-> Len(s2.keys)]
  IN Flush(IF s.full = 0 THEN s1 ELSE [Activate(s1, s.full) EXCEPT !.full = 0])

\* update_timeout_task, with a long of 32 bits: LONG_MAX is not LLONG_MAX
UpdateTimeout(s) ==
  LET first == IF s.keys = <<>> \/ s.cand = {} THEN Far
               ELSE s.keys[1].ts + Min({keymap.combos[c].timeout : c \in s.cand})
  IN IF s.at = first /\ s.cand # {} THEN s
     ELSE [s EXCEPT !.at = first, !.due = Schedule(@, first)]

\* filter_timed_out_candidates
InTime(s, ts) == {c \in s.cand : s.oldest + keymap.combos[c].timeout > ts}

\* setup_candidates_for_first_keypress and filter_candidates: the combos that they count
Matches(s, e) ==
  IF s.keys = <<>>
  THEN {c \in Combos : LET combo == keymap.combos[c] IN
          /\ e.pos \in combo.at
          /\ combo.layers = {} \/ Max(s.layers) \in combo.layers
          /\ s.tapped + combo.idle <= e.ts}
  ELSE {c \in InTime(s, e.ts) : e.pos \in keymap.combos[c].at}

\* With the first key, candidates that were left behind stay
PositionDown(s, e) ==
  LET found == Matches(s, e)
      cand == IF s.keys = <<>> THEN s.cand \cup found ELSE found
      room == Len(s.keys) < MaxKeys
      s1 == UpdateTimeout([s EXCEPT !.cand = cand, !.keys = IF room THEN Append(@, e) ELSE @,
                                    !.oldest = IF s.keys = <<>> THEN e.ts ELSE @])
      first == Min(cand)
      s2 == IF found = {} THEN Cleanup(s1).s
            ELSE IF Cardinality(keymap.combos[first].at) # Len(s1.keys) THEN s1
            ELSE IF Cardinality(found) = 1 THEN Cleanup([s1 EXCEPT !.full = first]).s
            ELSE [s1 EXCEPT !.full = first]
  IN IF s.keys = <<>> /\ found = {} THEN AfterCombo(s, e)
     ELSE IF room THEN s2 ELSE AfterCombo(s2, e)

\* deactivate_combo: the last one moves into the gap
Deactivate(active, i) ==
  [j \in 1..Len(active) - 1 |-> IF j = i THEN active[Len(active)] ELSE active[j]]

\* release_combo_key, of the first active combo that has the position
ReleaseComboKey(s, i, e) ==
  LET a == s.active[i]
      combo == keymap.combos[a.combo]
      last == a.left = {e.pos}
      s1 == [s EXCEPT !.active[i].left = @ \ {e.pos}, !.active[i].all = FALSE]
      s2 == IF IF combo.slow THEN last ELSE a.all
            THEN Invoke(s1, combo.does, Virtual(a.combo), FALSE, e.ts) ELSE s1
  IN IF last THEN [s2 EXCEPT !.active = Deactivate(@, i)] ELSE s2

\* Fault: the release of a key overtakes its press, which was captured again.
AfterCleanupBubbling(clean, e) ==
  LET holders == {i \in DOMAIN clean.s.active : e.pos \in clean.s.active[i].left} IN
  IF holders # {} THEN ReleaseComboKey(clean.s, Min(holders), e) ELSE AfterCombo(clean.s, e)
AfterCleanup(clean, e) ==
  LET holders == {i \in DOMAIN clean.s.active : e.pos \in clean.s.active[i].left} IN
  CASE holders # {} -> ReleaseComboKey(clean.s, Min(holders), e)
    [] holders = {} /\ clean.released > 1 -> RaisePosition(clean.s, e)
    [] OTHER -> AfterCombo(clean.s, e)
PositionUp(s, e) == AfterCleanup(Cleanup(s), e)

\* position_state_changed_listener, the first of the listeners
PositionStateChanged(s, e) == IF e.down THEN PositionDown(s, e) ELSE PositionUp(s, e)

\* combo_timeout_handler
TimeoutHandler(s) ==
  LET s1 == [s EXCEPT !.cand = InTime(s, s.at)] IN
  IF s.at > 0 THEN s ELSE UpdateTimeout(IF s1.cand = {} THEN Cleanup(s1).s ELSE s1)

Call(s, c) ==
  CASE c.to = "position" -> PositionStateChanged(s, c.e)
    [] c.to = "keycode" -> KeycodeStateChanged(s, c.e)
    [] c.to = "binding" -> InvokeBinding(s, c.b, c.p, c.d, c.ts)
    [] c.to = "queue" -> RunQueue(s)
    [] c.to = "combo_timeout" -> TimeoutHandler(s)
    [] c.to = "dance_timeout" -> IF s.dances[c.i].pos = Free THEN s ELSE Decide(s, c.i, s.dances[c.i].release_at)
    [] c.to = "sticky_timeout" -> IF s.stickies[c.i].pos = Free THEN s ELSE OnStickyTimeout(s, c.i)
-----------------------------------------------------------------------------
Init ==
  /\ keymap \in Keymaps /\ down = {} /\ presses = 0 /\ quiet = 0
  /\ kb = [keys |-> <<>>, oldest |-> 0, cand |-> {}, full |-> 0, active |-> <<>>, at |-> Past, due |-> Idle,
           tapped |-> Past, comboed |-> Past,
           dances |-> [i \in Slots |-> NoDance], stickies |-> [i \in Slots |-> NoSticky],
           queue |-> [items |-> <<>>, due |-> Idle, running |-> FALSE],
           caps |-> FALSE, repeat |-> [last |-> NoKeycode, cur |-> NoKeycode], morphs |-> [id \in Ids |-> None],
           layers |-> {0}, locks |-> {}, updates |-> FALSE, calls |-> <<>>, pressed |-> [p \in Positions |-> {}],
           hid |-> [mods |-> [m \in Modifiers |-> 0], keys |-> {}, implicit |-> {}, masked |-> {}],
           toggled |-> {}, waiting |-> <<>>, wrong |-> {}, excuse |-> {}]

Event(p, d) == [pos |-> p, down |-> d, ts |-> 0]

Press(p) ==
  /\ p \notin down /\ presses < MaxPresses[keymap]
  /\ down' = down \cup {p} /\ presses' = presses + 1 /\ quiet' = 0
  /\ kb' = RaisePosition([kb EXCEPT !.waiting = Append(@, p)], Event(p, TRUE))
  /\ UNCHANGED keymap

Release(p) ==
  /\ p \in down /\ down' = down \ {p} /\ quiet' = 0
  /\ kb' = RaisePosition(kb, Event(p, FALSE))
  /\ UNCHANGED <<keymap, presses>>

ComboWork ==
  /\ Expired(kb.due) /\ kb' = Call([kb EXCEPT !.due = Idle], [to |-> "combo_timeout"])
  /\ UNCHANGED <<keymap, down, presses, quiet>>

\* behavior_tap_dance_timer_handler
DanceWork(i) ==
  /\ Expired(kb.dances[i].due)
  /\ kb' = Call([kb EXCEPT !.dances[i].due = Idle], [to |-> "dance_timeout", i |-> i])
  /\ UNCHANGED <<keymap, down, presses, quiet>>

\* behavior_sticky_key_timer_handler
StickyWork(i) ==
  /\ Expired(kb.stickies[i].due)
  /\ kb' = Call([kb EXCEPT !.stickies[i].due = Idle], [to |-> "sticky_timeout", i |-> i])
  /\ UNCHANGED <<keymap, down, presses, quiet>>

QueueWork ==
  /\ Expired(kb.queue.due)
  /\ LET s == ProcessNext([kb EXCEPT !.queue.due = Idle, !.queue.running = TRUE]) IN
     kb' = [s EXCEPT !.queue.running = FALSE]
  /\ UNCHANGED <<keymap, down, presses, quiet>>

\* Some work is due
Due == \/ Expired(kb.due) \/ Expired(kb.queue.due)
       \/ \E i \in Slots : Expired(kb.dances[i].due) \/ Expired(kb.stickies[i].due)

\* The loop of conditional layers goes on, or, after it, &to
ConditionalUpdate ==
  /\ kb.updates /\ kb' = Update(kb)
  /\ UNCHANGED <<keymap, down, presses, quiet>>
LayerCall ==
  /\ ~kb.updates /\ kb.calls # <<>>
  /\ LET call == Head(kb.calls) IN
     kb' = [SetLayerState(kb, call.layer, call.on, TRUE) EXCEPT !.calls = Tail(@)]
  /\ UNCHANGED <<keymap, down, presses, quiet>>

\* A handler that changes layers is still running
Busy == kb.updates \/ kb.calls # <<>>

Work == ComboWork \/ QueueWork \/ \E i \in Slots : DanceWork(i) \/ StickyWork(i)

\* A millisecond passes; the work that is due runs before
Tick ==
  /\ ~Due /\ quiet < Longest /\ quiet' = quiet + 1
  /\ kb' = [kb EXCEPT !.at = Older(@), !.oldest = Older(@), !.due = Older(@), !.tapped = Older(@), !.comboed = Older(@),
                      !.keys = [i \in DOMAIN @ |-> [@[i] EXCEPT !.ts = Older(@)]],
                      !.dances = [i \in Slots |-> [@[i] EXCEPT !.release_at = Older(@), !.due = Older(@)]],
                      !.stickies = [i \in Slots |-> [@[i] EXCEPT !.release_at = Older(@), !.due = Older(@)]],
                      !.queue.due = Older(@)]
  /\ UNCHANGED <<keymap, down, presses>>

Next == \/ ~Busy /\ \E p \in Positions : Press(p) \/ Release(p)
        \/ ~Busy /\ (Work \/ Tick)
        \/ ConditionalUpdate \/ LayerCall

\* A handler that has begun goes on
Spec == Init /\ [][Next]_vars /\ WF_vars(ConditionalUpdate) /\ WF_vars(LayerCall)
-----------------------------------------------------------------------------
\* A conditional layer is on exactly while all of its if-layers are, or it is locked
LayersFollow ==
  \A c \in keymap.conditional :
    c.then \in kb.layers <=>
      c.then \in kb.locks \/ \E d \in keymap.conditional : d.then = c.then /\ d.ifs \subseteq kb.layers

AtRest ==
  /\ kb.keys = <<>> /\ kb.active = <<>> /\ kb.queue.items = <<>>
  /\ \A i \in Slots : kb.dances[i].pos = Free /\ kb.stickies[i].pos = Free
  /\ \A p \in Positions : kb.pressed[p] = {}
  /\ \A id \in Ids : kb.morphs[id] = None
  /\ kb.hid.keys \cup ExplicitMods(kb) \subseteq kb.toggled
  /\ kb.hid.implicit = {} /\ kb.hid.masked = {}
  /\ kb.layers \subseteq {0} \cup kb.locks \cup {c.then : c \in keymap.conditional}

(***************************************************************************)
(* Once all keys are up and the longest timer has run, no behavior holds   *)
(* anything: no key, modifier, mask or layer is left on, no slot is taken  *)
(* and no event is held back.  Except for keys that &kt toggled, an action *)
(* dropped by a full queue, and a timer that was not started because its   *)
(* key event was held back for longer than it runs.                        *)
(***************************************************************************)
Settles == quiet = Longest /\ down = {} /\ kb.excuse = {} => AtRest

(***************************************************************************)
(* Combos lose, repeat and reorder no key: each press reaches the keymap   *)
(* or a combo, in the order of the presses, each release the binding of    *)
(* its press, and a combo gets exactly its own keys, within its timeout.   *)
(***************************************************************************)
KeysAccounted ==
  /\ kb.wrong \cap {"order", "unpaired"} = {}
  /\ "noslot" \in kb.excuse \/ "partial" \notin kb.wrong
  /\ ToSet(kb.waiting) \subseteq down /\ kb.waiting = [i \in DOMAIN kb.keys |-> kb.keys[i].pos]

(***************************************************************************)
(* A tapped sticky key with quick-release modifies one key and no more,    *)
(* and no modifier is released more often than it was pressed.             *)
(***************************************************************************)
StickyOnce ==
  kb.excuse \cap {"retapped", "dropped"} = {} => kb.wrong \cap {"twice", "unregister"} = {}

(***************************************************************************)
(* The loop of conditional layers, which runs again for each change that   *)
(* it makes itself, ends, and so does &to, which it interrupts; and then   *)
(* the layers are those that the configurations ask for, however these     *)
(* build on each other and whatever keys hold, toggle or lock a layer of   *)
(* theirs.                                                                 *)
(***************************************************************************)
UpdatesEnd == Busy ~> ~Busy /\ LayersFollow

(***************************************************************************)
(* A key that combos hold back, while a key pressed earlier is still held, *)
(* goes on when the timeout of the longest candidate has passed.           *)
(***************************************************************************)
KeysExpire ==
  kb.keys # <<>> /\ ~Due /\ (\E p \in down : kb.pressed[p] # {}) =>
    \E c \in kb.cand : kb.keys[1].ts + keymap.combos[c].timeout > 0
=============================================================================
