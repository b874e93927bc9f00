------------------------------ MODULE HoldTap ------------------------------
(***************************************************************************)
(* The hold-tap behavior of src/app/src/behaviors/behavior_hold_tap.c: a   *)
(* key that becomes its "hold" or its "tap" binding, decided by a timer,   *)
(* by its own release or by other keys, while the events of the other keys *)
(* are captured and replayed afterwards.                                   *)
(*                                                                         *)
(* Everything here runs on the system work queue: a key event and a timer  *)
(* handler run to completion, and what a handler raises is handled before  *)
(* it returns.  `stack' is that call stack, the innermost call first; the  *)
(* environment moves only when it is empty.                                *)
(***************************************************************************)
EXTENDS Integers, Sequences, FiniteSets

CONSTANTS
  HoldTaps,     \* key positions bound to a hold-tap
  Plain,        \* key positions bound to a plain key press
  Kind,         \* code -> "mod", "key" or "layer" (a layer raises no keycode)
  Configs,      \* the assignments of a configuration to each hold-tap
  MaxHeld,      \* ZMK_BHV_HOLD_TAP_MAX_HELD
  MaxCaptured,  \* ZMK_BHV_HOLD_TAP_MAX_CAPTURED_EVENTS
  MaxTime,      \* bound on the clock
  MaxPresses,   \* bound on the number of key presses
  NoPos         \* ZMK_BHV_HOLD_TAP_POSITION_NOT_USED, INT32_MIN and -1

Positions == HoldTaps \cup Plain
Hold(p) == <<p, "hold">>
Tap(p)  == <<p, "tap">>
Key(p)  == <<p, "key">>
Codes == {Hold(p) : p \in HoldTaps} \cup {Tap(p) : p \in HoldTaps}
           \cup {Key(p) : p \in Plain}

Flavors  == {"hold-preferred", "balanced", "tap-preferred", "tap-unless-interrupted"}
Statuses == {"UNDECIDED", "TAP", "HOLD_INTERRUPT", "HOLD_TIMER"}
Moments  == {"KEY_DOWN", "KEY_UP", "OTHER_KEY_DOWN", "OTHER_KEY_UP", "TIMER_EVENT", "QUICK_TAP"}

HoldTapConfig ==
  [flavor : Flavors, term : Nat, quickTap : Int, priorIdle : Int,
   holdWhileUndecided : BOOLEAN, linger : BOOLEAN, retroTap : BOOLEAN,
   triggerOnRelease : BOOLEAN, triggers : SUBSET Positions]

ASSUME ConstantsAssumption ==
  /\ MaxHeld \in Nat \ {0} /\ MaxCaptured \in Nat \ {0}
  /\ MaxTime \in Nat /\ MaxPresses \in Nat
  /\ HoldTaps \cap Plain = {} /\ NoPos \notin Positions
  /\ Kind \in [Codes -> {"mod", "key", "layer"}]
  /\ Configs \subseteq [HoldTaps -> HoldTapConfig]

VARIABLES
  config,      \* the configuration of each hold-tap, fixed at build time
  now,         \* k_uptime_get()
  undecided,   \* undecided_hold_tap: a slot, or 0 for NULL
  held,        \* active_hold_taps
  timer,       \* is the delayable work of a slot scheduled?
  captured,    \* captured_events
  lastTapped,  \* last_tapped
  stack,       \* the calls in progress on the work queue
  down,        \* the keys physically pressed
  presses,     \* how many presses there were, for the bound
  seen,        \* the positions whose press the keymap has handled
  typed,       \* the presses the keymap has not handled yet, in typing order
  out,         \* per code, presses minus releases that reached its consumer
  lost         \* what lost an event to a full captured_events
vars == <<config, now, undecided, held, timer, captured, lastTapped, stack,
          down, presses, seen, typed, out, lost>>

Slots == 1 .. MaxHeld
Cells == 1 .. MaxCaptured
Event == [t : {"none", "pos", "code"}, key : Positions \cup Codes \cup {NoPos},
          state : BOOLEAN, ts : Nat]
NoEvent == [t |-> "none", key |-> NoPos, state |-> FALSE, ts |-> 0]
\* Operators whose comment starts with "Fault:" are faulty variants of the definition that
\* follows.  Nothing uses them: they are there to be put in its place, to see that a
\* property notices.
FreeSlot == [pos |-> NoPos, status |-> "UNDECIDED", ts |-> 0, first |-> NoPos,
             cancelled |-> FALSE]

Frame(op, ev, s, moment) == [op |-> op, ev |-> ev, s |-> s, moment |-> moment]
Raise(ev)          == Frame("raise", ev, 0, "KEY_DOWN")
Listen(ev)         == Frame("listen", ev, 0, "KEY_DOWN")
Invoke(ev)         == Frame("invoke", ev, 0, "KEY_DOWN")
Decide(s, m, ev)   == Frame("decide", ev, s, m)
Schedule(s)        == Frame("schedule", NoEvent, s, "KEY_DOWN")
Finish(s, m)       == Frame("finish", NoEvent, s, m)
Release(i)         == Frame("release", NoEvent, i, "KEY_DOWN")

Cfg(s)  == config[held[s].pos]
Running(op) == stack # <<>> /\ Head(stack).op = op
Call(frames) == stack' = frames \o Tail(stack)
Late(s, ts) == ts > held[s].ts + Cfg(s).term
-----------------------------------------------------------------------------
(* Raising a keycode.  `io' is what it may change; Emit is the part of the  *)
(* keycode listener and of what follows it.                                 *)

IO == [cap |-> captured, last |-> lastTapped, out |-> out, lost |-> lost]
SetIO(io) == /\ captured' = io.cap
             /\ lastTapped' = io.last
             /\ out' = io.out
             /\ lost' = io.lost

\* capture_event: the first free cell; when there is none the event is dropped,
\* because no caller looks at the -ENOMEM it returns.
Capture(io, ev) ==
  LET free == {i \in Cells : io.cap[i] = NoEvent}
  IN IF free = {}
     THEN [io EXCEPT !.lost = @ \cup {ev.key}]
     ELSE [io EXCEPT !.cap[CHOOSE i \in free : \A j \in free : i <= j] = ev]

\* Fault: only the first captured event is looked at.
HaveCapturedFirst(p) == captured[1].t = "pos" /\ captured[1].key = p /\ captured[1].state
\* have_captured_keydown_event: the scan ends at the first free cell.
HaveCapturedKeydown(p) ==
  \E i \in Cells : /\ \A j \in 1 .. i : captured[j] # NoEvent
                   /\ captured[i].t = "pos" /\ captured[i].key = p /\ captured[i].state

\* A layer binding raises no keycode; an undecided hold-tap u captures modifiers,
\* except its own hold binding while it holds before the decision.
Emit(io, u, code, state, ts) ==
  LET typing == state /\ Kind[code] = "key" /\ ts > io.last.ts
      io1 == IF typing THEN [io EXCEPT !.last = [pos |-> NoPos, ts |-> ts]] ELSE io
  IN IF u # 0 /\ Kind[code] = "mod"
           /\ ~(Cfg(u).holdWhileUndecided /\ held[u].status = "UNDECIDED")
     THEN Capture(io1, [t |-> "code", key |-> code, state |-> state, ts |-> ts])
     ELSE [io1 EXCEPT !.out[code] = @ + (IF state THEN 1 ELSE -1)]

IsHold(status) == status \in {"HOLD_TIMER", "HOLD_INTERRUPT"}
\* retro-tap: a hold decided by the timer stays silent until another key comes.
Silent(s, status) == Cfg(s).retroTap /\ status = "HOLD_TIMER"

\* Fault: a hold that was already pressed while undecided is pressed again.
PressBindingAgain(io, u, s, status) ==
  IF Silent(s, status) THEN io
  ELSE Emit(io, u, IF IsHold(status) THEN Hold(held[s].pos) ELSE Tap(held[s].pos),
            TRUE, held[s].ts)
\* press_binding, for the hold-tap of slot s decided as status
PressBinding(io, u, s, status) ==
  LET p == held[s].pos
      ts == held[s].ts
      c == Cfg(s)
      unheld == IF c.holdWhileUndecided /\ ~c.linger
                THEN Emit(io, u, Hold(p), FALSE, ts) ELSE io
  IN IF Silent(s, status) \/ (IsHold(status) /\ c.holdWhileUndecided) THEN io
     ELSE IF IsHold(status) THEN Emit(io, u, Hold(p), TRUE, ts)
     ELSE Emit([unheld EXCEPT !.last = [pos |-> p, ts |-> ts]], u, Tap(p), TRUE, ts)

\* release_binding
ReleaseBinding(io, u, s, status) ==
  IF Silent(s, status) THEN io
  ELSE Emit(io, u, IF IsHold(status) THEN Hold(held[s].pos) ELSE Tap(held[s].pos),
            FALSE, held[s].ts)
-----------------------------------------------------------------------------
(* The decision.                                                            *)

\* Fault: decide_tap_unless_interrupted forgets the timer.
FlavorWithoutTimer(flavor, m) ==
  CASE m \in {"KEY_UP", "QUICK_TAP"} -> "TAP"
    [] m = "TIMER_EVENT" /\ flavor # "tap-unless-interrupted" -> "HOLD_TIMER"
    [] m = "OTHER_KEY_DOWN" /\ flavor \in {"hold-preferred", "tap-unless-interrupted"}
         -> "HOLD_INTERRUPT"
    [] m = "OTHER_KEY_UP" /\ flavor = "balanced" -> "HOLD_INTERRUPT"
    [] OTHER -> "UNDECIDED"
\* decide_balanced, decide_tap_preferred, decide_tap_unless_interrupted and
\* decide_hold_preferred
Flavor(flavor, m) ==
  CASE m \in {"KEY_UP", "QUICK_TAP"} -> "TAP"
    [] m = "TIMER_EVENT" ->
         IF flavor = "tap-unless-interrupted" THEN "TAP" ELSE "HOLD_TIMER"
    [] m = "OTHER_KEY_DOWN" /\ flavor \in {"hold-preferred", "tap-unless-interrupted"}
         -> "HOLD_INTERRUPT"
    [] m = "OTHER_KEY_UP" /\ flavor = "balanced" -> "HOLD_INTERRUPT"
    [] OTHER -> "UNDECIDED"

\* Fault: a key that is no trigger undoes the decision.
PositionalUndecided(s, status) ==
  IF Cfg(s).triggers # {} /\ held[s].first # NoPos /\ held[s].first \notin Cfg(s).triggers
  THEN "UNDECIDED" ELSE status
\* decide_positional_hold: a first other key that is no trigger forces the tap
Positional(s, status) ==
  IF Cfg(s).triggers # {} /\ held[s].first # NoPos /\ held[s].first \notin Cfg(s).triggers
  THEN "TAP" ELSE status

\* decide_hold_tap; the replay it ends with is the frame Release(1)
DecideHoldTap ==
  /\ Running("decide")
  /\ LET f == Head(stack)
         s == f.s
         status == Flavor(Cfg(s).flavor, f.moment)
     IN IF held[s].status # "UNDECIDED" \/ s # undecided
        THEN Call(<<>>) /\ UNCHANGED <<undecided, held, captured, lastTapped, out, lost>>
        ELSE IF Cfg(s).holdWhileUndecided /\ f.moment = "KEY_DOWN"
        THEN /\ SetIO(Emit(IO, s, Hold(held[s].pos), TRUE, held[s].ts))
             /\ Call(<<>>) /\ UNCHANGED <<undecided, held>>
        ELSE IF status = "UNDECIDED"
        THEN Call(<<>>) /\ UNCHANGED <<undecided, held, captured, lastTapped, out, lost>>
        ELSE /\ held' = [held EXCEPT ![s].status = Positional(s, status)]
             /\ undecided' = 0
             /\ SetIO(PressBinding(IO, 0, s, Positional(s, status)))
             /\ Call(<<Release(1)>>)
  /\ UNCHANGED <<config, now, timer, down, presses, seen, typed>>

\* release_captured_events: one iteration of its loop.  The cell is freed before
\* the event is raised, so a new undecided hold-tap captures into it.
ReleaseCaptured ==
  /\ Running("release")
  /\ LET i == Head(stack).s
     IN IF i > MaxCaptured \/ (i \in Cells /\ captured[i] = NoEvent)
        THEN Call(<<>>) /\ UNCHANGED captured
        ELSE /\ captured' = [captured EXCEPT ![i] = NoEvent]
             /\ Call(<<Raise(captured[i]), Release(i + 1)>>)
  /\ UNCHANGED <<config, now, undecided, held, timer, lastTapped, down, presses, seen,
                 typed, out, lost>>
-----------------------------------------------------------------------------
(* The listener.                                                            *)

\* update_hold_status_for_retro_tap: the slots whose silent hold another key ends,
\* and their hold bindings pressed in slot order
RetroSlots(p) == {s \in Slots : /\ held[s].pos \notin {p, NoPos}
                                /\ Silent(s, held[s].status)}
PressRetro(p) ==
  LET io[s \in 0 .. MaxHeld] ==
        IF s = 0 THEN IO
        ELSE IF s \in RetroSlots(p)
             THEN PressBinding(io[s - 1], undecided, s, "HOLD_INTERRUPT")
             ELSE io[s - 1]
  IN io[MaxHeld]

\* position_state_changed_listener, up to the timer decision it makes for an event
\* that comes after the tapping term
RaisePosition ==
  /\ Running("raise") /\ Head(stack).ev.t = "pos"
  /\ LET ev == Head(stack).ev
         u == undecided
         updated == [s \in Slots |-> IF s \in RetroSlots(ev.key)
                                     THEN [held[s] EXCEPT !.status = "HOLD_INTERRUPT"]
                                     ELSE held[s]]
     IN /\ SetIO(PressRetro(ev.key))
        /\ IF u = 0 THEN held' = updated /\ Call(<<Invoke(ev)>>)
           ELSE /\ held' = IF Cfg(u).triggerOnRelease # ev.state /\ held[u].first = NoPos
                           THEN [updated EXCEPT ![u].first = ev.key] ELSE updated
                /\ Call(CASE held[u].pos = ev.key -> <<Invoke(ev)>>
                          [] held[u].pos # ev.key /\ Late(u, ev.ts)
                               -> <<Decide(u, "TIMER_EVENT", ev), Listen(ev)>>
                          [] OTHER -> <<Listen(ev)>>)
  /\ UNCHANGED <<config, now, undecided, timer, down, presses, seen, typed>>

\* the rest of position_state_changed_listener
ListenPosition ==
  /\ Running("listen")
  /\ LET ev == Head(stack).ev
         moment == IF ev.state THEN "OTHER_KEY_DOWN" ELSE "OTHER_KEY_UP"
     IN IF undecided = 0 \/ (~ev.state /\ ~HaveCapturedKeydown(ev.key))
        THEN Call(<<Invoke(ev)>>) /\ UNCHANGED <<captured, lastTapped, out, lost, typed>>
        ELSE /\ SetIO(Capture(IO, ev))
             /\ typed' = IF lost' # lost /\ ev.state
                         THEN SelectSeq(typed, LAMBDA p : p # ev.key) ELSE typed
             /\ Call(<<Decide(undecided, moment, ev)>>)
  /\ UNCHANGED <<config, now, undecided, held, timer, down, presses, seen>>

\* keycode_state_changed_listener, for a captured keycode raised again
RaiseKeycode ==
  /\ Running("raise") /\ Head(stack).ev.t = "code"
  /\ LET ev == Head(stack).ev IN SetIO(Emit(IO, undecided, ev.key, ev.state, ev.ts))
  /\ Call(<<>>)
  /\ UNCHANGED <<config, now, undecided, held, timer, down, presses, seen, typed>>
-----------------------------------------------------------------------------
(* The keymap invokes the binding of the position.                          *)

KeymapSees(ev) ==
  /\ seen' = IF ev.state THEN seen \cup {ev.key} ELSE seen \ {ev.key}
  /\ typed' = IF ev.state /\ typed # <<>> THEN Tail(typed) ELSE typed

\* a plain key press, src/app/src/behaviors/behavior_key_press.c
InvokePlain ==
  /\ Running("invoke") /\ Head(stack).ev.key \in Plain
  /\ LET ev == Head(stack).ev
     IN /\ KeymapSees(ev)
        /\ SetIO(Emit(IO, undecided, Key(ev.key), ev.state, ev.ts))
  /\ Call(<<>>)
  /\ UNCHANGED <<config, now, undecided, held, timer, down, presses>>

\* is_quick_tap
IsQuickTap(p, ts) ==
  \/ lastTapped.ts + config[p].priorIdle > ts
  \/ lastTapped.pos = p /\ lastTapped.ts + config[p].quickTap > ts

\* on_hold_tap_binding_pressed and store_hold_tap
InvokePressed ==
  /\ Running("invoke") /\ Head(stack).ev.key \in HoldTaps /\ Head(stack).ev.state
  /\ LET ev == Head(stack).ev
         free == {s \in Slots : held[s].pos = NoPos}
         s == CHOOSE x \in free : \A y \in free : x <= y
     IN /\ KeymapSees(ev)
        /\ IF undecided # 0 \/ free = {}
           THEN Call(<<>>) /\ UNCHANGED <<held, undecided>>
           ELSE /\ held' = [held EXCEPT ![s] = [pos |-> ev.key, status |-> "UNDECIDED",
                              ts |-> ev.ts, first |-> NoPos, cancelled |-> @.cancelled]]
                /\ undecided' = s
                /\ Call((IF IsQuickTap(ev.key, ev.ts)
                         THEN <<Decide(s, "QUICK_TAP", ev)>> ELSE <<>>)
                        \o <<Decide(s, "KEY_DOWN", ev), Schedule(s)>>)
  /\ UNCHANGED <<config, now, timer, captured, lastTapped, down, presses, out, lost>>

\* the end of on_hold_tap_binding_pressed: k_work_schedule
ScheduleTimer ==
  /\ Running("schedule")
  /\ timer' = [timer EXCEPT ![Head(stack).s] = TRUE]
  /\ Call(<<>>)
  /\ UNCHANGED <<config, now, undecided, held, captured, lastTapped, down, presses, seen,
                 typed, out, lost>>

Due(s) == timer[s] /\ now >= held[s].ts + Cfg(s).term

\* k_work_cancel_delayable: -EINPROGRESS (the "KEY_UP" frame is then run with the
\* handler still to come) only for work that is due while no replay runs.
CancelInProgress(s) == IF Due(s) /\ Len(stack) = 1 THEN BOOLEAN ELSE {FALSE}

\* on_hold_tap_binding_released, up to its decisions
InvokeReleased ==
  /\ Running("invoke") /\ Head(stack).ev.key \in HoldTaps /\ ~Head(stack).ev.state
  /\ LET ev == Head(stack).ev
         found == {s \in Slots : held[s].pos = ev.key}
         s == CHOOSE x \in found : \A y \in found : x <= y
     IN /\ KeymapSees(ev)
        /\ IF found = {} THEN Call(<<>>) /\ UNCHANGED timer
           ELSE \E inProgress \in CancelInProgress(s) :
                  /\ timer' = [timer EXCEPT ![s] = inProgress]
                  /\ Call((IF Late(s, ev.ts) THEN <<Decide(s, "TIMER_EVENT", ev)>> ELSE <<>>)
                          \o <<Decide(s, "KEY_UP", ev),
                               Finish(s, IF inProgress THEN "TIMER_EVENT" ELSE "KEY_UP")>>)
  /\ UNCHANGED <<config, now, undecided, held, captured, lastTapped, down, presses, out, lost>>

\* the end of on_hold_tap_binding_released, with decide_retro_tap and clear_hold_tap
FinishRelease ==
  /\ Running("finish")
  /\ LET s == Head(stack).s
         retro == Silent(s, held[s].status)
         status == IF retro THEN "TAP" ELSE held[s].status
         io1 == IF retro THEN PressBinding(IO, undecided, s, status) ELSE IO
         io2 == ReleaseBinding(io1, undecided, s, status)
         io3 == IF Cfg(s).holdWhileUndecided /\ Cfg(s).linger
                THEN Emit(io2, undecided, Hold(held[s].pos), FALSE, held[s].ts) ELSE io2
     IN /\ SetIO(io3)
        /\ held' = [held EXCEPT ![s] =
                      IF Head(stack).moment = "TIMER_EVENT"
                      THEN [@ EXCEPT !.status = status, !.cancelled = TRUE]
                      ELSE FreeSlot]
  /\ Call(<<>>)
  /\ UNCHANGED <<config, now, undecided, timer, down, presses, seen, typed>>
-----------------------------------------------------------------------------
(* What starts a handler: the timer work, and the keyboard scan.            *)

Idle == stack = <<>>
\* A handler that was already in progress when it was cancelled runs next.
NoHandlerInProgress == \A s \in Slots : ~held[s].cancelled

\* behavior_hold_tap_timer_work_handler
TimerHandler(s) ==
  /\ Idle /\ timer[s] /\ held[s].pos # NoPos /\ Due(s)
  /\ timer' = [timer EXCEPT ![s] = FALSE]
  /\ IF held[s].cancelled
     THEN held' = [held EXCEPT ![s] = FreeSlot] /\ UNCHANGED stack
     ELSE /\ stack' = <<Decide(s, "TIMER_EVENT", [NoEvent EXCEPT !.ts = now])>>
          /\ UNCHANGED held
  /\ UNCHANGED <<config, now, undecided, captured, lastTapped, down, presses, seen, typed,
                 out, lost>>

KeyEvent(p, state) == [t |-> "pos", key |-> p, state |-> state, ts |-> now]
Longest == CHOOSE t \in {config[p].term : p \in HoldTaps} :
             \A p \in HoldTaps : config[p].term <= t

\* A press, while its tapping term still fits under the clock's bound
KeyDown(p) ==
  /\ Idle /\ NoHandlerInProgress
  /\ p \notin down /\ presses < MaxPresses /\ now + Longest <= MaxTime
  /\ down' = down \cup {p}
  /\ presses' = presses + 1
  /\ typed' = Append(typed, p)
  /\ stack' = <<Raise(KeyEvent(p, TRUE))>>
  /\ UNCHANGED <<config, now, undecided, held, timer, captured, lastTapped, seen, out, lost>>

KeyUp(p) ==
  /\ Idle /\ NoHandlerInProgress
  /\ p \in down
  /\ down' = down \ {p}
  /\ stack' = <<Raise(KeyEvent(p, FALSE))>>
  /\ UNCHANGED <<config, now, undecided, held, timer, captured, lastTapped, presses, seen,
                 typed, out, lost>>

Tick ==
  /\ Idle /\ NoHandlerInProgress
  /\ now < MaxTime
  /\ now' = now + 1
  /\ UNCHANGED <<config, undecided, held, timer, captured, lastTapped, stack, down, presses,
                 seen, typed, out, lost>>
-----------------------------------------------------------------------------
Init ==
  /\ config \in Configs
  /\ now = 0
  /\ undecided = 0
  /\ held = [s \in Slots |-> FreeSlot]
  /\ timer = [s \in Slots |-> FALSE]
  /\ captured = [i \in Cells |-> NoEvent]
  /\ lastTapped = [pos |-> NoPos, ts |-> -100]
  /\ stack = <<>>
  /\ down = {} /\ presses = 0 /\ seen = {} /\ typed = <<>>
  /\ out = [c \in Codes |-> 0]
  /\ lost = {}

Handler == \/ RaisePosition \/ ListenPosition \/ RaiseKeycode
           \/ InvokePlain \/ InvokePressed \/ InvokeReleased
           \/ ScheduleTimer \/ FinishRelease
           \/ DecideHoldTap \/ ReleaseCaptured
Environment == \/ \E p \in Positions : KeyDown(p) \/ KeyUp(p)
               \/ Tick
Next == Handler \/ Environment \/ \E s \in Slots : TimerHandler(s)

\* The work queue runs what is queued, and time passes; nobody has to press a key.
Fairness == /\ WF_vars(Handler)
            /\ WF_vars(Tick)
            /\ \A s \in Slots : WF_vars(TimerHandler(s))
Spec == Init /\ [][Next]_vars /\ Fairness
-----------------------------------------------------------------------------
TypeOK ==
  /\ config \in Configs
  /\ now \in 0 .. MaxTime
  /\ undecided \in 0 .. MaxHeld
  /\ held \in [Slots -> [pos : HoldTaps \cup {NoPos}, status : Statuses, ts : Nat,
                         first : Positions \cup {NoPos}, cancelled : BOOLEAN]]
  /\ timer \in [Slots -> BOOLEAN]
  /\ captured \in [Cells -> Event]
  /\ lastTapped \in [pos : HoldTaps \cup {NoPos}, ts : Int]
  /\ stack \in Seq([op : {"raise", "listen", "invoke", "decide", "schedule", "finish",
                          "release"}, ev : Event, s : Nat, moment : Moments])
  /\ down \subseteq Positions /\ presses \in 0 .. MaxPresses
  /\ seen \subseteq Positions
  /\ typed \in Seq(Positions)
  /\ out \in [Codes -> Int]
  /\ lost \subseteq Positions \cup Codes

\* A slot is in use and undecided exactly when undecided_hold_tap points at it: the
\* pointer never dangles into a freed slot, and no key waits for a decision that
\* nothing will make (decide_hold_tap ignores every other slot).
UndecidedIsUnique ==
  \A s \in Slots : (s = undecided) <=> (held[s].pos # NoPos /\ held[s].status = "UNDECIDED")

\* The delayed work of a slot is scheduled only while the slot is in use, so a stale
\* timer never decides the next hold-tap that is stored there.
NoStaleTimer == \A s \in Slots : timer[s] => held[s].pos # NoPos

\* The slots, undecided_hold_tap and the timers agree, however handlers nest.
SlotsSound == TypeOK /\ UndecidedIsUnique /\ NoStaleTimer

\* Between handlers, events are held back only for an undecided hold-tap, and the
\* replay loop, which stops at the first free cell, would reach every one of them.
NothingStranded ==
  Idle => /\ undecided = 0 => \A i \in Cells : captured[i] = NoEvent
          /\ \A i, j \in Cells : i < j /\ captured[j] # NoEvent => captured[i] # NoEvent

InFlight(p) ==
  Cardinality({i \in Cells : captured[i].t = "pos" /\ captured[i].key = p})
  + Cardinality({i \in DOMAIN stack : /\ stack[i].op \in {"raise", "listen", "invoke"}
                                      /\ stack[i].ev.t = "pos" /\ stack[i].ev.key = p})

\* No key event is lost or handled twice on its way through capture and replay: the
\* keymap's view of a key and the key itself differ by the events still in flight.
EventsConserved ==
  \A p \in Positions \ lost : (p \in down) = (p \in seen) <=> InFlight(p) % 2 = 0

\* The keymap sees a key's presses and releases alternate, and all presses in the
\* order they were typed, however deep hold-taps nest in the replay.
DeliveredInOrder ==
  Running("invoke") =>
    LET ev == Head(stack).ev
    IN lost = {} => /\ ev.state <=> ev.key \notin seen
                    /\ ev.state => typed # <<>> /\ Head(typed) = ev.key

\* Capture and replay keep every key event, and their order.
EventsKept == NothingStranded /\ EventsConserved /\ DeliveredInOrder

\* With every key up and nothing in progress no binding is left pressed or released
\* once too often, and a decided hold-tap has given its slot back.
AllReleased ==
  Idle /\ down = {} /\ NoHandlerInProgress /\ undecided = 0 /\ lost = {} =>
    /\ \A c \in Codes : out[c] = 0
    /\ \A s \in Slots : held[s].pos = NoPos

\* The presses and releases of a binding alternate: its consumers never see it released
\* more often than pressed, or pressed twice, whatever was decided and replayed.
ReleasesPaired == lost = {} => \A c \in Codes : out[c] \in {0, 1}

\* Each binding is released once for each press, none is left pressed.
BindingsReleased == AllReleased /\ ReleasesPaired

\* A hold-tap does not stay undecided, and keep the keys after it waiting, for ever.
EventuallyDecided == []<>(undecided = 0)
=============================================================================
