--------------------------- MODULE HoldTapBindings ---------------------------
(* Proof about HoldTap, on top of what HoldTapProofs says of slots and events:  *)
(* bindings are released once for each press, as long as no event was lost to   *)
(* a full captured_events.                                                      *)
EXTENDS HoldTapProofs

-----------------------------------------------------------------------------
(* The keycodes under way: what was emitted for a binding and captured for a   *)
(* hold-tap that was undecided, or is raised again                             *)

Owner(code) == code[1]
CodesIn(cap) == {Item(i, cap[i]) : i \in {j \in Cells : cap[j].t = "code"}}
CodeFrames == {d \in Levels : Fr(d).op = "raise" /\ Fr(d).ev.t = "code"}
CodeItems == CodesIn(captured) \cup {Item(Place(d), Fr(d).ev) : d \in CodeFrames}

\* The press of slot s is not yet at its KEY_DOWN decision, where what is held while
\* undecided is pressed.
Pending(s) == \E d \in Levels : Fr(d).op = "decide" /\ Fr(d).moment = "KEY_DOWN" /\ Fr(d).s = s
\* The binding that slot s was last told to press.
Pressed(s) ==
  IF ~Used(s) \/ held[s].cancelled THEN {}
  ELSE CASE held[s].status = "TAP" -> {Tap(held[s].pos)}
         [] held[s].status = "UNDECIDED" ->
              IF Cfg(s).holdWhileUndecided /\ ~Pending(s) THEN {Hold(held[s].pos)} ELSE {}
         [] OTHER -> IF Silent(s, held[s].status) THEN {} ELSE {Hold(held[s].pos)}
Bound == {Key(p) : p \in Plain \cap seen} \cup UNION {Pressed(s) : s \in Slots}
On(o) == {c \in Codes : o[c] = 1}
\* For every binding, the keycodes under way lead from what its consumer has seen to what
\* it was told last.
Told(o, L, dn) ==
  /\ \A c \in Codes : o[c] \in {0, 1}
  /\ L \subseteq Placed(Codes) /\ OnePerPlace(L) /\ \A x \in L : Kind[x.key] = "mod"
  /\ Alternates(Codes, L, On(o), dn)

\* The keycodes of a key are before the events of the key that the keymap has still to
\* handle, and before the end of its release.
BeforeEvents == \A x \in CodeItems, y \in Items : y.key = Owner(x.key) => x.at < y.at
BeforeFinish == \A d \in Levels : Fr(d).op = "finish" =>
                  \A x \in CodeItems : Owner(x.key) = held[Fr(d).s].pos => x.at < Place(d)
\* What has pressed nothing yet has nothing under way.
Unsettled(s) == Used(s) /\ (held[s].status = "UNDECIDED" \/ Silent(s, held[s].status))
Quiet == \A s \in Slots : Unsettled(s) => \A x \in CodeItems : Owner(x.key) # held[s].pos
\* For what is held while undecided no keycode is captured.
HeldClear == undecided # 0 /\ Cfg(undecided).holdWhileUndecided =>
               \A i \in Cells : Low(i) => captured[i].t # "code"
FinishLive == \A d \in Levels : Fr(d).op = "finish" => ~held[Fr(d).s].cancelled
CancelledTold == \A s \in Slots : held[s].cancelled => ~Unsettled(s)
\* What is held while undecided is no quick tap.
QuickTold == \A d \in Levels : Fr(d).op = "decide" /\ Fr(d).moment = "QUICK_TAP" =>
                                 ~Cfg(Fr(d).s).holdWhileUndecided
CodeInv == /\ Told(out, CodeItems, Bound) /\ BeforeEvents /\ BeforeFinish /\ Quiet
           /\ HeldClear /\ FinishLive /\ CancelledTold /\ QuickTold

LEMMA CodesDiffer ==
  /\ \A p : Owner(Hold(p)) = p /\ Owner(Tap(p)) = p /\ Owner(Key(p)) = p
  /\ \A p, q : /\ Hold(p) # Tap(q) /\ Hold(p) # Key(q) /\ Tap(p) # Key(q)
               /\ (Hold(p) = Hold(q) <=> p = q) /\ (Tap(p) = Tap(q) <=> p = q)
               /\ (Key(p) = Key(q) <=> p = q)
BY DEF Owner, Hold, Tap, Key

LEMMA NoPosIs == NoPos \notin HoldTaps /\ NoPos \notin Plain /\ HoldTaps \cap Plain = {}
                 /\ HoldTaps \subseteq Positions /\ Plain \subseteq Positions
BY ConstantsAssumption DEF Positions

LEMMA CodeOwner == \A c \in Codes : Owner(c) \in Positions
BY CodesDiffer DEF Codes, Positions

LEMMA CodesAreItems ==
  ASSUME NEW cap \in [Cells -> Event], \A i \in Cells : cap[i] # NoEvent => EventOK(cap[i])
  PROVE  CodesIn(cap) \subseteq Placed(Codes) /\ OnePerPlace(CodesIn(cap))
         /\ \A x \in CodesIn(cap) : x.at \in Cells /\ cap[x.at].t = "code" /\ x = Item(x.at, cap[x.at])
<1>1. Cells \subseteq 1 .. MaxCaptured + 1
  BY Constants DEF Cells
<1>2. ASSUME NEW i \in Cells, cap[i].t = "code"
      PROVE  cap[i].key \in Codes /\ cap[i].state \in BOOLEAN /\ i \in 1 .. MaxCaptured + 1
  <2>1. cap[i] # NoEvent
    BY <1>2 DEF NoEvent
  <2>2. EventOK(cap[i])
    BY <2>1
  <2> QED
    BY <1>1, <1>2, <2>2 DEF EventOK, Event
<1>3. ASSUME NEW x \in CodesIn(cap)
      PROVE  x \in Placed(Codes) /\ x.at \in Cells /\ cap[x.at].t = "code" /\ x = Item(x.at, cap[x.at])
  <2>1. PICK i \in Cells : cap[i].t = "code" /\ x = Item(i, cap[i])
    BY DEF CodesIn
  <2> QED
    BY <1>2, <2>1 DEF Item, Placed
<1>4. OnePerPlace(CodesIn(cap))
  BY <1>3 DEF OnePerPlace
<1> QED
  BY <1>3, <1>4

\* A keycode that is captured in a free cell is added, any other event is not.
LEMMA CodeCaptured ==
  ASSUME NEW cap \in [Cells -> Event], NEW f \in Cells, cap[f] = NoEvent, NEW ev \in Event
  PROVE  LET new == [cap EXCEPT ![f] = ev]
         IN /\ ev.t = "code" => CodesIn(new) = CodesIn(cap) \cup {Item(f, ev)}
            /\ ev.t # "code" => CodesIn(new) = CodesIn(cap)
            /\ \A x \in CodesIn(cap) : x.at # f
<1> DEFINE new == [cap EXCEPT ![f] = ev]
           C(c) == {j \in Cells : c[j].t = "code"}
<1>1. f \notin C(cap) /\ \A i \in C(cap) : i # f
  BY DEF NoEvent
<1>2. new[f] = ev /\ \A i \in Cells : i # f => new[i] = cap[i]
  OBVIOUS
<1>3. ev.t = "code" => C(new) = C(cap) \cup {f}
  BY <1>1, <1>2
<1>4. ev.t # "code" => C(new) = C(cap)
  BY <1>1, <1>2
<1>5. \A c : CodesIn(c) = {Item(i, c[i]) : i \in C(c)}
  BY DEF CodesIn
<1>6. \A i \in C(cap) : new[i] = cap[i]
  BY <1>1, <1>2
<1> HIDE DEF new, C
<1>7. \A x \in CodesIn(cap) : x.at # f
  BY <1>1, <1>5 DEF Item
<1>8. ev.t = "code" => CodesIn(new) = CodesIn(cap) \cup {Item(f, ev)}
  BY <1>2, <1>3, <1>5, <1>6
<1>9. ev.t # "code" => CodesIn(new) = CodesIn(cap)
  BY <1>4, <1>5, <1>6
<1> QED
  BY <1>7, <1>8, <1>9 DEF new

\* What is told and seen at once has nothing under way before and after.
LEMMA DirectAlternates ==
  ASSUME NEW K, NEW L, NEW sn, NEW dn, NEW sw, NEW dw, NEW c, Alternates(K, L, sn, dn),
         \A x \in L : x.key # c, \A p : p # c => (p \in sw <=> p \in sn) /\ (p \in dw <=> p \in dn),
         c \in sw <=> c \in dw
  PROVE  Alternates(K, L, sw, dw)
BY DEF Alternates
-----------------------------------------------------------------------------
(* Emitting keycodes, one after the other *)

\* There is room for k keycodes up to place q.
Room(cap, q, k) == q > MaxCaptured \/ Free(cap, q + 1, k)
\* dn is what the bindings were told before the next keycode of a key in P is emitted by
\* a handler whose event came from place q: k more may be captured for u.
Ready(io, dn, P, q, u, k) ==
  /\ IOOK(io) /\ Told(io.out, CodesIn(io.cap), dn)
  /\ \A i, j \in Cells : i < j /\ j <= q /\ io.cap[j] # NoEvent => io.cap[i] # NoEvent
  /\ \A x \in CodesIn(io.cap) : Owner(x.key) \in P => x.at <= q
  /\ Passes(u) => \A x \in CodesIn(io.cap) : q < x.at
  /\ ~Passes(u) => Room(io.cap, q, k)
  /\ \A x \in CodesIn(io.cap) : x \in CodesIn(captured) \/ (Owner(x.key) \in P /\ x.at <= q)

Tells(dn, code, state) == IF state THEN dn \cup {code} ELSE dn \ {code}

LEMMA CodesInIO ==
  ASSUME NEW io, IOOK(io)
  PROVE  /\ io.cap \in [Cells -> Event]
         /\ CodesIn(io.cap) \subseteq Placed(Codes) /\ OnePerPlace(CodesIn(io.cap))
         /\ \A x \in CodesIn(io.cap) : x.at \in Cells /\ io.cap[x.at].t = "code"
                                       /\ x = Item(x.at, io.cap[x.at])
<1>1. io.cap \in [Cells -> Event] /\ \A i \in Cells : io.cap[i] # NoEvent => EventOK(io.cap[i])
  BY DEF IOOK, IOs
<1>2. PICK cap : cap = io.cap
  OBVIOUS
<1> QED
  BY <1>1, <1>2, CodesAreItems

\* The keycode goes to its consumer: none for the same binding is under way.
LEMMA SentReady ==
  ASSUME NEW io, NEW dn, NEW P, NEW q \in Nat, NEW u, NEW k \in Nat, Ready(io, dn, P, q, u, k + 1),
         NEW code \in Codes, Owner(code) \in P, NEW state \in BOOLEAN, state <=> code \notin dn,
         Kind[code] # "mod" \/ Passes(u), NEW new, IOOK(new), new.cap = io.cap,
         new.out = [io.out EXCEPT ![code] = @ + (IF state THEN 1 ELSE -1)]
  PROVE  Ready(new, Tells(dn, code, state), P, q, u, k)
<1> DEFINE L == CodesIn(io.cap)
           dw == Tells(dn, code, state)
<1>1. io.out \in [Codes -> Int] /\ \A c \in Codes : io.out[c] \in {0, 1}
  BY DEF Ready, Told, IOOK, IOs
<1>2. \A x \in L : x.key # code
  <2> SUFFICES ASSUME NEW x \in L, x.key = code
               PROVE  FALSE
    OBVIOUS
  <2>1. Kind[x.key] = "mod" /\ x.at <= q
    BY DEF Ready, Told
  <2>2. q < x.at
    BY <2>1 DEF Ready
  <2>3. x.at \in Nat
    BY Constants, CodesInIO DEF Ready
  <2> QED
    BY <2>1, <2>2, <2>3
<1>3. code \in On(io.out) <=> code \in dn
  BY <1>2 DEF Ready, Told, Alternates
<1>4. io.out[code] = IF state THEN 0 ELSE 1
  BY <1>1, <1>3 DEF On
<1>5. \A c \in Codes : new.out[c] = IF c = code THEN (IF state THEN 1 ELSE 0) ELSE io.out[c]
  BY <1>1, <1>4
<1>6. \A c : c # code => (c \in On(new.out) <=> c \in On(io.out)) /\ (c \in dw <=> c \in dn)
  BY <1>5 DEF On, Tells
<1>7. code \in On(new.out) <=> code \in dw
  BY <1>5 DEF On, Tells
<1>8. Alternates(Codes, L, On(io.out), dn) /\ L \subseteq Placed(Codes) /\ OnePerPlace(L)
      /\ \A x \in L : Kind[x.key] = "mod"
  BY DEF Ready, Told
<1>9. Alternates(Codes, L, On(new.out), dw)
  <2> HIDE DEF L, dw
  <2> QED
    BY <1>2, <1>6, <1>7, <1>8, DirectAlternates
<1>10. \A c \in Codes : new.out[c] \in {0, 1}
  BY <1>1, <1>5
<1>11. Told(new.out, CodesIn(new.cap), dw)
  BY <1>8, <1>9, <1>10 DEF Told
<1>12. Room(io.cap, q, k + 1) => Room(new.cap, q, k)
  <2>1. q + 1 \in Nat /\ k <= k + 1 /\ k + 1 \in Nat
    OBVIOUS
  <2> QED
    BY <2>1, FreeLess DEF Room
<1> HIDE DEF dw
<1>13. Ready(new, dw, P, q, u, k)
  BY <1>11, <1>12 DEF Ready
<1> QED
  BY <1>13 DEF dw

\* The keycode is captured in the first free cell, behind all others of its binding.
LEMMA CaughtReady ==
  ASSUME NEW io, NEW dn, NEW P, NEW q \in Nat, NEW u, NEW k \in Nat, Ready(io, dn, P, q, u, k + 1),
         NEW ev \in Event, EventOK(ev), ev.t = "code", Owner(ev.key) \in P, ev.state <=> ev.key \notin dn,
         Kind[ev.key] = "mod", ~Passes(u), NEW new, new = Capture(io, ev), new.lost = {}
  PROVE  /\ Ready(new, Tells(dn, ev.key, ev.state), P, q, u, k) /\ new.out = io.out
         /\ \E f \in Cells : f <= q /\ io.cap[f] = NoEvent
                /\ CodesIn(new.cap) = CodesIn(io.cap) \cup {Item(f, ev)}
<1> DEFINE L == CodesIn(io.cap)
           dw == Tells(dn, ev.key, ev.state)
<1>c. MaxCaptured \in Nat /\ Cells = 1 .. MaxCaptured
  BY Constants DEF Cells
<1>0. ev.key \in Codes /\ ev.state \in BOOLEAN
  BY DEF EventOK, Event
<1>1. IOOK(io) /\ io.cap \in [Cells -> Event]
  BY DEF Ready, IOOK, IOs
<1>2. PICK f \in Cells : /\ io.cap[f] = NoEvent /\ \A i \in Cells : i < f => io.cap[i] # NoEvent
                         /\ new.cap = [io.cap EXCEPT ![f] = ev]
  BY <1>1, Captures
<1>3. IOOK(new)
  BY <1>1, Captures
<1>4. new.out = io.out
  BY <1>1 DEF Capture, IOOK, IOs
<1>5. Room(io.cap, q, k + 1)
  BY DEF Ready
<1>6. f <= q
  <2>1. CASE q > MaxCaptured
    BY <1>c, <2>1
  <2>2. CASE Free(io.cap, q + 1, k + 1) /\ q <= MaxCaptured
    <3>1. (q + 1) - (k + 1) >= 1 /\ \A i \in (q + 1) - (k + 1) .. (q + 1) - 1 : io.cap[i] = NoEvent
      BY <2>2 DEF Free
    <3>2. q \in (q + 1) - (k + 1) .. (q + 1) - 1 /\ q \in Cells
      BY <1>c, <2>2, <3>1
    <3>3. ~(q < f)
      BY <1>2, <3>1, <3>2
    <3> QED
      BY <1>c, <3>3
  <2> QED
    BY <1>5, <1>c, <2>1, <2>2 DEF Room
<1>7. /\ CodesIn(new.cap) = L \cup {Item(f, ev)} /\ \A x \in L : x.at # f
  BY <1>1, <1>2, CodeCaptured
<1>8. Alternates(Codes, L, On(io.out), dn) /\ L \subseteq Placed(Codes) /\ OnePerPlace(L)
      /\ (\A x \in L : Kind[x.key] = "mod") /\ \A c \in Codes : io.out[c] \in {0, 1}
  BY DEF Ready, Told
<1>9. ASSUME NEW x \in L, x.at <= q
      PROVE  x.at < f
  <2>1. x.at \in Cells /\ io.cap[x.at].t = "code"
    BY <1>1, CodesInIO
  <2>2. io.cap[x.at] # NoEvent
    BY <2>1 DEF NoEvent
  <2>3. ~(f < x.at)
    BY <1>2, <1>9, <2>1, <2>2 DEF Ready
  <2> QED
    BY <1>7, <1>c, <2>1, <2>3
<1>10. \A x \in L : x.key = ev.key => x.at < f
  BY <1>9 DEF Ready
<1> DEFINE y == Item(f, ev)
<1>11. y \in Placed(Codes) /\ y.at = f /\ y.key = ev.key /\ y.state = ev.state
  BY <1>0, <1>c DEF Item, Placed
<1>12. OnePerPlace(CodesIn(new.cap))
  BY <1>3, CodesInIO
<1>13. Handles(y, dn, dw)
  BY <1>11 DEF Handles, Tells
<1> HIDE DEF L, y, dw
<1>14. Alternates(Codes, L \cup {y}, On(io.out), dw)
  BY <1>8, <1>10, <1>11, <1>13, NewAlternates
<1>15. Told(new.out, CodesIn(new.cap), dw)
  BY <1>4, <1>7, <1>8, <1>11, <1>12, <1>14 DEF Told, y
<1>16. \A i, j \in Cells : i < j /\ j <= q /\ new.cap[j] # NoEvent => new.cap[i] # NoEvent
  <2> SUFFICES ASSUME NEW i \in Cells, NEW j \in Cells, i < j, j <= q, new.cap[j] # NoEvent
               PROVE  new.cap[i] # NoEvent
    OBVIOUS
  <2>1. ev # NoEvent
    BY DEF NoEvent
  <2>2. CASE j = f
    BY <1>1, <1>2, <1>c, <2>1, <2>2
  <2>3. CASE j # f
    <3>1. io.cap[j] # NoEvent
      BY <1>1, <1>2, <2>3
    <3>2. io.cap[i] # NoEvent
      BY <3>1 DEF Ready
    <3> QED
      BY <1>1, <1>2, <2>1, <3>2
  <2> QED
    BY <2>2, <2>3
<1>17. Room(new.cap, q, k)
  <2>1. CASE q > MaxCaptured
    BY <2>1 DEF Room
  <2>2. CASE ~(q > MaxCaptured)
    <3>1. Free(io.cap, q + 1, k + 1)
      BY <1>5, <2>2 DEF Room
    <3>2. q + 1 \in 1 .. MaxCaptured + 1
      BY <1>c, <2>2
    <3>3. Takes(io.cap, new.cap, 1)
      BY <1>1, <1>2, CaptureTakes
    <3> QED
      BY <3>1, <3>2, <3>3 DEF Takes, Room
  <2> QED
    BY <2>1, <2>2
<1>18. Ready(new, dw, P, q, u, k)
  BY <1>3, <1>6, <1>7, <1>11, <1>15, <1>16, <1>17 DEF Ready, L, y
<1> QED
  BY <1>2, <1>4, <1>6, <1>7, <1>18 DEF dw, y, L

LEMMA SameReady ==
  ASSUME NEW io, NEW dn, NEW P, NEW q, NEW u, NEW k, Ready(io, dn, P, q, u, k),
         NEW new, IOOK(new), new.cap = io.cap, new.out = io.out
  PROVE  Ready(new, dn, P, q, u, k)
BY DEF Ready

LEMMA ReadyLess ==
  ASSUME NEW io, NEW dn, NEW P, NEW q \in Nat, NEW u, NEW k \in Nat, NEW j \in Nat, j <= k,
         Ready(io, dn, P, q, u, k)
  PROVE  Ready(io, dn, P, q, u, j)
<1>1. Room(io.cap, q, k) => Room(io.cap, q, j)
  BY FreeLess DEF Room
<1> QED
  BY <1>1 DEF Ready

\* The keycode of one press or release of a binding
LEMMA EmitReady ==
  ASSUME NEW io, NEW dn, NEW P, NEW q \in Nat, NEW u, NEW k \in Nat, Ready(io, dn, P, q, u, k + 1),
         NEW code \in Codes, Owner(code) \in P, NEW state \in BOOLEAN, state <=> code \notin dn,
         NEW ts \in Nat, NEW new, new = Emit(io, u, code, state, ts), new.lost = {}
  PROVE  Ready(new, Tells(dn, code, state), P, q, u, k)
<1> DEFINE typing == state /\ Kind[code] = "key" /\ ts > io.last.ts
           io1 == IF typing THEN [io EXCEPT !.last = [pos |-> NoPos, ts |-> ts]] ELSE io
           caught == u # 0 /\ Kind[code] = "mod" /\ ~(Cfg(u).holdWhileUndecided /\ held[u].status = "UNDECIDED")
           ev == [t |-> "code", key |-> code, state |-> state, ts |-> ts]
<1>1. new = IF caught THEN Capture(io1, ev)
            ELSE [io1 EXCEPT !.out[code] = @ + (IF state THEN 1 ELSE -1)]
  BY DEF Emit
<1>2. EventOK(ev) /\ ev \in Event /\ ev.t = "code" /\ ev.key = code /\ ev.state = state
  BY DEF EventOK, Event
<1>3. IOOK(io)
  BY DEF Ready
<1>4. IOOK(io1) /\ io1.cap = io.cap /\ io1.out = io.out
  BY <1>3 DEF IOOK, IOs
<1>5. caught <=> ~Passes(u) /\ Kind[code] = "mod"
  BY DEF Passes
<1> HIDE DEF io1, ev, caught
<1>6. Ready(io1, dn, P, q, u, k + 1)
  BY <1>4, SameReady
<1>7. CASE caught
  <2>1. new = Capture(io1, ev)
    BY <1>1, <1>7
  <2>2. Ready(new, Tells(dn, ev.key, ev.state), P, q, u, k)
    BY <1>2, <1>5, <1>6, <1>7, <2>1, CaughtReady
  <2> QED
    BY <1>2, <2>2
<1>8. CASE ~caught
  <2>1. new = [io1 EXCEPT !.out[code] = @ + (IF state THEN 1 ELSE -1)]
    BY <1>1, <1>8
  <2>2. IOOK(new) /\ new.cap = io1.cap /\ new.out = [io1.out EXCEPT ![code] = @ + (IF state THEN 1 ELSE -1)]
    BY <1>4, <2>1 DEF IOOK, IOs
  <2> QED
    BY <1>5, <1>6, <1>8, <2>2, SentReady
<1> QED
  BY <1>7, <1>8

LEMMA PressReady ==
  ASSUME NEW io, NEW dn, NEW P, NEW q \in Nat, NEW u, NEW k \in Nat, Ready(io, dn, P, q, u, k + 1),
         NEW code \in Codes, Owner(code) \in P, code \notin dn,
         NEW ts \in Nat, NEW new, new = Emit(io, u, code, TRUE, ts), new.lost = {}
  PROVE  Ready(new, dn \cup {code}, P, q, u, k)
<1>1. PICK state \in BOOLEAN : state = TRUE
  OBVIOUS
<1>2. new = Emit(io, u, code, state, ts) /\ (state <=> code \notin dn)
  BY <1>1
<1>3. Ready(new, Tells(dn, code, state), P, q, u, k)
  BY <1>2, EmitReady
<1> QED
  BY <1>1, <1>3 DEF Tells

LEMMA UnpressReady ==
  ASSUME NEW io, NEW dn, NEW P, NEW q \in Nat, NEW u, NEW k \in Nat, Ready(io, dn, P, q, u, k + 1),
         NEW code \in Codes, Owner(code) \in P, code \in dn,
         NEW ts \in Nat, NEW new, new = Emit(io, u, code, FALSE, ts), new.lost = {}
  PROVE  Ready(new, dn \ {code}, P, q, u, k)
<1>1. PICK state \in BOOLEAN : state = FALSE
  OBVIOUS
<1>2. new = Emit(io, u, code, state, ts) /\ (state <=> code \notin dn)
  BY <1>1
<1>3. Ready(new, Tells(dn, code, state), P, q, u, k)
  BY <1>2, EmitReady
<1> QED
  BY <1>1, <1>3 DEF Tells

\* A keycode is raised at the top only.
LEMMA NoCodeFrames ==
  ASSUME Types, NEW n, n = Height, n \notin CodeFrames
  PROVE  CodeFrames = {} /\ CodeItems = CodesIn(captured)
<1>1. \A d \in Levels : Fr(d).op = "raise" => d = Height
  BY FrameTypes DEF FrameShape
<1>2. CodeFrames = {}
  BY <1>1 DEF CodeFrames
<1> QED
  BY <1>2 DEF CodeItems

LEMMA NoCodeFramesAfter ==
  ASSUME Types, NEW n \in Levels, n = Height, NEW ops, NewCalls(n, ops),
         \A d \in n .. Height' : ~(Fr(d)'.op = "raise" /\ Fr(d)'.ev.t = "code")
  PROVE  CodeFrames' = {} /\ CodeItems' = CodesIn(captured')
<1>1. n \in Nat /\ n >= 1 /\ Height \in Nat /\ Height' \in Nat
  BY FrameTypes DEF NewCalls, Levels
<1>2. ASSUME NEW d \in Levels'
      PROVE  ~(Fr(d)'.op = "raise" /\ Fr(d)'.ev.t = "code")
  <2>1. d \in 1 .. Height'
    BY DEF Levels
  <2>2. CASE d < n
    <3>1. d \in 1 .. n - 1 /\ d \in Levels
      BY <1>1, <2>1, <2>2 DEF Levels
    <3>2. Fr(d)' = Fr(d)
      BY <3>1 DEF NewCalls, Kept
    <3>3. Fr(d).op # "raise"
      BY <1>1, <2>2, <3>1, FrameTypes DEF FrameShape
    <3> QED
      BY <3>2, <3>3
  <2>3. CASE ~(d < n)
    <3>1. d \in n .. Height'
      BY <1>1, <2>1, <2>3
    <3> QED
      BY <3>1
  <2> QED
    BY <2>2, <2>3
<1>3. CodeFrames' = {}
  BY <1>2 DEF CodeFrames
<1> QED
  BY <1>3 DEF CodeItems, CodesIn

\* What a handler may emit for the keys of P, when what is under way for them comes before
\* the place of its event
LEMMA ReadyNow ==
  ASSUME Core, CodeInv, NEW n \in Levels, n = Height, OnRelease(n), Fr(n).op # "release",
         n \notin CodeFrames, NEW P, \A x \in CodeItems : Owner(x.key) \in P => x.at <= Place(n),
         NEW k \in Nat, undecided # 0 /\ n > 1 => Free(captured, Fr(n - 1).s, k)
  PROVE  Ready(IO, Bound, P, Place(n), undecided, k) /\ Place(n) \in Nat
<1>1. Types /\ Rising /\ Gap /\ Packed /\ LowEmpty /\ UndecidedIsUnique
  BY DEF Core, CellsInv, SlotsInv
<1>2. Place(n) \in 1 .. MaxCaptured + 1 /\ \A i \in Cells : Low(i) <=> i <= Place(n)
  BY <1>1, PlaceIs
<1>3. CodeItems = CodesIn(captured)
  BY <1>1, NoCodeFrames
<1>4. IOOK(IO) /\ IO.cap = captured /\ IO.out = out
  BY <1>1, IOIs DEF IO
<1>5. Told(IO.out, CodesIn(IO.cap), Bound)
  BY <1>3, <1>4 DEF CodeInv
<1>6. \A i, j \in Cells : i < j /\ j <= Place(n) /\ captured[j] # NoEvent => captured[i] # NoEvent
  <2> SUFFICES ASSUME NEW i \in Cells, NEW j \in Cells, i < j, j <= Place(n), Full(j), ~Full(i)
               PROVE  FALSE
    BY DEF Full
  <2>1. PICK d \in Levels : IsRelease(d) /\ i < Fr(d).s /\ Fr(d).s <= j
    BY <1>1 DEF Packed
  <2>2. j < Fr(d).s
    BY <1>2, <2>1 DEF Low
  <2>3. Fr(d).s \in Nat /\ j \in Nat
    BY <1>1, <2>1, ReleaseCells, Constants
  <2> QED
    BY <2>1, <2>2, <2>3
<1>7. ASSUME Passes(undecided), NEW x \in CodesIn(captured)
      PROVE  Place(n) < x.at
  <2>1. x.at \in Cells /\ captured[x.at].t = "code"
    BY <1>4, CodesInIO
  <2>2. Full(x.at)
    BY <2>1 DEF Full, NoEvent
  <2>3. ~Low(x.at)
    BY <1>1, <1>7, <2>1, <2>2 DEF LowEmpty, CodeInv, HeldClear, Passes
  <2>4. ~(x.at <= Place(n))
    BY <1>2, <2>1, <2>3
  <2>5. x.at \in Nat
    BY <2>1, Constants
  <2>6. Place(n) \in Nat
    BY <1>2, Constants
  <2> QED
    BY <2>4, <2>5, <2>6
<1>8. ~Passes(undecided) => Room(captured, Place(n), k)
  <2> SUFFICES ASSUME ~Passes(undecided), ~(Place(n) > MaxCaptured)
               PROVE  Free(captured, Place(n) + 1, k)
    BY DEF Room
  <2>1. undecided # 0
    BY DEF Passes
  <2>2. n > 1
    <3>1. n = 1 => Place(n) = MaxCaptured + 1
      BY <1>1, PlaceIs
    <3>2. n \in Nat /\ n >= 1
      BY <1>1, FrameTypes DEF Levels
    <3> QED
      BY <3>1, <3>2, Constants
  <2>3. Place(n) = Fr(n - 1).s - 1 /\ IsRelease(n - 1)
    BY <1>1, <2>2, PlaceIs
  <2>4. Fr(n - 1).s \in Nat
    BY <1>1, <2>3, ReleaseCells
  <2>5. Place(n) + 1 = Fr(n - 1).s
    BY <2>3, <2>4
  <2> QED
    BY <2>1, <2>2, <2>5
<1>9. Ready(IO, Bound, P, Place(n), undecided, k)
  BY <1>3, <1>4, <1>5, <1>6, <1>7, <1>8 DEF Ready
<1> QED
  BY <1>2, <1>9, Constants

\* What it may emit for keys that have nothing under way, past the hold-tap of slot u
LEMMA ReadyQuiet ==
  ASSUME Types, CodeInv, CodeItems = CodesIn(captured), NEW u, Passes(u),
         NEW P, \A x \in CodeItems : Owner(x.key) \notin P, NEW k
  PROVE  Ready(IO, Bound, P, 0, u, k)
<1>1. IOOK(IO) /\ IO.cap = captured /\ IO.out = out
  BY IOIs DEF IO
<1>2. Told(IO.out, CodesIn(IO.cap), Bound)
  BY <1>1 DEF CodeInv
<1>3. \A x \in CodesIn(captured) : 0 < x.at
  <2>1. \A x \in CodesIn(captured) : x.at \in Cells
    BY <1>1, CodesInIO
  <2> QED
    BY <2>1, Constants DEF Cells
<1>4. \A i, j \in Cells : ~(i < j /\ j <= 0)
  BY Constants DEF Cells
<1> QED
  BY <1>1, <1>2, <1>3, <1>4 DEF Ready

\* What is told to the bindings, and told now
LEMMA CodeAfter ==
  ASSUME Core, CodeInv, NEW n \in Levels, n = Height, n \notin CodeFrames, NEW ops, NewCalls(n, ops),
         ops \cap {"raise", "finish"} = {},
         NEW P, NEW q \in Nat, NEW u, NEW io, Ready(io, Bound', P, q, u, 0), SetIO(io),
         Items' \subseteq Items, \A y \in Items' : y.key \in P => q < y.at,
         \A d \in 1 .. n - 1 : Fr(d).op = "finish" =>
           /\ held'[Fr(d).s].pos = held[Fr(d).s].pos /\ held'[Fr(d).s].cancelled = held[Fr(d).s].cancelled
           /\ held[Fr(d).s].pos \in P => q < Place(d) /\ Place(d) \in Nat,
         \A s \in Slots : Unsettled(s)' =>
           held'[s].pos \notin P /\ \A x \in CodeItems : Owner(x.key) # held'[s].pos,
         CancelledTold', QuickTold', HeldClear'
  PROVE  CodeInv'
<1>1. Types /\ Gap
  BY DEF Core, CellsInv
<1>2. CodeItems = CodesIn(captured)
  BY <1>1, NoCodeFrames
<1>3. CodeItems' = CodesIn(captured')
  BY <1>1, NoCodeFramesAfter DEF NewCalls
<1>4. captured' = io.cap /\ out' = io.out /\ IOOK(io)
  BY DEF SetIO, Ready
<1>5. Told(out', CodeItems', Bound')
  BY <1>3, <1>4 DEF Ready
<1>6. \A x \in CodeItems' : x.at \in Nat /\ (x \in CodeItems \/ (Owner(x.key) \in P /\ x.at <= q))
  <2>1. \A x \in CodesIn(io.cap) : x.at \in Nat
    BY <1>4, CodesInIO, Constants
  <2> QED
    BY <1>2, <1>3, <1>4, <2>1 DEF Ready
<1>7. BeforeEvents'
  <2> SUFFICES ASSUME NEW x \in CodeItems', NEW y \in Items', y.key = Owner(x.key)
               PROVE  x.at < y.at
    BY DEF BeforeEvents, Owner
  <2>1. CASE x \in CodeItems
    BY <2>1 DEF CodeInv, BeforeEvents
  <2>2. CASE Owner(x.key) \in P /\ x.at <= q
    <3>1. q < y.at
      BY <2>2
    <3>2. y.at \in Nat
      BY <1>1, ItemsTyped, ItemIs
    <3> QED
      BY <1>6, <2>2, <3>1, <3>2
  <2> QED
    BY <1>6, <2>1, <2>2
<1>8. ASSUME NEW d \in Levels', Fr(d)'.op = "finish"
      PROVE  /\ d \in 1 .. n - 1 /\ d \in Levels /\ Fr(d)' = Fr(d) /\ Place(d)' = Place(d)
             /\ held'[Fr(d).s].pos = held[Fr(d).s].pos /\ held'[Fr(d).s].cancelled = held[Fr(d).s].cancelled
             /\ held[Fr(d).s].pos \in P => q < Place(d) /\ Place(d) \in Nat
  <2>1. n \in Nat /\ n >= 1 /\ Height \in Nat /\ Height' \in Nat
    BY <1>1, FrameTypes DEF NewCalls, Levels
  <2>2. d \in 1 .. Height'
    BY DEF Levels
  <2>3. ~(d \in n .. Height')
    BY <1>8 DEF NewCalls
  <2>4. d \in 1 .. n - 1 /\ d \in 1 .. n /\ d \in Levels
    BY <2>1, <2>2, <2>3 DEF Levels
  <2>5. Fr(d)' = Fr(d)
    BY <2>4 DEF NewCalls, Kept
  <2>6. Place(d)' = Place(d)
    BY <1>1, <2>4, PlaceKept
  <2>7. Fr(d).op = "finish"
    BY <1>8, <2>5
  <2> QED
    BY <2>4, <2>5, <2>6, <2>7
<1>9. BeforeFinish'
  <2> SUFFICES ASSUME NEW d \in Levels', Fr(d)'.op = "finish", NEW x \in CodeItems',
                      Owner(x.key) = held'[Fr(d)'.s].pos
               PROVE  x.at < Place(d)'
    BY DEF BeforeFinish, Owner
  <2>1. /\ d \in Levels /\ Fr(d)' = Fr(d) /\ Place(d)' = Place(d) /\ Fr(d).op = "finish"
        /\ Owner(x.key) = held[Fr(d).s].pos
        /\ held[Fr(d).s].pos \in P => q < Place(d) /\ Place(d) \in Nat
    BY <1>8
  <2>2. CASE x \in CodeItems
    BY <2>1, <2>2 DEF CodeInv, BeforeFinish
  <2>3. CASE Owner(x.key) \in P /\ x.at <= q
    BY <1>6, <2>1, <2>3
  <2> QED
    BY <1>6, <2>1, <2>2, <2>3
<1>10. FinishLive'
  <2> SUFFICES ASSUME NEW d \in Levels', Fr(d)'.op = "finish"
               PROVE  ~held'[Fr(d)'.s].cancelled
    BY DEF FinishLive
  <2>1. /\ d \in Levels /\ Fr(d)' = Fr(d) /\ held'[Fr(d).s].cancelled = held[Fr(d).s].cancelled
    BY <1>8
  <2> QED
    BY <2>1 DEF CodeInv, FinishLive
<1>11. Quiet'
  <2> SUFFICES ASSUME NEW s \in Slots, Unsettled(s)', NEW x \in CodeItems'
               PROVE  Owner(x.key) # held'[s].pos
    BY DEF Quiet, Owner, Slots
  <2>1. held'[s].pos \notin P /\ \A y \in CodeItems : Owner(y.key) # held'[s].pos
    OBVIOUS
  <2> QED
    BY <1>6, <2>1
<1> QED
  BY <1>5, <1>7, <1>9, <1>10, <1>11 DEF CodeInv
-----------------------------------------------------------------------------
(* What the bindings were told *)

LEMMA PressedIs ==
  ASSUME TypeOK, NEW s \in Slots, NEW c \in Pressed(s)
  PROVE  /\ Used(s) /\ ~held[s].cancelled /\ Owner(c) = held[s].pos /\ held[s].pos \in HoldTaps
         /\ c \in {Hold(held[s].pos), Tap(held[s].pos)} /\ c \in Codes
<1>1. Used(s) /\ ~held[s].cancelled /\ c \in {Hold(held[s].pos), Tap(held[s].pos)}
  BY DEF Pressed
<1> QED
  BY <1>1, SlotIs, CodesAre, CodesDiffer

LEMMA BoundIs ==
  ASSUME TypeOK, OneSlotPerKey
  PROVE  /\ \A p \in Plain : Key(p) \in Bound <=> p \in seen
         /\ \A s \in Slots : \A c : Used(s) /\ Owner(c) = held[s].pos => (c \in Bound <=> c \in Pressed(s))
         /\ \A c \in Bound : (\E p \in Plain \cap seen : c = Key(p)) \/ \E s \in Slots : c \in Pressed(s)
<1>1. \A c : c \in Bound <=> (\E p \in Plain \cap seen : c = Key(p)) \/ \E s \in Slots : c \in Pressed(s)
  BY DEF Bound
<1>2. ASSUME NEW p \in Plain, NEW s \in Slots
      PROVE  Key(p) \notin Pressed(s)
  BY PressedIs, NoPosIs, CodesDiffer
<1>3. ASSUME NEW s \in Slots, NEW c, Used(s), Owner(c) = held[s].pos, c \in Bound
      PROVE  c \in Pressed(s)
  <2>1. held[s].pos \in HoldTaps
    BY <1>3, SlotIs
  <2>2. ~(\E p \in Plain : c = Key(p))
    BY <1>3, <2>1, NoPosIs, CodesDiffer
  <2>3. PICK t \in Slots : c \in Pressed(t)
    BY <1>1, <1>3, <2>2
  <2>4. Used(t) /\ held[t].pos = held[s].pos
    BY <1>3, <2>3, PressedIs
  <2> QED
    BY <2>3, <2>4 DEF OneSlotPerKey
<1> QED
  BY <1>1, <1>2, <1>3, CodesDiffer

LEMMA BoundMoves ==
  ASSUME TypeOK, OneSlotPerKey, NEW s \in Slots, \A t \in Slots : t # s => Pressed(t)' = Pressed(t),
         \A p \in Plain : p \in seen' <=> p \in seen
  PROVE  Bound' = (Bound \ Pressed(s)) \cup Pressed(s)'
<1>1. \A c : c \in Bound <=> (\E p \in Plain : p \in seen /\ c = Key(p)) \/ \E t \in Slots : c \in Pressed(t)
  BY DEF Bound
<1>2. \A c : c \in Bound' <=> (\E p \in Plain : p \in seen' /\ c = Key(p)) \/ \E t \in Slots : c \in Pressed(t)'
  BY DEF Bound, Key, Slots
<1>3. ASSUME NEW c \in Pressed(s)
      PROVE  ~(\E p \in Plain : c = Key(p)) /\ \A t \in Slots : c \in Pressed(t) => t = s
  <2>1. \A t \in Slots : c \in Pressed(t) => Used(t) /\ Owner(c) = held[t].pos
    BY PressedIs
  <2> QED
    BY <2>1, PressedIs, NoPosIs, CodesDiffer DEF OneSlotPerKey
<1> QED
  BY <1>1, <1>2, <1>3

LEMMA BoundStays ==
  ASSUME \A t \in Slots : Pressed(t)' = Pressed(t), \A p \in Plain : p \in seen' <=> p \in seen
  PROVE  Bound' = Bound
<1>1. \A c : c \in Bound <=> (\E p \in Plain : p \in seen /\ c = Key(p)) \/ \E t \in Slots : c \in Pressed(t)
  BY DEF Bound
<1>2. \A c : c \in Bound' <=> (\E p \in Plain : p \in seen' /\ c = Key(p)) \/ \E t \in Slots : c \in Pressed(t)'
  BY DEF Bound, Key, Slots
<1> QED
  BY <1>1, <1>2

LEMMA PressedStays ==
  ASSUME NEW t \in Slots, config' = config, held'[t].pos = held[t].pos,
         held'[t].status = held[t].status, held'[t].cancelled = held[t].cancelled,
         Used(t) /\ held[t].status = "UNDECIDED" => (Pending(t)' <=> Pending(t))
  PROVE  Pressed(t)' = Pressed(t)
BY DEF Pressed, Used, Cfg, Silent, Hold, Tap

LEMMA PendingStays ==
  ASSUME Types, NEW n \in Levels, n = Height, NEW ops, NewCalls(n, ops),
         ~(Fr(n).op = "decide" /\ Fr(n).moment = "KEY_DOWN"),
         \A d \in n .. Height' : ~(Fr(d)'.op = "decide" /\ Fr(d)'.moment = "KEY_DOWN")
  PROVE  \A t : Pending(t)' <=> Pending(t)
<1>1. n \in Nat /\ n >= 1 /\ Height' \in Nat /\ Height' >= n - 1
  BY FrameTypes DEF NewCalls, Levels
<1>2. \A d \in 1 .. n - 1 : d \in Levels /\ d \in Levels' /\ Fr(d)' = Fr(d)
  BY <1>1 DEF NewCalls, Kept, Levels
<1>3. \A d \in Levels : d = n \/ d \in 1 .. n - 1
  BY <1>1 DEF Levels
<1>4. \A d \in Levels' : d \in n .. Height' \/ d \in 1 .. n - 1
  BY <1>1 DEF Levels
<1> QED
  BY <1>2, <1>3, <1>4 DEF Pending

\* A press under way is about its own key alone.
LEMMA QuickStays ==
  ASSUME Types, NEW n \in Levels, n = Height, NEW ops, NewCalls(n, ops),
         \A d \in n .. Height' : ~(Fr(d)'.op = "decide" /\ Fr(d)'.moment = "QUICK_TAP")
  PROVE  QuickTold'
<1>1. n \in Nat /\ n >= 1 /\ Height' \in Nat /\ Height' >= n - 1
  BY FrameTypes DEF NewCalls, Levels
<1>2. ASSUME NEW d \in Levels', d \in 1 .. n - 1
      PROVE  ~(Fr(d)'.op = "decide" /\ Fr(d)'.moment = "QUICK_TAP")
  <2>1. Fr(d)' = Fr(d) /\ d \in Levels /\ d # Height
    BY <1>1, <1>2 DEF NewCalls, Kept, Levels
  <2> QED
    BY <2>1, FrameTypes DEF FrameShape, DecideShape
<1>3. \A d \in Levels' : d \in n .. Height' \/ d \in 1 .. n - 1
  BY <1>1 DEF Levels
<1> QED
  BY <1>2, <1>3 DEF QuickTold

\* What has the same status, or is settled now
LEMMA UnsettledStays ==
  ASSUME NEW s \in Slots, config' = config, held'[s].pos = held[s].pos,
         held'[s].status = held[s].status
  PROVE  Unsettled(s)' <=> Unsettled(s)
BY DEF Unsettled, Used, Silent, Cfg

LEMMA HeldStays ==
  ASSUME CodeInv, config' = config,
         undecided' # 0 =>
           /\ undecided' = undecided /\ held'[undecided].pos = held[undecided].pos
           /\ Cfg(undecided).holdWhileUndecided => \A i \in Cells :
                Low(i)' /\ captured'[i].t = "code" => Low(i) /\ captured[i].t = "code"
  PROVE  HeldClear'
<1> SUFFICES ASSUME undecided' # 0, config'[held'[undecided'].pos].holdWhileUndecided,
                    NEW i \in Cells, Low(i)', captured'[i].t = "code"
             PROVE  FALSE
  BY DEF HeldClear, Cfg, Cells
<1>1. undecided' = undecided /\ undecided # 0 /\ Cfg(undecided).holdWhileUndecided
  BY DEF Cfg
<1>2. Low(i) /\ captured[i].t = "code"
  BY <1>1
<1> QED
  BY <1>1, <1>2 DEF CodeInv, HeldClear

\* Nothing is emitted.
LEMMA CodeStays ==
  ASSUME Core, CodeInv, NEW n \in Levels, n = Height, n \notin CodeFrames, NEW ops, NewCalls(n, ops),
         ops \cap {"raise", "finish"} = {}, UNCHANGED <<captured, lastTapped, out, lost>>,
         Bound' = Bound, Items' \subseteq Items,
         \A d \in 1 .. n - 1 : Fr(d).op = "finish" =>
           held'[Fr(d).s].pos = held[Fr(d).s].pos /\ held'[Fr(d).s].cancelled = held[Fr(d).s].cancelled,
         \A s \in Slots : Unsettled(s)' => \A x \in CodeItems : Owner(x.key) # held'[s].pos,
         CancelledTold', QuickTold', HeldClear'
  PROVE  CodeInv'
<1>1. Types
  BY DEF Core
<1>2. CodeItems = CodesIn(captured)
  BY <1>1, NoCodeFrames
<1>3. PICK P : P = {}
  OBVIOUS
<1>4. PICK u : u = 0 /\ Passes(u)
  BY PassesNone
<1>5. PICK k \in Nat : k = 0
  OBVIOUS
<1>6. PICK io : io = IO
  OBVIOUS
<1>7. Ready(io, Bound, P, 0, u, k)
  BY <1>1, <1>2, <1>3, <1>4, <1>6, ReadyQuiet
<1>8. Ready(io, Bound', P, k, u, 0)
  BY <1>5, <1>7
<1>9. SetIO(io)
  BY <1>6 DEF SetIO, IO
<1>10. \A d \in 1 .. n - 1 : held[Fr(d).s].pos \notin P
  BY <1>3
<1>11. (\A y \in Items' : y.key \in P => k < y.at) /\ \A s \in Slots : held'[s].pos \notin P
  BY <1>3
<1> QED
  BY <1>8, <1>9, <1>10, <1>11, CodeAfter

\* No slot changes either.
LEMMA CodeReturns ==
  ASSUME Core, CodeInv, NEW n \in Levels, n = Height, n \notin CodeFrames, NEW ops, NewCalls(n, ops),
         ops \cap {"raise", "finish"} = {}, UNCHANGED <<captured, lastTapped, out, lost>>,
         UNCHANGED <<config, held, undecided>>, Items' \subseteq Items,
         \A p \in Plain : p \in seen' <=> p \in seen,
         ~(Fr(n).op = "decide" /\ Fr(n).moment = "KEY_DOWN"),
         \A d \in n .. Height' :
           ~(Fr(d)'.op = "decide" /\ Fr(d)'.moment \in {"KEY_DOWN", "QUICK_TAP"}),
         undecided # 0 => \A i \in Cells : Low(i)' => Low(i) \/ ~Full(i)
  PROVE  CodeInv'
<1>1. Types
  BY DEF Core
<1>2. \A t : Pending(t)' <=> Pending(t)
  BY <1>1, PendingStays
<1>3. \A t \in Slots : Pressed(t)' = Pressed(t)
  BY <1>2, PressedStays
<1>4. Bound' = Bound
  BY <1>3, BoundStays
<1>5. \A s \in Slots : (Unsettled(s)' <=> Unsettled(s)) /\ held'[s].pos = held[s].pos
  BY UnsettledStays
<1>6. CancelledTold'
  BY <1>5 DEF CodeInv, CancelledTold, Slots
<1>7. QuickTold'
  BY <1>1, QuickStays
<1>8. \A i \in Cells : captured[i].t = "code" => Full(i)
  BY DEF Full, NoEvent
<1>9. HeldClear'
  BY <1>8, HeldStays
<1>10. \A s \in Slots : Unsettled(s)' => \A x \in CodeItems : Owner(x.key) # held'[s].pos
  BY <1>5 DEF CodeInv, Quiet
<1> QED
  BY <1>4, <1>6, <1>7, <1>9, <1>10, CodeStays
-----------------------------------------------------------------------------
(* The actions *)

LEMMA ScheduleCodes ==
  ASSUME Core, Core', CodeInv, ScheduleTimer, lost' = {}
  PROVE  CodeInv'
<1>1. Types /\ Running("schedule")
  BY DEF Core, ScheduleTimer
<1>2. PICK n : n = Height
  OBVIOUS
<1>3. stack \in Seq(Frames) /\ stack # <<>> /\ n \in Levels /\ Fr(n).op = "schedule"
  BY <1>1, <1>2, Top
<1>4. Returned(n) /\ n \in Nat /\ n >= 1
  BY <1>1, <1>2, <1>3, Calls0, FrameTypes DEF ScheduleTimer, Levels
<1>5. PICK ops : ops = {} /\ NewCalls(n, ops)
  BY <1>4, NewCallsAre
<1>6. UNCHANGED <<captured, lastTapped, out, lost>> /\ UNCHANGED <<config, held, undecided, seen>>
  BY DEF ScheduleTimer
<1>7. PICK m : m = 0 /\ Collects(m)
  BY <1>1, <1>6, UntouchedCollects
<1>8. n \notin EventFrames /\ \A d \in n .. Height' : FALSE
  BY <1>3, <1>4 DEF EventFrames, EventOps, Returned
<1>9. Items' = Items
  BY <1>1, <1>2, <1>3, <1>5, <1>7, <1>8, ItemsStay
<1>10. SameReplays
  BY <1>1, <1>2, <1>3, <1>5, ReplaysStay
<1>11. \A i : Low(i)' => Low(i)
  BY <1>10, LowStays
<1>12. n \notin CodeFrames
  BY <1>3 DEF CodeFrames
<1> QED
  BY <1>2, <1>3, <1>5, <1>6, <1>8, <1>9, <1>11, <1>12, CodeReturns

\* Low cells, when no replay starts or ends
LEMMA LowAsBefore ==
  ASSUME Types, NEW n \in Levels, n = Height, Fr(n).op # "release",
         NEW ops, NewCalls(n, ops), "release" \notin ops
  PROVE  \A i : Low(i)' <=> Low(i)
BY ReplaysStay, LowStays

LEMMA ReleasedCodes ==
  ASSUME Core, Core', CodeInv, NEW n \in EventFrames, n = Height, NEW e \in Event, Fr(n).ev = e,
         Fr(n).op = "invoke", e.key \in HoldTaps, ~e.state, e.t = "pos", KeymapSees(e),
         UNCHANGED <<config, now, undecided, held, captured, lastTapped, down, presses, out, lost>>,
         NEW s \in Slots, NEW m \in {"TIMER_EVENT", "KEY_UP"}, held[s].pos = e.key,
         \/ Becomes2(n, Decide(s, "KEY_UP", e), Finish(s, m))
         \/ Becomes3(n, Decide(s, "TIMER_EVENT", e), Decide(s, "KEY_UP", e), Finish(s, m))
  PROVE  CodeInv'
<1>c. Types /\ Rising /\ Gap /\ FinishInv /\ SlotsInv
  BY DEF Core, CellsInv, CallInv
<1>1. /\ n \in Levels /\ n \in Nat /\ n >= 1 /\ OnRelease(n) /\ e.key \in Positions
      /\ n \notin CodeFrames /\ Used(s) /\ Fr(n).op # "release"
  BY <1>c, EventFrameIs, FrameTypes, NoPosIs DEF Levels, EventFrames, CodeFrames, Used
<1>2. /\ s \in Nat
      /\ Decide(s, "KEY_UP", e).op = "decide" /\ Decide(s, "KEY_UP", e).moment = "KEY_UP"
      /\ Decide(s, "TIMER_EVENT", e).op = "decide" /\ Decide(s, "TIMER_EVENT", e).moment = "TIMER_EVENT"
      /\ Finish(s, m).op = "finish" /\ Finish(s, m).s = s
  BY Constants, FramesAre DEF Moments
<1>3. NewCalls(n, {"decide", "finish"})
  <2>1. ASSUME Becomes2(n, Decide(s, "KEY_UP", e), Finish(s, m))
        PROVE  NewCalls(n, {"decide", "finish"})
    BY <1>1, <1>2, <2>1, NewCallsAre
  <2>2. ASSUME Becomes3(n, Decide(s, "TIMER_EVENT", e), Decide(s, "KEY_UP", e), Finish(s, m))
        PROVE  NewCalls(n, {"decide", "decide", "finish"})
    BY <1>1, <1>2, <2>2, NewCallsAre
  <2>3. {"decide", "decide", "finish"} = {"decide", "finish"}
    OBVIOUS
  <2> QED
    BY <2>1, <2>2, <2>3
<1>4. PICK ops : ops = {"decide", "finish"} /\ NewCalls(n, ops)
  BY <1>3
<1>5. /\ Fr(n)'.op = "finish" /\ Fr(n)'.s = s /\ n \in Levels'
      /\ \A d \in n .. Height' :
           \/ d = n
           \/ d # n /\ Fr(d)'.op = "decide" /\ Fr(d)'.moment \in {"KEY_UP", "TIMER_EVENT"}
  BY <1>1, <1>2 DEF Becomes2, Becomes3, Levels
<1>6. CodeItems' = CodeItems
  <2>1. \A d \in n .. Height' : ~(Fr(d)'.op = "raise" /\ Fr(d)'.ev.t = "code")
    BY <1>5
  <2>2. CodeItems' = CodesIn(captured')
    BY <1>1, <1>4, <1>c, <2>1, NoCodeFramesAfter
  <2> QED
    BY <1>1, <1>c, <2>2, NoCodeFrames
<1>7. Bound' = Bound
  <2>1. \A d \in n .. Height' : ~(Fr(d)'.op = "decide" /\ Fr(d)'.moment = "KEY_DOWN")
    BY <1>5
  <2>2. \A t : Pending(t)' <=> Pending(t)
    BY <1>1, <1>4, <1>c, <2>1, PendingStays
  <2>3. \A t \in Slots : Pressed(t)' = Pressed(t)
    BY <2>2, PressedStays
  <2>4. \A p \in Plain : p \in seen' <=> p \in seen
    BY NoPosIs DEF KeymapSees
  <2> QED
    BY <2>3, <2>4, BoundStays
<1>8. Told(out', CodeItems', Bound')
  BY <1>6, <1>7 DEF CodeInv
<1>9. Items' \subseteq Items
  <2>1. Collects(1)
    BY <1>c, UntouchedCollectsOne
  <2>2. \A x \in Items : x.key = e.key => Place(n) <= x.at
    BY DEF Core, CallInv, InvokeInv, EventFrames
  <2>3. PICK k : k = 1 /\ Collects(k)
    BY <2>1
  <2>4. Items' = Items \ {Own(n)}
    BY <1>4, <1>c, <2>3, ItemsHandled DEF EventOps
  <2> QED
    BY <2>4
<1>10. BeforeEvents'
  BY <1>6, <1>9 DEF CodeInv, BeforeEvents, Owner
<1>11. ASSUME NEW d \in Levels', Fr(d)'.op = "finish", d # n
       PROVE  d \in Levels /\ Fr(d)' = Fr(d) /\ Place(d)' = Place(d)
  <2>1. d \in 1 .. n - 1 /\ d \in 1 .. n /\ d \in Levels
    BY <1>1, <1>4, <1>5, <1>11 DEF NewCalls, Levels
  <2> QED
    BY <1>1, <1>4, <1>c, <2>1, PlaceKept DEF NewCalls, Kept
<1>12. Place(n)' = Place(n)
  <2>1. n \in 1 .. n
    BY <1>1
  <2> QED
    BY <1>1, <1>4, <1>c, <2>1, PlaceKept
<1>13. BeforeFinish'
  <2> SUFFICES ASSUME NEW d \in Levels', Fr(d)'.op = "finish", NEW x \in CodeItems,
                      Owner(x.key) = held[Fr(d)'.s].pos
               PROVE  x.at < Place(d)'
    BY <1>6 DEF BeforeFinish, Owner
  <2>1. CASE d # n
    BY <1>11, <2>1 DEF CodeInv, BeforeFinish
  <2>2. CASE d = n
    <3>1. Own(n) \in Items /\ Own(n).at = Place(n) /\ Own(n).key = e.key
      BY <1>c, OwnIs
    <3>2. Own(n).key = Owner(x.key)
      BY <1>5, <2>2, <3>1
    <3>3. x.at < Own(n).at
      BY <3>1, <3>2 DEF CodeInv, BeforeEvents
    <3> QED
      BY <1>12, <2>2, <3>1, <3>3
  <2> QED
    BY <2>1, <2>2
<1>14. FinishLive'
  <2> SUFFICES ASSUME NEW d \in Levels', Fr(d)'.op = "finish"
               PROVE  ~held[Fr(d)'.s].cancelled
    BY DEF FinishLive
  <2>1. CASE d # n
    BY <1>11, <2>1 DEF CodeInv, FinishLive
  <2>2. ~held[s].cancelled
    BY <1>1, <1>c, OwnSlot
  <2> QED
    BY <1>5, <2>1, <2>2
<1>15. \A t \in Slots : (Unsettled(t)' <=> Unsettled(t)) /\ held'[t].pos = held[t].pos
  BY UnsettledStays
<1>16. CancelledTold'
  BY <1>15 DEF CodeInv, CancelledTold, Slots
<1>17. Quiet'
  BY <1>6, <1>15 DEF CodeInv, Quiet, Owner, Slots
<1>18. QuickTold'
  <2>1. \A d \in n .. Height' : ~(Fr(d)'.op = "decide" /\ Fr(d)'.moment = "QUICK_TAP")
    BY <1>5
  <2> QED
    BY <1>1, <1>4, <1>c, <2>1, QuickStays
<1>19. HeldClear'
  <2>1. \A i : Low(i)' <=> Low(i)
    BY <1>1, <1>4, <1>c, LowAsBefore
  <2> QED
    BY <2>1, HeldStays
<1> QED
  BY <1>8, <1>10, <1>13, <1>14, <1>16, <1>17, <1>18, <1>19 DEF CodeInv

LEMMA InvokeReleasedCodes ==
  ASSUME Core, Core', CodeInv, InvokeReleased, lost' = {}
  PROVE  CodeInv'
<1>1. PICK n : n = Height
  OBVIOUS
<1>2. PICK e : e = Head(stack).ev
  OBVIOUS
<1>c. Types /\ Rising /\ Gap
  BY DEF Core, CellsInv
<1>3. /\ n \in EventFrames /\ Fr(n).ev = e /\ Fr(n).op = "invoke" /\ n \in Levels /\ n \in Nat
      /\ n >= 1 /\ e.key \in HoldTaps /\ ~e.state /\ e \in Event /\ e.t = "pos" /\ KeymapSees(e)
      /\ UNCHANGED <<config, now, undecided, held, captured, lastTapped, down, presses, out, lost>>
      /\ \/ Returned(n) /\ UNCHANGED timer /\ \A s \in Slots : held[s].pos # e.key
         \/ \E s \in Slots, p \in BOOLEAN :
              /\ held[s].pos = e.key /\ (p => n = 1)
              /\ timer' = [timer EXCEPT ![s] = p]
              /\ LET m == IF p THEN "TIMER_EVENT" ELSE "KEY_UP"
                 IN \/ Becomes2(n, Decide(s, "KEY_UP", e), Finish(s, m))
                    \/ Becomes3(n, Decide(s, "TIMER_EVENT", e), Decide(s, "KEY_UP", e), Finish(s, m))
  BY <1>1, <1>2, <1>c, ReleasedSplits
<1>4. CASE Returned(n)
  <2>1. PICK k : k = 1 /\ Collects(k)
    BY <1>3, <1>c, UntouchedCollectsOne
  <2>2. PICK ops : ops = {} /\ NewCalls(n, ops)
    BY <1>3, <1>4, NewCallsAre
  <2>3. Items' \subseteq Items
    <3>1. Items' = Items \ {Own(n)}
      BY <1>1, <1>3, <1>c, <2>1, <2>2, ItemsHandled DEF EventOps
    <3> QED
      BY <3>1
  <2>4. \A d \in n .. Height' : FALSE
    BY <1>3, <1>4 DEF Returned
  <2>5. \A i : Low(i)' <=> Low(i)
    BY <1>1, <1>3, <1>c, <2>2, LowAsBefore
  <2>6. n \notin CodeFrames
    BY <1>3 DEF CodeFrames
  <2>7. \A p \in Plain : p \in seen' <=> p \in seen
    BY <1>3, NoPosIs DEF KeymapSees
  <2> QED
    BY <1>1, <1>3, <2>2, <2>3, <2>4, <2>5, <2>6, <2>7, CodeReturns
<1>5. CASE ~Returned(n)
  <2>1. PICK s \in Slots, p \in BOOLEAN :
              /\ held[s].pos = e.key /\ (p => n = 1)
              /\ timer' = [timer EXCEPT ![s] = p]
              /\ LET m == IF p THEN "TIMER_EVENT" ELSE "KEY_UP"
                 IN \/ Becomes2(n, Decide(s, "KEY_UP", e), Finish(s, m))
                    \/ Becomes3(n, Decide(s, "TIMER_EVENT", e), Decide(s, "KEY_UP", e), Finish(s, m))
    BY <1>3, <1>5
  <2>2. PICK m \in {"TIMER_EVENT", "KEY_UP"} : m = IF p THEN "TIMER_EVENT" ELSE "KEY_UP"
    OBVIOUS
  <2> QED
    BY <1>1, <1>3, <2>1, <2>2, ReleasedCodes
<1> QED
  BY <1>4, <1>5

LEMMA ListenCodes ==
  ASSUME Core, Core', CodeInv, lost' = {}, NEW n \in EventFrames, n = Height, Fr(n).op = "listen",
         n \in Levels, n \in Nat, n >= 1, EventOK(Fr(n).ev), OnRelease(n), undecided # 0,
         UNCHANGED <<config, now, undecided, held, timer, down, presses, seen, typed>>,
         SetIO(Capture(IO, Fr(n).ev)), NEW m \in {"OTHER_KEY_DOWN", "OTHER_KEY_UP"},
         Becomes(n, Decide(undecided, m, Fr(n).ev))
  PROVE  CodeInv'
<1>c. Types /\ CellsInv /\ Rising /\ Gap /\ Packed /\ RoomLeft
  BY DEF Core, CellsInv, RoomInv
<1>1. n \notin CodeFrames /\ Fr(n).op # "release" /\ Fr(n).ev \in Event /\ Fr(n).ev.t = "pos"
  BY <1>c, EventFrameIs DEF CodeFrames, EventFrames
<1>2. PICK f \in Cells :
           /\ captured[f] = NoEvent /\ captured' = [captured EXCEPT ![f] = Fr(n).ev]
           /\ f < Place(n) /\ EventCells' = EventCells \cup {f}
           /\ \A i \in Cells : f <= i /\ Low(i) => i \notin EventCells
  BY <1>c, ListenCell
<1>3. /\ Decide(undecided, m, Fr(n).ev).op = "decide" /\ Decide(undecided, m, Fr(n).ev).moment = m
  BY DEF Decide, Frame
<1>4. PICK ops : ops = {"decide"} /\ NewCalls(n, ops)
  BY <1>3, NewCallsAre
<1>5. \A d \in n .. Height' : Fr(d)'.op = "decide" /\ Fr(d)'.moment \notin {"KEY_DOWN", "QUICK_TAP"}
  BY <1>3 DEF Becomes
<1>6. Items' = Moves(Items, Own(n), f)
  BY <1>2, <1>4, <1>c, ListenMoves DEF EventOps
<1>7. out' = out
  BY DEF SetIO, Capture, IO
<1>8. captured \in [Cells -> Event]
  BY <1>c DEF Types, TypeOK
<1>9. CodesIn(captured') = CodesIn(captured)
  <2>1. Fr(n).ev \in Event /\ Fr(n).ev.t # "code"
    BY <1>1
  <2>2. PICK cap \in [Cells -> Event], ev \in Event : cap = captured /\ ev = Fr(n).ev
    BY <1>8, <2>1
  <2>3. cap[f] = NoEvent
    BY <1>2, <2>2
  <2>4. LET new == [cap EXCEPT ![f] = ev]
        IN /\ ev.t = "code" => CodesIn(new) = CodesIn(cap) \cup {Item(f, ev)}
           /\ ev.t # "code" => CodesIn(new) = CodesIn(cap)
           /\ \A z \in CodesIn(cap) : z.at # f
    BY ONLY <2>3, CodeCaptured
  <2> QED
    BY <1>2, <2>1, <2>2, <2>4
<1>10. CodeItems' = CodesIn(captured')
  <2>1. \A d \in n .. Height' : ~(Fr(d)'.op = "raise" /\ Fr(d)'.ev.t = "code")
    BY <1>5
  <2> QED
    BY <1>4, <1>c, <2>1, NoCodeFramesAfter
<1>11. CodeItems = CodesIn(captured)
  BY <1>1, <1>c, NoCodeFrames
<1>12. CodeItems' = CodeItems
  BY <1>9, <1>10, <1>11
<1>13. Bound' = Bound
  <2>1. \A d \in n .. Height' : ~(Fr(d)'.op = "decide" /\ Fr(d)'.moment = "KEY_DOWN")
    BY <1>5
  <2>2. \A t : Pending(t)' <=> Pending(t)
    BY <1>4, <1>c, <2>1, PendingStays
  <2>3. \A t \in Slots : Pressed(t)' = Pressed(t)
    BY <2>2, PressedStays
  <2> QED
    BY <2>3, BoundStays
<1>14. Told(out', CodeItems', Bound')
  BY <1>7, <1>12, <1>13 DEF CodeInv
<1>15. BeforeEvents'
  <2> SUFFICES ASSUME NEW x \in CodeItems, NEW y \in Items', y.key = Owner(x.key)
               PROVE  x.at < y.at
    BY <1>12 DEF BeforeEvents, Owner
  <2>1. CASE y \in Items
    BY <2>1 DEF CodeInv, BeforeEvents
  <2>2. CASE y.at = f /\ y.key = Own(n).key
    <3>1. Own(n) \in Items /\ Own(n).at = Place(n)
      BY <1>c, OwnIs
    <3>2. x.at < Place(n)
      BY <2>2, <3>1 DEF CodeInv, BeforeEvents
    <3>3. x.at \in Cells /\ captured[x.at].t = "code"
      BY <1>c, <1>11, <1>8, CodesAreItems DEF Types, CapturedOK
    <3>4. Full(x.at) /\ ~Full(f) /\ x.at # f
      BY <1>2, <3>3 DEF Full, NoEvent
    <3>5. Place(n) \in Nat /\ Low(x.at)
      BY <1>1, <1>c, <3>2, <3>3, PlaceIs, Constants
    <3>6. ~(f < x.at)
      <4> SUFFICES ASSUME f < x.at
                   PROVE  FALSE
        OBVIOUS
      <4>1. PICK d \in Levels : IsRelease(d) /\ f < Fr(d).s /\ Fr(d).s <= x.at
        BY <1>c, <3>3, <3>4 DEF Packed
      <4>2. x.at < Fr(d).s
        BY <3>5, <4>1 DEF Low
      <4>3. Fr(d).s \in Nat /\ x.at \in Nat
        BY <1>c, <3>3, <4>1, ReleaseCells, Constants
      <4> QED
        BY <4>1, <4>2, <4>3
    <3>7. x.at \in Nat /\ f \in Nat
      BY <3>3, Constants
    <3> QED
      BY <2>2, <3>4, <3>6, <3>7
  <2>3. y \in Items \/ (y.at = f /\ y.key = Own(n).key)
    BY <1>6 DEF Moves
  <2> QED
    BY <2>1, <2>2, <2>3
<1>16. ASSUME NEW d \in Levels', Fr(d)'.op = "finish"
       PROVE  d \in Levels /\ Fr(d)' = Fr(d) /\ Place(d)' = Place(d)
  <2>1. d \in 1 .. n - 1 /\ d \in 1 .. n /\ d \in Levels
    BY <1>4, <1>5, <1>16 DEF NewCalls, Levels
  <2> QED
    BY <1>4, <1>c, <2>1, PlaceKept DEF NewCalls, Kept
<1>17. BeforeFinish'
  <2> SUFFICES ASSUME NEW d \in Levels', Fr(d)'.op = "finish", NEW x \in CodeItems,
                      Owner(x.key) = held[Fr(d)'.s].pos
               PROVE  x.at < Place(d)'
    BY <1>12 DEF BeforeFinish, Owner
  <2> QED
    BY <1>16 DEF CodeInv, BeforeFinish
<1>18. FinishLive'
  BY <1>16 DEF CodeInv, FinishLive
<1>19. \A t \in Slots : (Unsettled(t)' <=> Unsettled(t)) /\ held'[t].pos = held[t].pos
  BY UnsettledStays
<1>20. CancelledTold'
  BY <1>19 DEF CodeInv, CancelledTold, Slots
<1>21. Quiet'
  BY <1>12, <1>19 DEF CodeInv, Quiet, Owner, Slots
<1>22. QuickTold'
  <2>1. \A d \in n .. Height' : ~(Fr(d)'.op = "decide" /\ Fr(d)'.moment = "QUICK_TAP")
    BY <1>5
  <2> QED
    BY <1>4, <1>c, <2>1, QuickStays
<1>23. HeldClear'
  <2>1. \A i : Low(i)' <=> Low(i)
    BY <1>1, <1>4, <1>c, LowAsBefore
  <2>2. \A i \in Cells : captured'[i].t = "code" => captured[i].t = "code"
    BY <1>1, <1>2, <1>8
  <2> QED
    BY <2>1, <2>2, HeldStays
<1> QED
  BY <1>14, <1>15, <1>17, <1>18, <1>20, <1>21, <1>22, <1>23 DEF CodeInv

LEMMA ListenPositionCodes ==
  ASSUME Core, Core', CodeInv, ListenPosition, lost' = {}
  PROVE  CodeInv'
<1>1. PICK n : n = Height
  OBVIOUS
<1>c. Types /\ Rising /\ Gap
  BY DEF Core, CellsInv
<1>2. /\ n \in EventFrames /\ Fr(n).op = "listen" /\ EventOK(Fr(n).ev) /\ OnRelease(n)
      /\ n \in Levels /\ n \in Nat /\ n >= 1 /\ stack \in Seq(Frames) /\ stack # <<>>
      /\ UNCHANGED <<config, now, undecided, held, timer, down, presses, seen, typed>>
      /\ \/ Becomes(n, Invoke(Fr(n).ev)) /\ UNCHANGED <<captured, lastTapped, out, lost>>
         \/ /\ undecided # 0 /\ SetIO(Capture(IO, Fr(n).ev))
            /\ \E m \in {"OTHER_KEY_DOWN", "OTHER_KEY_UP"} :
                  Becomes(n, Decide(undecided, m, Fr(n).ev))
  BY <1>1, <1>c, ListenSplits
<1>3. CASE Becomes(n, Invoke(Fr(n).ev)) /\ UNCHANGED <<captured, lastTapped, out, lost>>
  <2>1. PICK k : k = 0 /\ Collects(k)
    BY <1>3, <1>c, UntouchedCollects
  <2>2. Invoke(Fr(n).ev).op = "invoke" /\ Invoke(Fr(n).ev).ev = Fr(n).ev
    BY DEF Invoke, Frame
  <2>3. PICK ops : ops = {"invoke"} /\ NewCalls(n, ops)
    BY <1>2, <1>3, <2>2, NewCallsAre
  <2>4. Height' = n /\ n \in Levels' /\ Fr(n)'.op = "invoke" /\ Fr(n)'.ev = Fr(n).ev
    BY <1>2, <1>3, <2>2 DEF Becomes, Levels
  <2>5. \A d \in n .. Height' : d = n
    BY <1>2, <2>4
  <2>6. n \in EventFrames'
    BY <1>2, <2>4 DEF EventFrames, EventOps
  <2>7. Items' = Items
    BY <1>1, <1>2, <1>c, <2>1, <2>3, <2>4, <2>5, <2>6, ItemsStay
  <2>8. \A i : Low(i)' <=> Low(i)
    BY <1>1, <1>2, <1>c, <2>3, LowAsBefore
  <2>9. n \notin CodeFrames
    BY <1>2 DEF CodeFrames
  <2>10. \A d \in n .. Height' : Fr(d)'.op # "decide"
    BY <2>4, <2>5
  <2> QED
    BY <1>1, <1>2, <1>3, <2>3, <2>7, <2>8, <2>9, <2>10, CodeReturns
<1>4. CASE ~(Becomes(n, Invoke(Fr(n).ev)) /\ UNCHANGED <<captured, lastTapped, out, lost>>)
  <2>1. PICK m \in {"OTHER_KEY_DOWN", "OTHER_KEY_UP"} : Becomes(n, Decide(undecided, m, Fr(n).ev))
    BY <1>2, <1>4
  <2> QED
    BY <1>1, <1>2, <1>4, <2>1, ListenCodes
<1> QED
  BY <1>3, <1>4

\* A press that is about to be handled is no quick tap when its hold-tap holds while undecided.
NoQuickHold ==
  Running("invoke") =>
    LET ev == Head(stack).ev
    IN ev.key \in HoldTaps /\ ev.state /\ config[ev.key].holdWhileUndecided =>
         ~IsQuickTap(ev.key, ev.ts)

LEMMA StoreCodes ==
  ASSUME Core, Core', CodeInv, NEW n \in EventFrames, n = Height, NEW e \in Event, Fr(n).ev = e,
         Fr(n).op = "invoke", e.key \in HoldTaps, e.state = TRUE, e.t = "pos", KeymapSees(e),
         UNCHANGED <<config, now, timer, captured, lastTapped, down, presses, out, lost>>,
         undecided = 0, NEW s \in Slots, ~Used(s), undecided' = s,
         held' = [held EXCEPT ![s] = [pos |-> e.key, status |-> "UNDECIDED",
                                      ts |-> e.ts, first |-> NoPos, cancelled |-> held[s].cancelled]],
         \/ Becomes2(n, Decide(s, "KEY_DOWN", e), Schedule(s))
         \/ /\ Becomes3(n, Decide(s, "QUICK_TAP", e), Decide(s, "KEY_DOWN", e), Schedule(s))
            /\ ~config[e.key].holdWhileUndecided
  PROVE  CodeInv'
<1>c. Types /\ TypeOK /\ Rising /\ Gap /\ FinishInv /\ SlotsInv /\ LowEmpty
  BY DEF Core, CellsInv, CallInv, Types
<1>1. /\ n \in Levels /\ n \in Nat /\ n >= 1 /\ OnRelease(n) /\ e.key \in Positions
      /\ n \notin CodeFrames /\ Fr(n).op # "release"
  BY <1>c, EventFrameIs, FrameTypes DEF Levels, EventFrames, CodeFrames
<1>2. /\ s \in Nat
      /\ Decide(s, "KEY_DOWN", e).op = "decide" /\ Decide(s, "KEY_DOWN", e).moment = "KEY_DOWN"
      /\ Decide(s, "KEY_DOWN", e).s = s
      /\ Decide(s, "QUICK_TAP", e).op = "decide" /\ Decide(s, "QUICK_TAP", e).moment = "QUICK_TAP"
      /\ Decide(s, "QUICK_TAP", e).s = s /\ Schedule(s).op = "schedule"
  BY Constants, FramesAre DEF Moments
<1>3. NewCalls(n, {"decide", "schedule"})
  <2>1. ASSUME Becomes2(n, Decide(s, "KEY_DOWN", e), Schedule(s))
        PROVE  NewCalls(n, {"decide", "schedule"})
    BY <1>1, <1>2, <2>1, NewCallsAre
  <2>2. ASSUME Becomes3(n, Decide(s, "QUICK_TAP", e), Decide(s, "KEY_DOWN", e), Schedule(s))
        PROVE  NewCalls(n, {"decide", "decide", "schedule"})
    BY <1>1, <1>2, <2>2, NewCallsAre
  <2>3. {"decide", "decide", "schedule"} = {"decide", "schedule"}
    OBVIOUS
  <2> QED
    BY <2>1, <2>2, <2>3
<1>4. PICK ops : ops = {"decide", "schedule"} /\ NewCalls(n, ops)
  BY <1>3
<1>5. /\ n + 1 \in Levels' /\ Fr(n + 1)'.op = "decide" /\ Fr(n + 1)'.moment = "KEY_DOWN"
      /\ Fr(n + 1)'.s = s
      /\ \A d \in n .. Height' :
           Fr(d)'.op = "decide" => /\ Fr(d)'.s = s
                                   /\ Fr(d)'.moment = "QUICK_TAP" => ~config[e.key].holdWhileUndecided
  <2>1. CASE Becomes2(n, Decide(s, "KEY_DOWN", e), Schedule(s))
    <3>1. Height' = n + 1 /\ \A d \in n .. Height' : d = n \/ d = n + 1
      BY <1>1, <2>1 DEF Becomes2
    <3> QED
      BY <1>1, <1>2, <2>1, <3>1 DEF Becomes2, Levels
  <2>2. CASE Becomes3(n, Decide(s, "QUICK_TAP", e), Decide(s, "KEY_DOWN", e), Schedule(s))
             /\ ~config[e.key].holdWhileUndecided
    <3>1. Height' = n + 2 /\ \A d \in n .. Height' : d = n \/ d = n + 1 \/ d = n + 2
      BY <1>1, <2>2 DEF Becomes3
    <3> QED
      BY <1>1, <1>2, <2>2, <3>1 DEF Becomes3, Levels
  <2> QED
    BY <2>1, <2>2
<1>6. /\ \A t \in Slots : t # s => held'[t] = held[t]
      /\ held'[s].pos = e.key /\ held'[s].status = "UNDECIDED" /\ ~held'[s].cancelled
  <2>1. ~held[s].cancelled
    BY <1>c DEF SlotsInv, CancelledDone
  <2>2. held \in [Slots -> [pos : HoldTaps \cup {NoPos}, status : Statuses, ts : Nat,
                            first : Positions \cup {NoPos}, cancelled : BOOLEAN]]
    BY <1>c DEF TypeOK
  <2> QED
    BY <2>1, <2>2
<1>7. Bound' = Bound
  <2>1. ASSUME NEW t \in Slots, t # s
        PROVE  Pressed(t)' = Pressed(t)
    <3>1. ~(Used(t) /\ held[t].status = "UNDECIDED")
      BY <1>c, Constants DEF SlotsInv, UndecidedIsUnique, Used
    <3> QED
      BY <1>6, <2>1, <3>1, PressedStays
  <2>2. Pressed(s) = {}
    BY DEF Pressed
  <2>3. Pressed(s)' = {}
    <3>1. Pending(s)'
      BY <1>5 DEF Pending
    <3> QED
      BY <1>6, <3>1 DEF Pressed
  <2>4. \A p \in Plain : p \in seen' <=> p \in seen
    BY NoPosIs DEF KeymapSees
  <2>5. \A t \in Slots : Pressed(t)' = Pressed(t)
    BY <2>1, <2>2, <2>3
  <2> QED
    BY <2>4, <2>5, BoundStays
<1>8. Items' \subseteq Items
  <2>1. PICK k : k = 1 /\ Collects(k)
    BY <1>c, UntouchedCollectsOne
  <2>2. Items' = Items \ {Own(n)}
    BY <1>4, <1>c, <2>1, ItemsHandled DEF EventOps
  <2> QED
    BY <2>2
<1>9. \A d \in 1 .. n - 1 : Fr(d).op = "finish" => held'[Fr(d).s] = held[Fr(d).s]
  <2> SUFFICES ASSUME NEW d \in 1 .. n - 1, Fr(d).op = "finish"
               PROVE  held'[Fr(d).s] = held[Fr(d).s]
    OBVIOUS
  <2>1. d \in Levels
    BY <1>1 DEF Levels
  <2>2. Used(Fr(d).s) /\ Fr(d).s \in Slots
    BY <1>c, <2>1, FrameTypes DEF FinishInv, FrameShape
  <2> QED
    BY <1>6, <2>2
<1>10. \A i \in Cells : Low(i) => captured[i] = NoEvent
  BY <1>c DEF LowEmpty, Full
<1>11. \A x \in CodeItems : Owner(x.key) # e.key
  <2> SUFFICES ASSUME NEW x \in CodeItems, Owner(x.key) = e.key
               PROVE  FALSE
    OBVIOUS
  <2>1. Own(n) \in Items /\ Own(n).at = Place(n) /\ Own(n).key = e.key
    BY <1>c, OwnIs
  <2>2. x.at < Place(n)
    BY <2>1 DEF CodeInv, BeforeEvents
  <2>3. x \in CodesIn(captured)
    BY <1>1, <1>c, NoCodeFrames
  <2>4. x.at \in Cells /\ captured[x.at].t = "code"
    BY <1>c, <2>3, CodesAreItems DEF TypeOK, Types, CapturedOK
  <2>5. Place(n) \in Nat /\ x.at \in Nat
    <3>1. Place(n) \in 1 .. MaxCaptured + 1
      BY <1>1, <1>c, PlaceIs
    <3> QED
      BY <2>4, <3>1, Constants
  <2>6. Low(x.at)
    BY <1>1, <1>c, <2>2, <2>4, <2>5, PlaceIs
  <2> QED
    BY <1>10, <2>4, <2>6 DEF NoEvent
<1>12. \A t \in Slots : Unsettled(t)' => \A x \in CodeItems : Owner(x.key) # held'[t].pos
  <2>1. ASSUME NEW t \in Slots, t # s
        PROVE  (Unsettled(t)' <=> Unsettled(t)) /\ held'[t].pos = held[t].pos
    BY <1>6, <2>1, UnsettledStays
  <2> QED
    BY <1>6, <1>11, <2>1 DEF CodeInv, Quiet
<1>13. CancelledTold'
  <2>1. ASSUME NEW t \in Slots, held'[t].cancelled
        PROVE  ~Unsettled(t)'
    <3>1. t # s
      BY <1>6, <2>1
    <3>2. held[t].cancelled /\ (Unsettled(t)' <=> Unsettled(t))
      BY <1>6, <2>1, <3>1, UnsettledStays
    <3> QED
      BY <3>2 DEF CodeInv, CancelledTold
  <2> QED
    BY <2>1 DEF CancelledTold, Slots
<1>14. QuickTold'
  <2>1. \A d \in Levels' : d \in 1 .. n - 1 \/ d \in n .. Height'
    BY <1>1 DEF Levels
  <2>2. ASSUME NEW d \in 1 .. n - 1
        PROVE  ~(Fr(d)'.op = "decide" /\ Fr(d)'.moment = "QUICK_TAP")
    <3>1. Fr(d)' = Fr(d) /\ d \in Levels /\ d # Height
      BY <1>1, <1>4 DEF NewCalls, Kept, Levels
    <3> QED
      BY <1>c, <3>1, FrameTypes DEF FrameShape, DecideShape
  <2>3. Cfg(s)' = config[e.key]
    BY <1>6 DEF Cfg
  <2> QED
    BY <1>5, <2>1, <2>2, <2>3 DEF QuickTold, Cfg
<1>15. HeldClear'
  <2>1. \A i : Low(i)' <=> Low(i)
    BY <1>1, <1>4, <1>c, LowAsBefore
  <2> QED
    BY <1>10, <2>1 DEF HeldClear, NoEvent, Cells
<1> QED
  BY <1>1, <1>4, <1>7, <1>8, <1>9, <1>12, <1>13, <1>14, <1>15, CodeStays

LEMMA InvokePressedCodes ==
  ASSUME Core, Core', CodeInv, NoQuickHold, InvokePressed, lost' = {}
  PROVE  CodeInv'
<1>1. PICK n : n = Height
  OBVIOUS
<1>2. PICK e : e = Head(stack).ev
  OBVIOUS
<1>c. Types /\ Rising /\ Gap
  BY DEF Core, CellsInv
<1>3. /\ n \in EventFrames /\ Fr(n).ev = e /\ Fr(n).op = "invoke" /\ n \in Levels /\ n \in Nat
      /\ n >= 1 /\ e.key \in HoldTaps /\ e.state = TRUE /\ e \in Event /\ e.t = "pos" /\ KeymapSees(e)
      /\ UNCHANGED <<config, now, timer, captured, lastTapped, down, presses, out, lost>>
      /\ \/ Returned(n) /\ UNCHANGED <<held, undecided>>
         \/ /\ undecided = 0
            /\ \E s \in Slots :
                 /\ ~Used(s) /\ undecided' = s
                 /\ held' = [held EXCEPT ![s] = [pos |-> e.key, status |-> "UNDECIDED",
                               ts |-> e.ts, first |-> NoPos, cancelled |-> held[s].cancelled]]
                 /\ \/ Becomes2(n, Decide(s, "KEY_DOWN", e), Schedule(s))
                    \/ /\ Becomes3(n, Decide(s, "QUICK_TAP", e), Decide(s, "KEY_DOWN", e), Schedule(s))
                       /\ IsQuickTap(e.key, e.ts)
  BY <1>1, <1>2, <1>c, PressedSplits
<1>4. CASE Returned(n) /\ UNCHANGED <<held, undecided>>
  <2>1. PICK k : k = 1 /\ Collects(k)
    BY <1>3, <1>c, UntouchedCollectsOne
  <2>2. PICK ops : ops = {} /\ NewCalls(n, ops)
    BY <1>3, <1>4, NewCallsAre
  <2>3. Items' \subseteq Items
    <3>1. Items' = Items \ {Own(n)}
      BY <1>1, <1>3, <1>c, <2>1, <2>2, ItemsHandled DEF EventOps
    <3> QED
      BY <3>1
  <2>4. \A d \in n .. Height' : FALSE
    BY <1>3, <1>4 DEF Returned
  <2>5. \A i : Low(i)' <=> Low(i)
    BY <1>1, <1>3, <1>c, <2>2, LowAsBefore
  <2>6. n \notin CodeFrames
    BY <1>3 DEF CodeFrames
  <2>7. \A p \in Plain : p \in seen' <=> p \in seen
    BY <1>3, NoPosIs DEF KeymapSees
  <2> QED
    BY <1>1, <1>3, <1>4, <2>2, <2>3, <2>4, <2>5, <2>6, <2>7, CodeReturns
<1>5. CASE ~(Returned(n) /\ UNCHANGED <<held, undecided>>)
  <2>1. config[e.key].holdWhileUndecided => ~IsQuickTap(e.key, e.ts)
    BY <1>2, <1>3 DEF NoQuickHold, InvokePressed
  <2>2. PICK s \in Slots :
           /\ ~Used(s) /\ undecided' = s
           /\ held' = [held EXCEPT ![s] = [pos |-> e.key, status |-> "UNDECIDED",
                         ts |-> e.ts, first |-> NoPos, cancelled |-> held[s].cancelled]]
           /\ \/ Becomes2(n, Decide(s, "KEY_DOWN", e), Schedule(s))
              \/ /\ Becomes3(n, Decide(s, "QUICK_TAP", e), Decide(s, "KEY_DOWN", e), Schedule(s))
                 /\ IsQuickTap(e.key, e.ts)
    BY <1>3, <1>5
  <2> QED
    BY <1>1, <1>3, <1>5, <2>1, <2>2, StoreCodes
<1> QED
  BY <1>4, <1>5

\* The call about an event returns after keycodes were emitted for it.
LEMMA HeldEmits ==
  ASSUME Core, CodeInv, NEW n \in Levels, n = Height, OnRelease(n), Fr(n).op # "release",
         NEW ops, NewCalls(n, ops), "release" \notin ops, UNCHANGED <<config, undecided>>,
         undecided # 0 => held'[undecided].pos = held[undecided].pos,
         NEW io, NEW dn, NEW P, NEW k, Ready(io, dn, P, Place(n), undecided, k), SetIO(io)
  PROVE  HeldClear'
<1>c. Types /\ TypeOK /\ Rising /\ Gap /\ UndecidedIsUnique
  BY DEF Core, CellsInv, SlotsInv, Types
<1>1. \A i : Low(i)' <=> Low(i)
  BY <1>c, LowAsBefore
<1>2. ASSUME undecided # 0, Cfg(undecided).holdWhileUndecided, NEW i \in Cells, Low(i), captured'[i].t = "code"
      PROVE  FALSE
  <2>1. undecided \in Slots
    BY <1>2, <1>c, Constants DEF TypeOK, Slots
  <2>2. Passes(undecided)
    BY <1>2, <1>c, <2>1 DEF Passes, UndecidedIsUnique
  <2>3. Item(i, captured'[i]) \in CodesIn(io.cap)
    BY <1>2 DEF CodesIn, SetIO
  <2>4. Place(n) < Item(i, captured'[i]).at
    BY <2>2, <2>3 DEF Ready
  <2>5. Place(n) < i
    BY <2>4 DEF Item
  <2>6. i <= Place(n)
    BY <1>2, <1>c, PlaceIs
  <2>7. Place(n) \in 1 .. MaxCaptured + 1 /\ i \in Nat
    BY <1>c, PlaceIs, Constants
  <2> QED
    BY <2>5, <2>6, <2>7, Constants
<1> QED
  BY <1>1, <1>2, HeldStays

LEMMA FinishesLater ==
  ASSUME Core, NEW n \in Levels, n = Height, OnRelease(n), Fr(n).op # "release",
         NEW d \in 1 .. n - 1, Fr(d).op = "finish"
  PROVE  Place(n) < Place(d) /\ Place(d) \in Nat /\ d \in Levels /\ Fr(d).s \in Slots
<1>c. Types /\ Rising /\ Gap
  BY DEF Core, CellsInv
<1>1. n \in Nat /\ d \in Levels /\ d < n
  BY <1>c, FrameTypes DEF Levels
<1>2. OnRelease(d) /\ Fr(d).s \in Slots
  BY <1>c, <1>1, FrameTypes DEF FrameShape
<1>3. Place(n) < Place(d) /\ Place(d) \in 1 .. MaxCaptured + 1
  BY <1>1, <1>2, <1>c, PlacesRise
<1> QED
  BY <1>1, <1>2, <1>3, Constants

LEMMA InvokePlainCodes ==
  ASSUME Core, Core', CodeInv, InvokePlain, lost' = {}
  PROVE  CodeInv'
<1>1. PICK n : n = Height
  OBVIOUS
<1>2. PICK e : e = Head(stack).ev
  OBVIOUS
<1>c. Types /\ TypeOK /\ Rising /\ Gap /\ RoomLeft /\ SlotsInv /\ ItemsInv /\ OneSlotPerKey
  BY DEF Core, CellsInv, RoomInv, Types, SlotsInv
<1>3. /\ n \in Levels /\ n \in Nat /\ n >= 1 /\ Fr(n).ev = e /\ Fr(n).op = "invoke" /\ FrameShape(n)
      /\ stack \in Seq(Frames) /\ stack # <<>>
  BY <1>1, <1>2, <1>c, Top DEF InvokePlain, Levels
<1>4. /\ n \in EventFrames /\ e.key \in Plain /\ e.state \in BOOLEAN /\ e.ts \in Nat
      /\ Key(e.key) \in Codes /\ OnRelease(n) /\ n \notin CodeFrames
  BY <1>2, <1>3, CodesAre DEF InvokePlain, FrameShape, EventOps, EventFrames, EventOK, Event, CodeFrames
<1>5. Returned(n) /\ KeymapSees(e) /\ UNCHANGED <<config, now, timer, held, undecided>>
  BY <1>1, <1>2, <1>3, Calls0 DEF InvokePlain
<1>6. PICK ops : ops = {} /\ NewCalls(n, ops)
  BY <1>3, <1>5, NewCallsAre
<1>7. PICK code \in Codes : code = Key(e.key) /\ Owner(code) = e.key
  BY <1>4, CodesDiffer
<1>8. PICK u : u = undecided
  OBVIOUS
<1>9. PICK state \in BOOLEAN : state = e.state
  BY <1>4
<1>10. PICK ts \in Nat : ts = e.ts
  BY <1>4
<1>11. PICK new : new = Emit(IO, u, code, state, ts)
  OBVIOUS
<1>12. SetIO(new)
  BY <1>2, <1>7, <1>8, <1>9, <1>10, <1>11 DEF InvokePlain
<1>13. new.lost = {}
  BY <1>12 DEF SetIO
<1>14. PICK P : P = {e.key}
  OBVIOUS
<1>15. Own(n) \in Items /\ Own(n).at = Place(n) /\ Own(n).key = e.key /\ Own(n).state = e.state
  BY <1>3, <1>4, <1>c, OwnIs
<1>16. \A x \in CodeItems : Owner(x.key) \in P => x.at <= Place(n)
  <2> SUFFICES ASSUME NEW x \in CodeItems, Owner(x.key) = e.key
               PROVE  x.at <= Place(n)
    BY <1>14
  <2>1. x.at < Place(n)
    BY <1>15 DEF CodeInv, BeforeEvents
  <2>2. x \in CodesIn(captured)
    BY <1>1, <1>4, <1>c, NoCodeFrames
  <2>3. x.at \in Nat
    BY <1>c, <2>2, CodesAreItems, Constants DEF TypeOK, Types, CapturedOK
  <2>4. Place(n) \in 1 .. MaxCaptured + 1
    BY <1>1, <1>3, <1>4, <1>c, PlaceIs
  <2> QED
    BY <2>1, <2>3, <2>4, Constants
<1>17. PICK k \in Nat : k = 1
  OBVIOUS
<1>18. undecided # 0 /\ n > 1 => Free(captured, Fr(n - 1).s, k)
  <2> SUFFICES ASSUME undecided # 0, n > 1
               PROVE  Free(captured, Fr(n - 1).s, k)
    OBVIOUS
  <2>1. Free(captured, Fr(n - 1).s, Cardinality(Silents) + 1) /\ Cardinality(Silents) \in Nat
    BY <1>1, <1>3, <1>4, <1>c, RoomBefore
  <2>2. Fr(n - 1).s \in Nat
    BY <1>1, <1>3, <1>4, <1>c, TopReleaseIs
  <2>3. k <= Cardinality(Silents) + 1 /\ Cardinality(Silents) + 1 \in Nat
    BY <1>17, <2>1
  <2> QED
    BY <2>1, <2>2, <2>3, FreeLess
<1>19. Fr(n).op # "release"
  BY <1>3
<1>20. PICK q \in Nat : q = Place(n)
  BY <1>1, <1>3, <1>4, <1>c, PlaceIs, Constants
<1>21. Ready(IO, Bound, P, q, u, k)
  BY <1>1, <1>3, <1>4, <1>8, <1>16, <1>18, <1>19, <1>20, ReadyNow
<1>22. PICK io : io = IO
  OBVIOUS
<1>23. PICK z \in Nat : z = 0
  OBVIOUS
<1>24. Ready(io, Bound, P, q, u, z + 1)
  BY <1>17, <1>21, <1>22, <1>23
<1>25. FirstOf(Items, Own(n))
  BY <1>1, <1>3, <1>4, InvokeFirst
<1>26. e.state <=> e.key \notin seen
  BY <1>15, <1>25, <1>c DEF ItemsInv, Alternates
<1>27. state <=> code \notin Bound
  BY <1>4, <1>7, <1>9, <1>26, <1>c, BoundIs
<1>28. PICK dn : dn = Bound
  OBVIOUS
<1>29. Ready(new, Tells(dn, code, state), P, q, u, z)
  BY <1>7, <1>11, <1>13, <1>14, <1>22, <1>24, <1>27, <1>28, EmitReady
<1>30. Bound' = Tells(Bound, code, state)
  <2>1. \A d \in n .. Height' : FALSE
    BY <1>3, <1>5 DEF Returned
  <2>2. \A t : Pending(t)' <=> Pending(t)
    BY <1>1, <1>3, <1>6, <1>c, <2>1, PendingStays
  <2>3. \A t \in Slots : Pressed(t)' = Pressed(t)
    BY <1>5, <2>2, PressedStays
  <2>4. \A t \in Slots : code \notin Pressed(t)
    BY <1>4, <1>7, <1>c, PressedIs, NoPosIs
  <2>5. \A p : p \in seen' <=> IF p = e.key THEN e.state = TRUE ELSE p \in seen
    BY <1>4, <1>5 DEF KeymapSees
  <2>6. \A c : c \in Bound <=> (\E p \in Plain : p \in seen /\ c = Key(p)) \/ \E t \in Slots : c \in Pressed(t)
    BY DEF Bound
  <2>7. \A c : c \in Bound' <=> (\E p \in Plain : p \in seen' /\ c = Key(p)) \/ \E t \in Slots : c \in Pressed(t)
    BY <2>3 DEF Bound, Key, Slots
  <2>8. \A c : (\E p \in Plain : p \in seen' /\ c = Key(p))
                 <=> IF c = code THEN state ELSE \E p \in Plain : p \in seen /\ c = Key(p)
    BY <1>4, <1>7, <1>9, <2>5, CodesDiffer
  <2> QED
    BY <2>4, <2>6, <2>7, <2>8 DEF Tells
<1>31. Ready(new, Bound', P, q, u, 0)
  BY <1>23, <1>28, <1>29, <1>30
<1>32. Items' = Items \ {Own(n)}
  <2>1. Collects(1)
    BY <1>1, <1>7, <1>8, <1>9, <1>10, <1>11, <1>12, <1>c, EmitCollects
  <2> QED
    BY <1>1, <1>4, <1>6, <1>c, <1>17, <2>1, ItemsHandled
<1>33. \A y \in Items' : y.key \in P => q < y.at
  <2> SUFFICES ASSUME NEW y \in Items, y # Own(n), y.key = e.key
               PROVE  q < y.at
    BY <1>14, <1>32
  <2>1. Place(n) <= y.at
    BY <1>3 DEF Core, CallInv, InvokeInv
  <2>2. y.at # Place(n)
    BY <1>15, <1>c DEF ItemsInv, OnePerPlace
  <2>3. y.at \in Nat
    BY <1>c, ItemsTyped, ItemIs
  <2> QED
    BY <1>20, <2>1, <2>2, <2>3
<1>34. \A d \in 1 .. n - 1 : Fr(d).op = "finish" => q < Place(d) /\ Place(d) \in Nat
  BY <1>1, <1>3, <1>4, <1>19, <1>20, FinishesLater
<1>35. \A t \in Slots : (Unsettled(t)' <=> Unsettled(t)) /\ held'[t].pos = held[t].pos
  BY <1>5, UnsettledStays
<1>36. CancelledTold'
  BY <1>5, <1>35 DEF CodeInv, CancelledTold, Slots
<1>37. QuickTold'
  <2>1. \A d \in n .. Height' : FALSE
    BY <1>3, <1>5 DEF Returned
  <2> QED
    BY <1>1, <1>3, <1>6, <1>c, <2>1, QuickStays
<1>38. HeldClear'
  BY <1>1, <1>3, <1>4, <1>5, <1>6, <1>8, <1>12, <1>19, <1>20, <1>31, HeldEmits
<1>39. \A s \in Slots : Unsettled(s)' => held'[s].pos \notin P /\ \A x \in CodeItems : Owner(x.key) # held'[s].pos
  <2> SUFFICES ASSUME NEW s \in Slots, Unsettled(s)
               PROVE  held[s].pos \notin P /\ \A x \in CodeItems : Owner(x.key) # held[s].pos
    BY <1>35
  <2>1. held[s].pos \in HoldTaps
    BY <1>c, SlotIs DEF Unsettled
  <2> QED
    BY <1>4, <1>14, <2>1, NoPosIs DEF CodeInv, Quiet
<1>40. Items' \subseteq Items /\ ops \cap {"raise", "finish"} = {}
  BY <1>6, <1>32
<1>41. \A d \in 1 .. n - 1 : Fr(d).op = "finish" =>
           /\ held'[Fr(d).s].pos = held[Fr(d).s].pos /\ held'[Fr(d).s].cancelled = held[Fr(d).s].cancelled
           /\ held[Fr(d).s].pos \in P => q < Place(d) /\ Place(d) \in Nat
  BY <1>5, <1>34
<1> QED
  BY <1>1, <1>3, <1>4, <1>6, <1>12, <1>31, <1>33, <1>36, <1>37, <1>38, <1>39, <1>40, <1>41, CodeAfter

\* A captured keycode is raised again: it goes to its consumer, or into an earlier cell.
LEMMA PassedClear ==
  ASSUME Core, CodeInv, Passes(undecided), NEW i \in Cells, Low(i)
  PROVE  captured[i].t # "code"
<1>1. captured[i].t = "code" => Full(i)
  BY DEF Full, NoEvent
<1> QED
  BY <1>1 DEF Core, CellsInv, LowEmpty, CodeInv, HeldClear, Passes

LEMMA FirstCode ==
  ASSUME Core, CodeInv, NEW n \in CodeFrames, n = Height, NEW x, x = Item(Place(n), Fr(n).ev)
  PROVE  /\ CodeItems = CodesIn(captured) \cup {x} /\ x \notin CodesIn(captured)
         /\ x.at = Place(n) /\ x.key = Fr(n).ev.key /\ x.state = Fr(n).ev.state
         /\ x.key \in Codes /\ x.state \in BOOLEAN /\ x.at \in Nat
         /\ \A y \in CodesIn(captured) : y.at \in Cells /\ y.at \in Nat /\ y.at # x.at
               /\ captured[y.at].t = "code" /\ (y.at < x.at => Low(y.at))
         /\ OnRelease(n) /\ n \in Levels /\ n \in Nat /\ n >= 1 /\ Fr(n).op = "raise" /\ Fr(n).ev.t = "code"
         /\ EventOK(Fr(n).ev) /\ Fr(n).ev \in Event
<1>c. Types /\ Rising /\ Gap
  BY DEF Core, CellsInv
<1>1. /\ n \in Levels /\ n \in Nat /\ n >= 1 /\ Fr(n).op = "raise" /\ Fr(n).ev.t = "code"
      /\ OnRelease(n) /\ EventOK(Fr(n).ev) /\ Fr(n).ev \in Event
  BY <1>c, FrameTypes DEF CodeFrames, FrameShape, EventOps, EventOK, Levels
<1>2. \A d \in Levels : Fr(d).op = "raise" => d = n
  BY <1>c, FrameTypes DEF FrameShape
<1>3. CodeFrames = {n}
  BY <1>2 DEF CodeFrames
<1>4. CodeItems = CodesIn(captured) \cup {x}
  BY <1>3 DEF CodeItems
<1>5. /\ x.at = Place(n) /\ x.key = Fr(n).ev.key /\ x.state = Fr(n).ev.state
      /\ x.key \in Codes /\ x.state \in BOOLEAN
  BY <1>1 DEF Item, EventOK, Event
<1>6. /\ Place(n) \in 1 .. MaxCaptured + 1 /\ \A i \in Cells : Low(i) <=> i <= Place(n)
      /\ n = 1 => Place(n) = MaxCaptured + 1
      /\ n > 1 => Place(n) \in Cells /\ ~Full(Place(n))
  BY <1>1, <1>c, PlaceIs
<1>7. Place(n) \in Nat
  BY <1>6, Constants
<1>8. ASSUME NEW y \in CodesIn(captured)
      PROVE  /\ y.at \in Cells /\ y.at \in Nat /\ y.at # x.at /\ captured[y.at].t = "code"
             /\ y.at < x.at => Low(y.at)
  <2>1. y.at \in Cells /\ captured[y.at].t = "code"
    BY <1>c, CodesAreItems DEF TypeOK, Types, CapturedOK
  <2>2. Full(y.at) /\ y.at \in Nat /\ y.at # MaxCaptured + 1
    BY <2>1, Constants DEF Full, NoEvent, Cells
  <2>3. y.at # Place(n)
    BY <1>1, <1>6, <2>2
  <2>4. y.at < x.at => Low(y.at)
    BY <1>5, <1>6, <1>7, <2>1, <2>2
  <2> QED
    BY <1>5, <2>1, <2>2, <2>3, <2>4
<1> QED
  BY <1>1, <1>4, <1>5, <1>7, <1>8

\* What becomes of the keycode that is raised
LEMMA RaisedCode ==
  ASSUME Core, CodeInv, NEW n \in CodeFrames, n = Height, NEW x, x = Item(Place(n), Fr(n).ev),
         SetIO(Emit(IO, undecided, Fr(n).ev.key, Fr(n).ev.state, Fr(n).ev.ts)), lost' = {},
         CodeItems' = CodesIn(captured')
  PROVE  /\ Told(out', CodeItems', Bound)
         /\ \A z \in CodeItems' : z.at \in Nat /\ \E y \in CodeItems : z.key = y.key /\ z.at <= y.at /\ y.at \in Nat
         /\ Passes(undecided) => captured' = captured
<1> DEFINE L == CodeItems
           u == undecided
<1>e. PICK ev : ev = Fr(n).ev
  OBVIOUS
<1>c. Types /\ TypeOK /\ Rising /\ Gap /\ Packed /\ RoomLeft
  BY DEF Core, CellsInv, RoomInv, Types
<1>1. /\ L = CodesIn(captured) \cup {x} /\ x \notin CodesIn(captured)
      /\ x.at = Place(n) /\ x.key = ev.key /\ x.state = ev.state
      /\ x.key \in Codes /\ x.state \in BOOLEAN /\ x.at \in Nat
      /\ \A y \in CodesIn(captured) : y.at \in Cells /\ y.at \in Nat /\ y.at # x.at
            /\ captured[y.at].t = "code" /\ (y.at < x.at => Low(y.at))
      /\ OnRelease(n) /\ n \in Levels /\ n \in Nat /\ n >= 1 /\ Fr(n).op = "raise" /\ ev.t = "code"
      /\ EventOK(ev) /\ ev \in Event
  BY <1>e, FirstCode
<1>2. /\ \A c \in Codes : out[c] \in {0, 1}
      /\ L \subseteq Placed(Codes) /\ OnePerPlace(L) /\ (\A y \in L : Kind[y.key] = "mod")
      /\ Alternates(Codes, L, On(out), Bound)
  BY DEF CodeInv, Told
<1>3. Kind[ev.key] = "mod" /\ x \in L
  BY <1>1, <1>2
<1>4. PICK io1 : io1 = IO
  OBVIOUS
<1>5. IOOK(io1) /\ io1.cap = captured /\ io1.out = out /\ out \in [Codes -> Int]
      /\ captured \in [Cells -> Event]
  BY <1>4, <1>c, IOIs DEF IO, TypeOK
<1>6. Emit(IO, u, ev.key, ev.state, ev.ts) =
        IF ~Passes(u) THEN Capture(io1, ev) ELSE [io1 EXCEPT !.out[ev.key] = @ + (IF ev.state THEN 1 ELSE -1)]
  <2>1. [t |-> "code", key |-> ev.key, state |-> ev.state, ts |-> ev.ts] = ev
    BY <1>1 DEF Event
  <2>2. ~(ev.state /\ Kind[ev.key] = "key" /\ ev.ts > io1.last.ts)
    BY <1>3
  <2> QED
    BY <1>3, <1>4, <2>1, <2>2 DEF Emit, Passes
<1>7. CASE Passes(u)
  <2>1. captured' = captured /\ out' = [out EXCEPT ![ev.key] = @ + (IF ev.state THEN 1 ELSE -1)]
    BY <1>5, <1>6, <1>7, <1>e DEF SetIO, IOOK, IOs
  <2>2. \A y \in CodesIn(captured) : x.at < y.at
    BY <1>1, <1>7, PassedClear
  <2>3. FirstOf(L, x)
    BY <1>1, <2>2 DEF FirstOf
  <2>4. x.state <=> x.key \notin On(out)
    BY <1>2, <1>3, <2>3 DEF Alternates
  <2>5. \A c \in Codes : out'[c] = IF c = x.key THEN (IF x.state THEN 1 ELSE 0) ELSE out[c]
    BY <1>1, <1>2, <1>5, <2>1, <2>4 DEF On
  <2>6. Handles(x, On(out), On(out'))
    BY <1>1, <2>5 DEF Handles, On
  <2>7. CodeItems' = L \ {x}
    BY <1>1, <2>1
  <2>8. PICK sn, sw : sn = On(out) /\ sw = On(out')
    OBVIOUS
  <2>9. PICK M : M = L
    OBVIOUS
  <2>10. Alternates(Codes, M \ {x}, sw, Bound)
    BY <1>2, <1>3, <2>3, <2>6, <2>8, <2>9, HandledAlternates
  <2>11. Alternates(Codes, CodeItems', On(out'), Bound)
    BY <2>7, <2>8, <2>9, <2>10
  <2>12. OnePerPlace(CodeItems')
    BY <1>2, <2>7 DEF OnePerPlace
  <2>13. \A c \in Codes : out'[c] \in {0, 1}
    BY <1>2, <2>5
  <2>14. Told(out', CodeItems', Bound)
    BY <1>2, <2>7, <2>11, <2>12, <2>13 DEF Told
  <2>15. \A z \in CodeItems' : z \in L /\ z.at \in Nat
    BY <1>1, <2>7
  <2> QED
    BY <2>1, <2>14, <2>15
<1>8. CASE ~Passes(u)
  <2>1. PICK new : new = Capture(io1, ev)
    OBVIOUS
  <2>2. captured' = new.cap /\ out' = new.out /\ new.lost = {}
    BY <1>6, <1>8, <1>e, <2>1 DEF SetIO
  <2>3. PICK f \in Cells : /\ captured[f] = NoEvent /\ \A i \in Cells : i < f => captured[i] # NoEvent
                           /\ captured' = [captured EXCEPT ![f] = ev]
    <3>1. /\ IOOK(Capture(io1, ev))
          /\ Capture(io1, ev).lost = {} =>
               /\ io1.lost = {}
               /\ \E f \in Cells : /\ io1.cap[f] = NoEvent /\ \A i \in Cells : i < f => io1.cap[i] # NoEvent
                                   /\ Capture(io1, ev).cap = [io1.cap EXCEPT ![f] = ev]
      BY <1>1, <1>5, Captures
    <3> QED
      BY <1>5, <2>1, <2>2, <3>1
  <2>4. out' = out
    BY <1>5, <2>1, <2>2 DEF Capture, IOOK, IOs
  <2>5. PICK y : y = Item(f, ev)
    OBVIOUS
  <2>6. CodesIn(captured') = CodesIn(captured) \cup {y} /\ \A z \in CodesIn(captured) : z.at # f
    <3>1. PICK cap \in [Cells -> Event] : cap = captured /\ cap[f] = NoEvent
      BY <1>5, <2>3
    <3>2. LET taken == [cap EXCEPT ![f] = ev]
          IN /\ ev.t = "code" => CodesIn(taken) = CodesIn(cap) \cup {Item(f, ev)}
             /\ ev.t # "code" => CodesIn(taken) = CodesIn(cap)
             /\ \A z \in CodesIn(cap) : z.at # f
      BY <1>1, <3>1, CodeCaptured
    <3> QED
      BY <1>1, <2>3, <2>5, <3>1, <3>2
  <2>7. y = [at |-> f, key |-> x.key, state |-> x.state] /\ y.at = f /\ y.key = x.key
    BY <1>1, <2>5 DEF Item
  <2>8. CodeItems' = Moves(L, x, f)
    BY <1>1, <2>6, <2>7 DEF Moves
  <2>9. f < x.at
    <3>1. CASE n = 1
      <4>1. Place(n) = MaxCaptured + 1
        BY <1>1, <1>c, <3>1, PlaceIs
      <4> QED
        BY <1>1, <4>1, Constants DEF Cells
    <3>2. CASE n > 1
      <4>1. undecided # 0
        BY <1>8 DEF Passes
      <4>2. Free(captured, Fr(n - 1).s, Cardinality(Silents) + 2) /\ Cardinality(Silents) \in Nat
        BY <1>1, <1>c, <3>2, <4>1, RoomBefore DEF EventOps
      <4>3. Place(n) = Fr(n - 1).s - 1
        BY <1>1, <1>c, <3>2, PlaceIs
      <4>4. PICK t \in Nat, c \in Nat : t = Fr(n - 1).s /\ c = Cardinality(Silents) /\ t <= MaxCaptured + 1
        BY <1>1, <1>c, <3>2, <4>2, TopReleaseIs, Constants
      <4>5. t - (c + 2) >= 1 /\ \A i \in t - (c + 2) .. t - 1 : captured[i] = NoEvent
        BY <4>2, <4>4 DEF Free
      <4>6. t - 2 \in t - (c + 2) .. t - 1 /\ t - 2 \in Cells
        BY <4>4, <4>5, Constants DEF Cells
      <4>7. captured[t - 2] = NoEvent
        BY <4>5, <4>6
      <4>8. ~(t - 2 < f)
        BY <2>3, <4>6, <4>7
      <4>9. f \in Nat
        BY Constants
      <4> QED
        BY <1>1, <4>3, <4>4, <4>8, <4>9
    <3> QED
      BY <1>1, <3>1, <3>2
  <2>10. CanMove(L, x, f)
    <3>1. ASSUME NEW z \in L, f <= z.at, z.at < x.at
          PROVE  FALSE
      <4>1. z \in CodesIn(captured) /\ z.at # f
        BY <1>1, <2>6, <3>1
      <4>2. z.at \in Cells /\ Low(z.at) /\ captured[z.at].t = "code"
        BY <1>1, <3>1, <4>1
      <4>3. Full(z.at) /\ ~Full(f) /\ f < z.at
        BY <1>1, <2>3, <3>1, <4>1, <4>2, Constants DEF Full, NoEvent
      <4>4. PICK d \in Levels : IsRelease(d) /\ f < Fr(d).s /\ Fr(d).s <= z.at
        BY <1>c, <4>2, <4>3 DEF Packed
      <4>5. z.at < Fr(d).s
        BY <4>2, <4>4 DEF Low
      <4>6. Fr(d).s \in Nat /\ z.at \in Nat
        BY <1>c, <4>2, <4>4, ReleaseCells, Constants
      <4> QED
        BY <4>4, <4>5, <4>6
    <3>2. f \in 1 .. MaxCaptured + 1
      BY Constants DEF Cells
    <3> QED
      BY <1>3, <2>9, <3>1, <3>2 DEF CanMove
  <2>11. PICK M : M = L
    OBVIOUS
  <2>12. CanMove(M, x, f) /\ M \subseteq Placed(Codes) /\ OnePerPlace(M)
    BY <1>2, <2>10, <2>11
  <2>13. /\ Moves(M, x, f) \subseteq Placed(Codes) /\ OnePerPlace(Moves(M, x, f))
         /\ \E g : Renames(g, M, Moves(M, x, f))
                   /\ \A z \in M : g[z] = IF z = x THEN [at |-> f, key |-> x.key, state |-> x.state]
                                           ELSE z
    <3> HIDE DEF L, u
    <3> QED
      BY ONLY <2>12, MoveRenames
  <2>14. PICK N : N = Moves(M, x, f)
    OBVIOUS
  <2>15. PICK g : Renames(g, M, N)
    BY <2>13, <2>14
  <2>16. PICK sn, dn : sn = On(out) /\ dn = Bound
    OBVIOUS
  <2>17. Alternates(Codes, M, sn, dn)
    BY <1>2, <2>11, <2>16
  <2>18. Alternates(Codes, N, sn, dn)
    BY <2>15, <2>17, RenamedAlternates
  <2>19. \A z \in CodeItems' : z \in L \/ z = y
    BY <2>7, <2>8 DEF Moves
  <2>20. Told(out', CodeItems', Bound)
    <3>1. \A z \in CodeItems' : Kind[z.key] = "mod"
      BY <1>2, <1>3, <2>7, <2>19
    <3>2. CodeItems' = N
      BY <2>8, <2>11, <2>14
    <3> QED
      BY <1>2, <2>4, <2>13, <2>14, <2>16, <2>18, <3>1, <3>2 DEF Told, On
  <2>21. \A z \in CodeItems' : z.at \in Nat /\ \E w \in CodeItems : z.key = w.key /\ z.at <= w.at /\ w.at \in Nat
    <3>1. \A z \in L : z.at \in Nat
      BY <1>1
    <3>2. f \in Nat /\ f <= x.at
      BY <1>1, <2>9, Constants
    <3> QED
      BY <1>1, <1>3, <2>7, <2>19, <3>1, <3>2
  <2> QED
    BY <1>8, <2>20, <2>21
<1> QED
  BY <1>7, <1>8

LEMMA FinishPlace ==
  ASSUME Types, NEW d \in Levels, Fr(d).op = "finish"
  PROVE  Place(d) \in Nat /\ Fr(d).s \in Slots /\ OnRelease(d)
<1>1. OnRelease(d) /\ Fr(d).s \in Slots /\ d \in Nat /\ d >= 1
  BY FrameTypes DEF FrameShape, Levels
<1>2. d # 1 => Fr(d - 1).s \in 1 .. MaxCaptured + 1
  BY <1>1, ReleaseCells DEF OnRelease
<1> QED
  BY <1>1, <1>2, Constants DEF Place

\* No slot changes, and what is under way has only come closer.
LEMMA CodeShrinks ==
  ASSUME Core, CodeInv, config' = config, held' = held, Told(out', CodeItems', Bound'),
         \A z \in CodeItems' : z.at \in Nat /\ \E y \in CodeItems : z.key = y.key /\ z.at <= y.at /\ y.at \in Nat,
         Items' \subseteq Items,
         \A d \in Levels' : Fr(d)'.op = "finish" =>
           d \in Levels /\ Fr(d).op = "finish" /\ Fr(d)' = Fr(d) /\ Place(d)' = Place(d),
         QuickTold', HeldClear'
  PROVE  CodeInv'
<1>1. Types /\ Gap
  BY DEF Core, CellsInv
<1>2. BeforeEvents'
  <2> SUFFICES ASSUME NEW z \in CodeItems', NEW y \in Items', y.key = Owner(z.key)
               PROVE  z.at < y.at
    BY DEF BeforeEvents, Owner
  <2>1. PICK x \in CodeItems : z.key = x.key /\ z.at <= x.at /\ x.at \in Nat /\ z.at \in Nat
    OBVIOUS
  <2>2. y \in Items /\ y.key = Owner(x.key)
    BY <2>1
  <2>3. x.at < y.at
    BY <2>2 DEF CodeInv, BeforeEvents
  <2>4. y.at \in Nat
    BY <1>1, <2>2, ItemsTyped, ItemIs
  <2> QED
    BY <2>1, <2>3, <2>4
<1>3. BeforeFinish'
  <2> SUFFICES ASSUME NEW d \in Levels', Fr(d)'.op = "finish", NEW z \in CodeItems',
                      Owner(z.key) = held'[Fr(d)'.s].pos
               PROVE  z.at < Place(d)'
    BY DEF BeforeFinish, Owner
  <2>1. d \in Levels /\ Fr(d).op = "finish" /\ Fr(d)' = Fr(d) /\ Place(d)' = Place(d)
    OBVIOUS
  <2>2. PICK x \in CodeItems : z.key = x.key /\ z.at <= x.at /\ x.at \in Nat /\ z.at \in Nat
    OBVIOUS
  <2>3. Owner(x.key) = held[Fr(d).s].pos
    BY <2>1, <2>2
  <2>4. x.at < Place(d)
    BY <2>1, <2>3 DEF CodeInv, BeforeFinish
  <2>5. Place(d) \in Nat
    BY <1>1, <2>1, FinishPlace
  <2> QED
    BY <2>1, <2>2, <2>4, <2>5
<1>4. FinishLive'
  <2> SUFFICES ASSUME NEW d \in Levels', Fr(d)'.op = "finish"
               PROVE  ~held'[Fr(d)'.s].cancelled
    BY DEF FinishLive
  <2>1. d \in Levels /\ Fr(d).op = "finish" /\ Fr(d)' = Fr(d)
    OBVIOUS
  <2> QED
    BY <2>1 DEF CodeInv, FinishLive
<1>5. \A s \in Slots : (Unsettled(s)' <=> Unsettled(s)) /\ held'[s] = held[s]
  BY UnsettledStays
<1>6. Quiet'
  <2> SUFFICES ASSUME NEW s \in Slots, Unsettled(s), NEW z \in CodeItems'
               PROVE  Owner(z.key) # held[s].pos
    BY <1>5 DEF Quiet, Owner, Slots
  <2>1. PICK x \in CodeItems : z.key = x.key
    OBVIOUS
  <2>2. Owner(x.key) # held[s].pos
    BY <2>1 DEF CodeInv, Quiet
  <2> QED
    BY <2>1, <2>2
<1>7. CancelledTold'
  BY <1>5 DEF CodeInv, CancelledTold, Slots
<1> QED
  BY <1>2, <1>3, <1>4, <1>6, <1>7 DEF CodeInv

LEMMA RaiseKeycodeCodes ==
  ASSUME Core, Core', CodeInv, RaiseKeycode, lost' = {}
  PROVE  CodeInv'
<1>1. PICK n : n = Height
  OBVIOUS
<1>2. PICK e : e = Head(stack).ev
  OBVIOUS
<1>c. Types
  BY DEF Core
<1>3. /\ n \in Levels /\ n \in Nat /\ n >= 1 /\ Fr(n).ev = e /\ Fr(n).op = "raise" /\ FrameShape(n)
      /\ stack \in Seq(Frames) /\ stack # <<>>
  BY <1>1, <1>2, <1>c, Top DEF RaiseKeycode, Levels
<1>4. e.t = "code" /\ EventOK(e) /\ e.key \in Codes /\ e.state \in BOOLEAN /\ e.ts \in Nat
  BY <1>2, <1>3 DEF RaiseKeycode, FrameShape, EventOps, EventOK, Event
<1>5. n \in CodeFrames /\ n \notin EventFrames
  BY <1>3, <1>4 DEF CodeFrames, EventFrames
<1>6. Returned(n) /\ UNCHANGED <<config, now, undecided, held, timer, down, presses, seen, typed>>
  BY <1>1, <1>3, Calls0 DEF RaiseKeycode
<1>7. PICK ops : ops = {} /\ NewCalls(n, ops)
  BY <1>3, <1>6, NewCallsAre
<1>8. \A d \in n .. Height' : FALSE
  BY <1>3, <1>6 DEF Returned
<1>9. SetIO(Emit(IO, undecided, Fr(n).ev.key, Fr(n).ev.state, Fr(n).ev.ts))
  BY <1>2, <1>3 DEF RaiseKeycode
<1>10. Collects(1)
  <2>1. PICK u : u = undecided
    OBVIOUS
  <2>2. SetIO(Emit(IO, u, e.key, e.state, e.ts))
    BY <1>3, <1>9, <2>1
  <2> QED
    BY <1>4, <1>c, <2>1, <2>2, EmitCollects
<1>11. Items' = Items
  BY <1>1, <1>3, <1>5, <1>7, <1>8, <1>10, <1>c, ItemsStay
<1>12. CodeItems' = CodesIn(captured')
  BY <1>1, <1>3, <1>7, <1>8, <1>c, NoCodeFramesAfter
<1>13. PICK x : x = Item(Place(n), Fr(n).ev)
  OBVIOUS
<1>14. /\ Told(out', CodeItems', Bound)
       /\ \A z \in CodeItems' : z.at \in Nat /\ \E y \in CodeItems : z.key = y.key /\ z.at <= y.at /\ y.at \in Nat
       /\ Passes(undecided) => captured' = captured
  BY <1>1, <1>5, <1>9, <1>12, <1>13, RaisedCode
<1>15. Bound' = Bound
  <2>1. ~(Fr(n).op = "decide" /\ Fr(n).moment = "KEY_DOWN")
    BY <1>3
  <2>2. \A t : Pending(t)' <=> Pending(t)
    BY <1>1, <1>3, <1>7, <1>8, <1>c, <2>1, PendingStays
  <2>3. \A t \in Slots : Pressed(t)' = Pressed(t)
    BY <1>6, <2>2, PressedStays
  <2> QED
    BY <1>6, <2>3, BoundStays
<1>16. QuickTold'
  BY <1>1, <1>3, <1>7, <1>8, <1>c, QuickStays
<1>17. HeldClear'
  <2>1. Fr(n).op # "release" /\ "release" \notin ops
    BY <1>3, <1>7
  <2>2. \A i : Low(i)' <=> Low(i)
    BY <1>1, <1>3, <1>7, <1>c, <2>1, LowAsBefore
  <2>3. undecided # 0 /\ Cfg(undecided).holdWhileUndecided => Passes(undecided)
    <3>1. UndecidedIsUnique /\ (undecided # 0 => undecided \in Slots)
      BY Constants DEF Core, SlotsInv, Types, TypeOK, Slots
    <3> QED
      BY <3>1 DEF Passes, UndecidedIsUnique
  <2>4. undecided # 0 /\ Cfg(undecided).holdWhileUndecided => captured' = captured
    BY <1>14, <2>3
  <2> QED
    BY <1>6, <2>2, <2>4, HeldStays
<1>18. \A d \in Levels' : Fr(d)'.op = "finish" =>
         d \in Levels /\ Fr(d).op = "finish" /\ Fr(d)' = Fr(d) /\ Place(d)' = Place(d)
  <2>1. Fr(n).op # "finish" /\ "finish" \notin ops
    BY <1>3, <1>7
  <2> QED
    BY <1>1, <1>3, <1>7, <1>c, <2>1, FinishBelow
<1> QED
  BY <1>6, <1>11, <1>14, <1>15, <1>16, <1>17, <1>18, CodeShrinks

\* A keycode that is raised again keeps its place, too.
LEMMA ReplayCodes ==
  ASSUME Core, Core', CodeInv, NEW n \in Levels, n = Height, n \in Nat, n >= 1, Fr(n).op = "release",
         IsRelease(n), NEW i \in Nat, i = Fr(n).s,
         UNCHANGED <<config, now, undecided, held, timer, lastTapped, down, presses, seen,
                     typed, out, lost>>,
         i \in Cells, captured[i] # NoEvent, captured' = [captured EXCEPT ![i] = NoEvent],
         NEW ev, ev = captured[i], Becomes2(n, Raise(ev), Release(i + 1))
  PROVE  CodeInv'
<1>c. Types /\ TypeOK /\ CapturedOK
  BY DEF Core, Types
<1>0. captured' \in [Cells -> Event] /\ \A c \in Cells : c # i => captured'[c] = captured[c]
  BY <1>c DEF Core, Types, TypeOK
<1>1. /\ \A c \in Cells : Low(c)' => c = i \/ Low(c)
      /\ Items' = Items
  <2>1. \A c \in Cells : Low(c)' => c = i \/ Low(c)
    BY ReplayMoves
  <2>2. Items' = Items
    BY ReplayMoves
  <2> QED
    BY <2>1, <2>2
<1>m. Place(n + 1)' = i
  <2>1. Replayed(n, i, ev)
    BY ReplayMoves
  <2> QED
    BY <2>1 DEF Replayed
<1>2. Raise(ev).op = "raise" /\ Raise(ev).ev = ev /\ Release(i + 1).op = "release"
  BY DEF Raise, Release, Frame
<1>3. /\ NewCalls(n, {"raise", "release"}) /\ Height' = n + 1 /\ Fr(n)'.op = "release"
      /\ Fr(n + 1)'.op = "raise" /\ Fr(n + 1)'.ev = ev
  BY <1>2, NewCallsAre DEF Becomes2
<1>4. PICK ops : ops = {"raise", "release"} /\ NewCalls(n, ops)
  BY <1>3
<1>5. \A d \in n .. Height' : Fr(d)'.op \in {"raise", "release"}
  BY <1>3 DEF NewCalls
<1>6. n \notin CodeFrames
  BY DEF CodeFrames
<1>7. CodeItems = CodesIn(captured) /\ CodeFrames = {}
  BY <1>6, <1>c, NoCodeFrames
<1>8. captured'[i].t = "none"
  BY <1>c DEF TypeOK, NoEvent
<1>9. \A x : x \in CodesIn(captured) <=> \E c \in Cells : captured[c].t = "code" /\ x = Item(c, captured[c])
  BY DEF CodesIn
<1>10. \A x : x \in CodesIn(captured') <=> \E c \in Cells : captured'[c].t = "code" /\ x = Item(c, captured'[c])
  BY DEF CodesIn
<1>11. \A x : x \in CodesIn(captured) <=> x \in CodesIn(captured') \/ (ev.t = "code" /\ x = Item(i, ev))
  <2>1. ASSUME NEW x \in CodesIn(captured)
        PROVE  x \in CodesIn(captured') \/ (ev.t = "code" /\ x = Item(i, ev))
    <3>1. PICK c \in Cells : captured[c].t = "code" /\ x = Item(c, captured[c])
      BY <1>9
    <3>2. c # i => captured'[c] = captured[c]
      BY <1>0
    <3> QED
      BY <1>10, <3>1, <3>2
  <2>2. ASSUME NEW x \in CodesIn(captured')
        PROVE  x \in CodesIn(captured)
    <3>1. PICK c \in Cells : captured'[c].t = "code" /\ x = Item(c, captured'[c])
      BY <1>10
    <3>2. captured'[c] = captured[c]
      BY <1>0, <1>8, <3>1
    <3> QED
      BY <1>9, <3>1, <3>2
  <2>3. ev.t = "code" => Item(i, ev) \in CodesIn(captured)
    BY <1>9
  <2> QED
    BY <2>1, <2>2, <2>3
<1>12. CodeItems' = CodeItems
  <2>1. CASE ev.t = "code"
    <3>1. \A d \in Levels' : Fr(d)'.op = "raise" => d = n + 1
      BY <1>3 DEF Core, Types, Shape, FrameShape
    <3>2. n + 1 \in Levels'
      BY <1>3 DEF Levels
    <3>3. CodeFrames' = {n + 1}
      BY <1>3, <2>1, <3>1, <3>2 DEF CodeFrames
    <3>4. CodeItems' = CodesIn(captured') \cup {Item(Place(d)', Fr(d)'.ev) : d \in CodeFrames'}
      BY DEF CodeItems, CodesIn, Item, Cells
    <3>5. PICK k : k = n + 1
      OBVIOUS
    <3>6. {Item(Place(d)', Fr(d)'.ev) : d \in CodeFrames'} = {Item(Place(k)', Fr(k)'.ev)}
      BY <3>3, <3>5
    <3>7. Place(k)' = i /\ Fr(k)'.ev = ev
      BY <1>m, <1>3, <3>5
    <3> QED
      BY <1>7, <1>11, <2>1, <3>4, <3>6, <3>7
  <2>2. CASE ev.t # "code"
    <3>1. \A d \in n .. Height' : d = n \/ d = n + 1
      BY <1>3
    <3>2. \A d \in n .. Height' : ~(Fr(d)'.op = "raise" /\ Fr(d)'.ev.t = "code")
      BY <1>3, <2>2, <3>1
    <3>3. CodeItems' = CodesIn(captured')
      BY <1>4, <1>c, <3>2, NoCodeFramesAfter
    <3> QED
      BY <1>7, <1>11, <2>2, <3>3
  <2> QED
    BY <2>1, <2>2
<1>13. \A z \in CodeItems : z.at \in Nat
  <2>1. \A z \in CodesIn(captured) : z.at \in Cells
    BY <1>c, CodesAreItems DEF TypeOK, CapturedOK
  <2> QED
    BY <1>7, <2>1, Constants
<1>14. \A z \in CodeItems' : z.at \in Nat /\ \E y \in CodeItems : z.key = y.key /\ z.at <= y.at /\ y.at \in Nat
  BY <1>12, <1>13
<1>15. Bound' = Bound
  <2>1. ~(Fr(n).op = "decide" /\ Fr(n).moment = "KEY_DOWN")
    OBVIOUS
  <2>2. \A t : Pending(t)' <=> Pending(t)
    BY <1>4, <1>5, <1>c, <2>1, PendingStays
  <2>3. \A t \in Slots : Pressed(t)' = Pressed(t)
    BY <2>2, PressedStays
  <2> QED
    BY <2>3, BoundStays
<1>16. QuickTold'
  BY <1>4, <1>5, <1>c, QuickStays
<1>17. HeldClear'
  <2>1. \A c \in Cells : Low(c)' /\ captured'[c].t = "code" => Low(c) /\ captured[c].t = "code"
    BY <1>0, <1>1, <1>8
  <2> QED
    BY <2>1, HeldStays
<1>18. \A d \in Levels' : Fr(d)'.op = "finish" =>
         d \in Levels /\ Fr(d).op = "finish" /\ Fr(d)' = Fr(d) /\ Place(d)' = Place(d)
  <2>1. Fr(n).op # "finish" /\ "finish" \notin ops
    BY <1>4
  <2> QED
    BY <1>4, <1>c, <2>1, FinishBelow
<1>19. Told(out', CodeItems', Bound')
  BY <1>12, <1>15 DEF CodeInv
<1> QED
  BY <1>1, <1>14, <1>16, <1>17, <1>18, <1>19, CodeShrinks

LEMMA ReleaseCapturedCodes ==
  ASSUME Core, Core', CodeInv, ReleaseCaptured, lost' = {}
  PROVE  CodeInv'
<1>1. PICK n : n = Height
  OBVIOUS
<1>2. PICK i : i = Fr(n).s
  OBVIOUS
<1>c. Types
  BY DEF Core
<1>4. /\ n \in Levels /\ n \in Nat /\ n >= 1 /\ Fr(n).op = "release" /\ IsRelease(n)
      /\ i \in 1 .. MaxCaptured + 1 /\ i \in Nat
      /\ UNCHANGED <<config, now, undecided, held, timer, lastTapped, down, presses, seen,
                     typed, out, lost>>
      /\ \/ (i \in Cells => captured[i] = NoEvent) /\ Returned(n) /\ captured' = captured
         \/ /\ i \in Cells /\ captured[i] # NoEvent /\ captured' = [captured EXCEPT ![i] = NoEvent]
            /\ Becomes2(n, Raise(captured[i]), Release(i + 1))
  BY <1>1, <1>2, <1>c, ReleaseSplits
<1>5. CASE (i \in Cells => captured[i] = NoEvent) /\ Returned(n) /\ captured' = captured
  <2>1. \A c \in Cells : Full(c) /\ Low(c)' => Low(c)
    BY <1>1, <1>2, <1>4, <1>5, ReplayIsDone
  <2>2. PICK ops : ops = {} /\ NewCalls(n, ops)
    BY <1>4, <1>5, NewCallsAre
  <2>3. PICK m : m = 0 /\ Collects(m)
    BY <1>4, <1>5, <1>c, UntouchedCollects
  <2>4. n \notin EventFrames /\ n \notin CodeFrames /\ \A d \in n .. Height' : FALSE
    BY <1>4, <1>5 DEF EventFrames, EventOps, CodeFrames, Returned
  <2>5. Items' = Items
    BY <1>1, <1>4, <1>c, <2>2, <2>3, <2>4, ItemsStay
  <2>6. ops \cap {"raise", "finish"} = {} /\ ~(Fr(n).op = "decide" /\ Fr(n).moment = "KEY_DOWN")
    BY <1>4, <2>2
  <2> QED
    BY <1>1, <1>4, <1>5, <2>1, <2>2, <2>4, <2>5, <2>6, CodeReturns
<1>6. CASE /\ i \in Cells /\ captured[i] # NoEvent /\ captured' = [captured EXCEPT ![i] = NoEvent]
           /\ Becomes2(n, Raise(captured[i]), Release(i + 1))
  <2>1. PICK ev : ev = captured[i]
    OBVIOUS
  <2>2. Becomes2(n, Raise(ev), Release(i + 1))
    BY <1>6, <2>1
  <2> QED
    BY <1>1, <1>2, <1>4, <1>6, <2>1, <2>2, ReplayCodes
<1> QED
  BY <1>4, <1>5, <1>6

\* What the end of a release emits: the release of what the slot has pressed, or the press
\* and the release of a tap.
LEMMA FinishEmits ==
  ASSUME SimpleHolds, Core, CodeInv, FinishRelease, lost' = {}, NEW n, n = Height, NEW s, s = Fr(n).s,
         NEW p, p = held[s].pos
  PROVE  /\ held[s].status # "UNDECIDED" /\ s # undecided /\ p \in HoldTaps
         /\ \E io, u, q, P : /\ u = undecided /\ q = Place(n) /\ P = {p} /\ q \in Nat
                             /\ SetIO(io) /\ Ready(io, Bound \ Pressed(s), P, q, u, 0)
<1>c. Types /\ TypeOK /\ Rising /\ Gap /\ RoomLeft /\ SlotsInv /\ OneSlotPerKey /\ FinishInv /\ UndecidedIsUnique
  BY DEF Core, CellsInv, RoomInv, Types, SlotsInv, CallInv
<1>1. /\ n \in Levels /\ n \in Nat /\ n >= 1 /\ Fr(n).op = "finish" /\ OnRelease(n)
      /\ s \in Slots /\ Used(s) /\ Fr(n) = Head(stack)
  BY <1>c, FinishSplits, Top DEF FinishRelease
<1>2. s # undecided
  <2>1. ~ToDecide(n)
    BY <1>1, <1>c, FrameTypes DEF ToDecide
  <2> QED
    BY <1>1, <1>c, <2>1 DEF FinishInv
<1>3. held[s].status # "UNDECIDED" /\ held[s].status \in Statuses /\ ~held[s].cancelled
  BY <1>1, <1>2, <1>c, SlotIs DEF UndecidedIsUnique, Used, CodeInv, FinishLive
<1>4. p \in HoldTaps /\ config \in Configs /\ held[s].ts \in Nat
  BY <1>1, <1>c, CfgIs, SlotIs
<1>5. ~(Cfg(s).holdWhileUndecided /\ Cfg(s).linger) /\ (Cfg(s).retroTap => ~Cfg(s).holdWhileUndecided)
  BY <1>4 DEF SimpleHolds, Cfg
<1>6. PICK u, q, ts, io0 : u = undecided /\ q = Place(n) /\ ts = held[s].ts /\ io0 = IO
  OBVIOUS
<1>7. PICK P : P = {p}
  OBVIOUS
<1>8. n \notin CodeFrames /\ Fr(n).op # "release"
  BY <1>1 DEF CodeFrames
<1>9. \A x \in CodeItems : Owner(x.key) \in P => x.at <= Place(n)
  <2> SUFFICES ASSUME NEW x \in CodeItems, Owner(x.key) = p
               PROVE  x.at <= Place(n)
    BY <1>7
  <2>1. x.at < Place(n)
    BY <1>1 DEF CodeInv, BeforeFinish
  <2>2. x \in CodesIn(captured)
    BY <1>8, <1>c, NoCodeFrames
  <2>3. x.at \in Nat
    BY <1>c, <2>2, CodesAreItems, Constants DEF TypeOK, Types, CapturedOK
  <2>4. Place(n) \in Nat
    BY <1>1, <1>c, FinishPlace
  <2> QED
    BY <2>1, <2>3, <2>4
<1>10. PICK k, j \in Nat : k = 2 /\ j = 1
  OBVIOUS
<1>11. undecided # 0 /\ n > 1 => Free(captured, Fr(n - 1).s, k)
  <2> SUFFICES ASSUME undecided # 0, n > 1
               PROVE  Free(captured, Fr(n - 1).s, k)
    OBVIOUS
  <2>1. Free(captured, Fr(n - 1).s, Cardinality(Silents) + 2) /\ Cardinality(Silents) \in Nat
    BY <1>1, <1>8, <1>c, RoomBefore
  <2>2. Fr(n - 1).s \in Nat
    BY <1>1, <1>8, <1>c, TopReleaseIs
  <2>3. k <= Cardinality(Silents) + 2 /\ Cardinality(Silents) + 2 \in Nat
    BY <1>10, <2>1
  <2> QED
    BY <2>1, <2>2, <2>3, FreeLess
<1>12. Ready(io0, Bound, P, q, u, k) /\ q \in Nat
  BY <1>1, <1>6, <1>8, <1>9, <1>10, <1>11, ReadyNow
<1>13. PICK sil : sil = Silent(s, held[s].status)
  OBVIOUS
<1>14. PICK status : status = IF sil THEN "TAP" ELSE held[s].status
  OBVIOUS
<1>15. PICK io1 : io1 = IF sil THEN PressBinding(io0, u, s, status) ELSE io0
  OBVIOUS
<1>16. PICK io2 : io2 = ReleaseBinding(io1, u, s, status)
  OBVIOUS
<1>17. SetIO(io2)
  <2>1. SetIO(IF Cfg(s).holdWhileUndecided /\ Cfg(s).linger
              THEN Emit(io2, u, Hold(held[s].pos), FALSE, held[s].ts) ELSE io2)
    BY <1>1, <1>6, <1>13, <1>14, <1>15, <1>16, Zenon DEF FinishRelease
  <2> QED
    BY <1>5, <2>1
<1>18. io2.lost = {}
  BY <1>17 DEF SetIO
<1>19. IOOK(io0)
  BY <1>12 DEF Ready
<1>20. PICK dn : dn = Bound
  OBVIOUS
<1>21. \A c : Owner(c) = p => (c \in dn <=> c \in Pressed(s))
  BY <1>1, <1>20, <1>c, BoundIs
<1>22. PICK code \in Codes : code = (IF IsHold(status) THEN Hold(p) ELSE Tap(p)) /\ Owner(code) \in P
                             /\ Owner(code) = p
  BY <1>4, <1>7, CodesAre, CodesDiffer
<1>23. Ready(io2, Bound \ Pressed(s), P, q, u, 0)
  <2>1. CASE sil
    <3>1. status = "TAP" /\ ~Cfg(s).holdWhileUndecided /\ code = Tap(p) /\ Pressed(s) = {}
      BY <1>3, <1>5, <1>13, <1>14, <1>22, <2>1 DEF Silent, IsHold, Pressed
    <3>2. ~Silent(s, status)
      BY <3>1 DEF Silent
    <3>3. PICK old : old = [io0 EXCEPT !.last = [pos |-> p, ts |-> ts]]
      OBVIOUS
    <3>4. io1 = Emit(old, u, code, TRUE, ts)
      BY <1>6, <1>15, <2>1, <3>1, <3>2, <3>3 DEF PressBinding, IsHold
    <3>5. IOOK(old) /\ old.cap = io0.cap /\ old.out = io0.out
      BY <1>4, <1>6, <1>19, <3>3, KeepsLast DEF IOOK, IOs
    <3>6. Ready(old, dn, P, q, u, j + 1)
      BY <1>10, <1>12, <1>20, <3>5, SameReady
    <3>7. Emitted(old, io1, 1)
      BY <1>6, <1>4, <3>4, <3>5, EmitsPress
    <3>8. IOOK(io1)
      BY <3>7, EmittedOK
    <3>9. Emitted(io1, io2, 1)
      BY <1>1, <1>16, <1>c, <3>8, Releases
    <3>10. io1.lost = {}
      BY <1>18, <3>9 DEF Emitted
    <3>11. code \notin dn
      BY <1>21, <1>22, <3>1
    <3>12. Ready(io1, dn \cup {code}, P, q, u, j)
      BY <1>4, <1>6, <1>12, <1>22, <3>4, <3>6, <3>10, <3>11, PressReady
    <3>13. io2 = Emit(io1, u, code, FALSE, ts)
      BY <1>6, <1>16, <1>22, <3>2 DEF ReleaseBinding
    <3>14. PICK dw, z : dw = dn \cup {code} /\ z = 0
      OBVIOUS
    <3>15. Ready(io1, dw, P, q, u, z + 1) /\ z \in Nat /\ code \in dw
      BY <1>10, <3>12, <3>14
    <3>16. Ready(io2, dw \ {code}, P, q, u, z)
      BY <1>4, <1>6, <1>12, <1>18, <1>22, <3>13, <3>15, UnpressReady
    <3>17. dw \ {code} = Bound \ Pressed(s)
      BY <1>20, <3>1, <3>11, <3>14
    <3> QED
      BY <3>14, <3>16, <3>17
  <2>2. CASE ~sil
    <3>1. io1 = io0 /\ status = held[s].status /\ ~Silent(s, status)
      BY <1>13, <1>14, <1>15, <2>2
    <3>2. io2 = Emit(io0, u, code, FALSE, ts)
      BY <1>6, <1>16, <1>22, <3>1 DEF ReleaseBinding
    <3>3. Pressed(s) = {code}
      BY <1>1, <1>3, <1>22, <3>1 DEF Pressed, IsHold, Statuses
    <3>4. code \in dn
      BY <1>21, <1>22, <3>3
    <3>5. Ready(io0, dn, P, q, u, j + 1)
      BY <1>10, <1>12, <1>20
    <3>6. Ready(io2, dn \ {code}, P, q, u, j)
      BY <1>4, <1>6, <1>12, <1>18, <1>22, <3>2, <3>4, <3>5, UnpressReady
    <3>7. PICK z \in Nat : z = 0 /\ z <= j
      BY <1>10
    <3>8. Ready(io2, dn \ {code}, P, q, u, z)
      BY <1>12, <3>6, <3>7, ReadyLess
    <3> QED
      BY <1>20, <3>3, <3>7, <3>8
  <2> QED
    BY <2>1, <2>2
<1> QED
  BY <1>2, <1>3, <1>4, <1>6, <1>7, <1>12, <1>17, <1>23

LEMMA FinishReleaseCodes ==
  ASSUME SimpleHolds, Core, Core', CodeInv, FinishRelease, lost' = {}
  PROVE  CodeInv'
<1>c. Types /\ TypeOK /\ SlotsInv /\ OneSlotPerKey /\ FinishInv
  BY DEF Core, Types, SlotsInv, CallInv
<1>1. PICK n : n = Height
  OBVIOUS
<1>2. PICK s : s = Fr(n).s
  OBVIOUS
<1>3. PICK p : p = held[s].pos
  OBVIOUS
<1>4. PICK m : m = IF s \in Silents THEN 2 ELSE 1
  OBVIOUS
<1>5. /\ n \in Levels /\ n \in Nat /\ n >= 1 /\ Fr(n).op = "finish" /\ OnRelease(n)
      /\ s \in Slots /\ Used(s) /\ Returned(n) /\ n \notin EventFrames
      /\ UNCHANGED <<config, now, undecided, timer, down, presses, seen, typed>>
      /\ Collects(m)
      /\ held' = [held EXCEPT ![s] =
                    IF Fr(n).moment = "TIMER_EVENT"
                    THEN [@ EXCEPT !.status = IF s \in Silents THEN "TAP" ELSE held[s].status,
                                   !.cancelled = TRUE]
                    ELSE FreeSlot]
  BY <1>1, <1>2, <1>4, FinishSplits
<1>6. held[s].status # "UNDECIDED" /\ s # undecided /\ p \in HoldTaps
  BY <1>1, <1>2, <1>3, FinishEmits
<1>7. PICK io, u, q, P : /\ u = undecided /\ q = Place(n) /\ P = {p} /\ q \in Nat
                         /\ SetIO(io) /\ Ready(io, Bound \ Pressed(s), P, q, u, 0)
  <2>1. \E io, u, q, P : /\ u = undecided /\ q = Place(n) /\ P = {p} /\ q \in Nat
                         /\ SetIO(io) /\ Ready(io, Bound \ Pressed(s), P, q, u, 0)
    BY <1>1, <1>2, <1>3, FinishEmits
  <2> QED
    BY <2>1
<1>8. PICK ops : ops = {} /\ NewCalls(n, ops)
  BY <1>5, NewCallsAre
<1>9. \A d \in n .. Height' : FALSE
  BY <1>5 DEF Returned
<1>10. /\ \A t \in Slots : t # s => held'[t] = held[t]
       /\ \/ held'[s] = FreeSlot
          \/ held'[s] = [held[s] EXCEPT !.status = IF s \in Silents THEN "TAP" ELSE held[s].status,
                                        !.cancelled = TRUE]
  BY <1>5, <1>c DEF TypeOK
<1>11. ~Unsettled(s)' /\ Pressed(s)' = {} /\ ~(held'[s].cancelled /\ Unsettled(s)')
  <2>1. CASE held'[s] = FreeSlot
    BY <2>1 DEF Unsettled, Pressed, Used, FreeSlot
  <2>2. CASE held'[s] = [held[s] EXCEPT !.status = IF s \in Silents THEN "TAP" ELSE held[s].status,
                                        !.cancelled = TRUE]
    <3>1. held'[s].cancelled = TRUE /\ held'[s].pos = p
          /\ held'[s].status = IF s \in Silents THEN "TAP" ELSE held[s].status
      <4>1. PICK h, st : h = held[s] /\ st = IF s \in Silents THEN "TAP" ELSE held[s].status
        OBVIOUS
      <4>2. h \in [pos : HoldTaps \cup {NoPos}, status : Statuses, ts : Nat,
                   first : Positions \cup {NoPos}, cancelled : BOOLEAN]
        BY <1>5, <1>c, <4>1 DEF TypeOK
      <4>3. held'[s] = [h EXCEPT !.status = st, !.cancelled = TRUE]
        BY <2>2, <4>1
      <4> QED
        BY <1>3, <4>1, <4>2, <4>3
    <3>2. s \in Silents <=> Silent(s, held[s].status)
      BY <1>5 DEF Silents
    <3>3. Cfg(s)' = Cfg(s)
      BY <1>3, <1>5, <3>1 DEF Cfg
    <3>4. held'[s].status # "UNDECIDED" /\ ~Silent(s, held[s].status)'
      BY <1>6, <3>1, <3>2, <3>3 DEF Silent
    <3> QED
      BY <3>1, <3>4 DEF Unsettled, Pressed
  <2> QED
    BY <1>10, <2>1, <2>2
<1>12. Bound' = (Bound \ Pressed(s)) \cup Pressed(s)'
  <2>1. ~(Fr(n).op = "decide" /\ Fr(n).moment = "KEY_DOWN")
    BY <1>5
  <2>2. \A t : Pending(t)' <=> Pending(t)
    BY <1>1, <1>5, <1>8, <1>9, <1>c, <2>1, PendingStays
  <2>3. ASSUME NEW t \in Slots, t # s
        PROVE  Pressed(t)' = Pressed(t)
    <3>1. config' = config /\ held'[t].pos = held[t].pos /\ held'[t].status = held[t].status
          /\ held'[t].cancelled = held[t].cancelled
      BY <1>5, <1>10, <2>3
    <3> QED
      BY <2>2, <3>1, PressedStays
  <2>4. \A x \in Plain : x \in seen' <=> x \in seen
    BY <1>5
  <2> QED
    BY <1>5, <1>c, <2>3, <2>4, BoundMoves
<1>13. PICK dw : dw = Bound \ Pressed(s) /\ dw = Bound'
  BY <1>11, <1>12
<1>14. Ready(io, Bound', P, q, u, 0)
  BY <1>7, <1>13
<1>15. Items' = Items
  BY <1>1, <1>5, <1>8, <1>9, <1>c, ItemsStay
<1>16. \A y \in Items' : y.key \in P => q < y.at
  BY <1>2, <1>3, <1>5, <1>7, <1>15, <1>c DEF FinishInv
<1>17. Fr(n).op # "release" /\ n \notin CodeFrames /\ ops \cap {"raise", "finish"} = {} /\ "release" \notin ops
  BY <1>5, <1>8 DEF CodeFrames
<1>18. \A d \in 1 .. n - 1 : Fr(d).op = "finish" =>
           /\ held'[Fr(d).s].pos = held[Fr(d).s].pos /\ held'[Fr(d).s].cancelled = held[Fr(d).s].cancelled
           /\ held[Fr(d).s].pos \in P => q < Place(d) /\ Place(d) \in Nat
  <2> SUFFICES ASSUME NEW d \in 1 .. n - 1, Fr(d).op = "finish"
               PROVE  /\ held'[Fr(d).s] = held[Fr(d).s]
                      /\ q < Place(d) /\ Place(d) \in Nat
    OBVIOUS
  <2>1. Place(n) < Place(d) /\ Place(d) \in Nat /\ d \in Levels /\ Fr(d).s \in Slots
    BY <1>1, <1>5, <1>17, FinishesLater
  <2>2. Fr(d).s # s
    BY <1>2, <1>5, <1>c, <2>1 DEF FinishInv
  <2> QED
    BY <1>7, <1>10, <2>1, <2>2
<1>19. \A t \in Slots : Unsettled(t)' =>
         held'[t].pos \notin P /\ \A x \in CodeItems : Owner(x.key) # held'[t].pos
  <2> SUFFICES ASSUME NEW t \in Slots, Unsettled(t)'
               PROVE  held'[t].pos \notin P /\ \A x \in CodeItems : Owner(x.key) # held'[t].pos
    OBVIOUS
  <2>1. t # s
    BY <1>11
  <2>2. held'[t] = held[t]
    BY <1>10, <2>1
  <2>3. Unsettled(t)
    BY <1>5, <2>2, UnsettledStays
  <2>4. Used(t) /\ held[t].pos # p
    BY <1>3, <1>5, <1>c, <2>1, <2>3 DEF Unsettled, OneSlotPerKey
  <2> QED
    BY <1>7, <2>2, <2>3, <2>4 DEF CodeInv, Quiet
<1>20. CancelledTold'
  <2> SUFFICES ASSUME NEW t \in Slots, held'[t].cancelled
               PROVE  ~Unsettled(t)'
    BY DEF CancelledTold, Slots
  <2>1. CASE t = s
    BY <1>11, <2>1
  <2>2. CASE t # s
    <3>1. held'[t] = held[t]
      BY <1>10, <2>2
    <3>2. Unsettled(t)' <=> Unsettled(t)
      BY <1>5, <3>1, UnsettledStays
    <3> QED
      BY <3>1, <3>2 DEF CodeInv, CancelledTold
  <2> QED
    BY <2>1, <2>2
<1>21. QuickTold'
  BY <1>1, <1>5, <1>8, <1>9, <1>c, QuickStays
<1>22. HeldClear'
  <2>1. undecided # 0 => undecided \in Slots
    BY <1>c, Constants DEF TypeOK, Slots
  <2>2. undecided # 0 => held'[undecided].pos = held[undecided].pos
    BY <1>6, <1>10, <2>1
  <2>3. Ready(io, dw, P, Place(n), undecided, 0)
    BY <1>7, <1>13
  <2>4. UNCHANGED <<config, undecided>>
    BY <1>5
  <2> QED
    BY <1>1, <1>5, <1>7, <1>8, <1>17, <2>2, <2>3, <2>4, HeldEmits
<1>23. n \in Levels /\ q \in Nat /\ SetIO(io) /\ Items' \subseteq Items
  BY <1>5, <1>7, <1>15
<1> QED
  BY <1>1, <1>8, <1>14, <1>16, <1>17, <1>18, <1>19, <1>20, <1>21, <1>22, <1>23, CodeAfter

\* Only the frame that is left can have held a press back.
LEMMA PendingOthers ==
  ASSUME Types, NEW n \in Levels, n = Height, NEW ops, NewCalls(n, ops),
         \A d \in n .. Height' : ~(Fr(d)'.op = "decide" /\ Fr(d)'.moment = "KEY_DOWN"),
         NEW t, t # Fr(n).s
  PROVE  Pending(t)' <=> Pending(t)
<1>1. n \in Nat /\ n >= 1 /\ Height' \in Nat /\ Height' >= n - 1
  BY FrameTypes DEF NewCalls, Levels
<1>2. \A d \in 1 .. n - 1 : d \in Levels /\ d \in Levels' /\ Fr(d)' = Fr(d)
  BY <1>1 DEF NewCalls, Kept, Levels
<1>3. \A d \in Levels : d = n \/ d \in 1 .. n - 1
  BY <1>1 DEF Levels
<1>4. \A d \in Levels' : d \in n .. Height' \/ d \in 1 .. n - 1
  BY <1>1 DEF Levels
<1> QED
  BY <1>2, <1>3, <1>4 DEF Pending

\* What is emitted directly leaves no keycode of its own in the cells.
LEMMA ReadyDirect ==
  ASSUME NEW io, NEW dn, NEW P, NEW u, NEW k, Ready(io, dn, P, 0, u, k)
  PROVE  Ready(io, dn, {}, 0, u, k)
<1>1. \A x \in CodesIn(io.cap) : x.at \in Cells
  BY CodesInIO DEF Ready
<1>2. \A x \in CodesIn(io.cap) : ~(x.at <= 0)
  BY <1>1 DEF Cells
<1> QED
  BY <1>2 DEF Ready

\* A decision that changes nothing changes no binding.
LEMMA DecidesNothing ==
  ASSUME Core, CodeInv, NEW n \in Levels, n = Height, Fr(n).op = "decide", NEW s \in Slots,
         s = Fr(n).s, Returned(n), n \in Nat, n >= 1,
         UNCHANGED <<config, undecided, held, seen, captured, lastTapped, out, lost>>,
         \/ held[s].status # "UNDECIDED" \/ Fr(n).moment # "KEY_DOWN"
         \/ ~Cfg(s).holdWhileUndecided
  PROVE  CodeInv'
<1>c. Types
  BY DEF Core
<1>1. PICK ops : ops = {} /\ NewCalls(n, ops)
  BY NewCallsAre
<1>2. \A d \in n .. Height' : FALSE
  BY DEF Returned
<1>3. \A t \in Slots : Pressed(t)' = Pressed(t)
  <2> SUFFICES ASSUME NEW t \in Slots
               PROVE  Pressed(t)' = Pressed(t)
    OBVIOUS
  <2>1. CASE t # s \/ Fr(n).moment # "KEY_DOWN"
    <3>1. Pending(t)' <=> Pending(t)
      BY <1>1, <1>2, <1>c, <2>1, PendingOthers, PendingStays
    <3> QED
      BY <3>1, PressedStays
  <2>2. CASE t = s /\ held[s].status # "UNDECIDED"
    BY <2>2, PressedStays
  <2>3. CASE t = s /\ ~Cfg(s).holdWhileUndecided
    BY <2>3 DEF Pressed, Used, Cfg, Silent, Hold, Tap
  <2> QED
    BY <2>1, <2>2, <2>3
<1>4. \A p \in Plain : p \in seen' <=> p \in seen
  OBVIOUS
<1>5. Bound' = Bound
  BY <1>3, <1>4, BoundStays
<1>6. \A t \in Slots : (Unsettled(t)' <=> Unsettled(t)) /\ held'[t].pos = held[t].pos
  BY UnsettledStays
<1>7. CancelledTold'
  BY <1>6 DEF CodeInv, CancelledTold, Slots
<1>8. QuickTold'
  BY <1>1, <1>2, <1>c, QuickStays
<1>9. "release" \notin ops /\ Fr(n).op # "release" /\ ops \cap {"raise", "finish"} = {}
      /\ n \notin CodeFrames /\ n \notin EventFrames
  BY <1>1 DEF CodeFrames, EventFrames, EventOps
<1>10. \A i : Low(i)' <=> Low(i)
  BY <1>1, <1>9, <1>c, LowAsBefore
<1>11. HeldClear'
  BY <1>10, HeldStays
<1>12. Collects(0)
  BY <1>c, UntouchedCollects
<1>13. Items' = Items
  BY <1>1, <1>2, <1>9, <1>12, <1>c, ItemsStay
<1>14. \A t \in Slots : Unsettled(t)' => \A x \in CodeItems : Owner(x.key) # held'[t].pos
  BY <1>6 DEF CodeInv, Quiet
<1> QED
  BY <1>1, <1>5, <1>7, <1>8, <1>9, <1>11, <1>13, <1>14, CodeStays

\* hold-while-undecided: the hold binding is pressed at once, whatever is captured.
LEMMA DecidesHeld ==
  ASSUME Core, CodeInv, lost' = {}, NEW n \in Levels, n = Height, n \in Nat, n >= 1,
         Fr(n).op = "decide", Fr(n).moment = "KEY_DOWN", NEW s \in Slots, s = Fr(n).s, Returned(n),
         UNCHANGED <<config, undecided, held, seen>>, Collects(0), captured' = captured,
         Used(s), s = undecided, held[s].status = "UNDECIDED", Cfg(s).holdWhileUndecided,
         SetIO(Emit(IO, s, Hold(held[s].pos), TRUE, held[s].ts))
  PROVE  CodeInv'
<1>c. Types /\ TypeOK /\ OneSlotPerKey /\ PressInv /\ CancelledDone
  BY DEF Core, Types, SlotsInv, CallInv
<1>1. PICK ops : ops = {} /\ NewCalls(n, ops)
  BY NewCallsAre
<1>2. \A d \in n .. Height' : FALSE
  BY DEF Returned
<1>3. PICK p, ts, code : p = held[s].pos /\ ts = held[s].ts /\ code = Hold(p)
  OBVIOUS
<1>4. p \in HoldTaps /\ ts \in Nat /\ code \in Codes /\ Owner(code) = p
  BY <1>3, <1>c, SlotIs, CodesAre, CodesDiffer
<1>5. PICK io : io = Emit(IO, s, code, TRUE, ts) /\ SetIO(io) /\ io.lost = {}
  BY <1>3 DEF SetIO
<1>6. PICK P, q, dn, k : P = {p} /\ q = 0 /\ dn = Bound /\ k = 0
  OBVIOUS
<1>7. Passes(s) /\ Unsettled(s)
  BY DEF Passes, Unsettled
<1>8. "release" \notin ops /\ Fr(n).op # "release" /\ ops \cap {"raise", "finish"} = {}
      /\ n \notin CodeFrames /\ n \notin EventFrames
  BY <1>1 DEF CodeFrames, EventFrames, EventOps
<1>9. CodeItems = CodesIn(captured)
  BY <1>8, <1>c, NoCodeFrames
<1>10. \A x \in CodeItems : Owner(x.key) \notin P
  BY <1>3, <1>6, <1>7 DEF CodeInv, Quiet
<1>11. Ready(IO, dn, P, q, s, k + 1)
  BY <1>6, <1>7, <1>9, <1>10, <1>c, ReadyQuiet
<1>12. Pending(s)
  BY DEF Pending
<1>13. Pressed(s) = {}
  BY <1>12 DEF Pressed
<1>14. code \notin dn
  BY <1>3, <1>4, <1>6, <1>13, <1>c, BoundIs
<1>15. q \in Nat /\ k \in Nat /\ Owner(code) \in P
  BY <1>4, <1>6
<1>16. Ready(io, dn \cup {code}, P, q, s, k)
  BY <1>4, <1>5, <1>11, <1>14, <1>15, PressReady
<1>17. PICK dw, Q : dw = dn \cup {code} /\ Q = {}
  OBVIOUS
<1>18. Ready(io, dw, Q, 0, s, 0)
  <2>1. Ready(io, dw, P, 0, s, k)
    BY <1>6, <1>16, <1>17
  <2>2. Ready(io, dw, {}, 0, s, k)
    BY <2>1, ReadyDirect
  <2> QED
    BY <1>6, <1>17, <2>2
<1>19. ~Pending(s)'
  <2> SUFFICES ASSUME NEW d \in Levels', Fr(d)'.op = "decide", Fr(d)'.moment = "KEY_DOWN"
               PROVE  FALSE
    BY DEF Pending
  <2>1. d \in 1 .. n - 1 /\ Fr(d)' = Fr(d) /\ d \in Levels /\ d # n
    BY DEF Returned, Kept, Levels
  <2>2. d + 1 = n
    BY <2>1, <1>c DEF PressInv
  <2> QED
    BY <2>1, <2>2, <1>c DEF PressInv
<1>20. ~held[s].cancelled
  BY <1>c DEF CancelledDone
<1>21. Pressed(s)' = {code}
  BY <1>3, <1>19, <1>20 DEF Pressed, Used, Cfg
<1>22. \A t \in Slots : t # s => Pressed(t)' = Pressed(t)
  <2> SUFFICES ASSUME NEW t \in Slots, t # s
               PROVE  Pressed(t)' = Pressed(t)
    OBVIOUS
  <2>1. Pending(t)' <=> Pending(t)
    BY <1>1, <1>2, <1>c, PendingOthers
  <2> QED
    BY <2>1, PressedStays
<1>23. \A x \in Plain : x \in seen' <=> x \in seen
  OBVIOUS
<1>24. Bound' = (Bound \ Pressed(s)) \cup Pressed(s)'
  BY <1>22, <1>23, <1>c, BoundMoves
<1>25. Bound' = dw
  BY <1>6, <1>13, <1>17, <1>21, <1>24
<1>26. Ready(io, Bound', Q, 0, s, 0)
  BY <1>18, <1>25
<1>27. \A t \in Slots : (Unsettled(t)' <=> Unsettled(t)) /\ held'[t].pos = held[t].pos
  BY UnsettledStays
<1>28. CancelledTold'
  BY <1>27 DEF CodeInv, CancelledTold, Slots
<1>29. QuickTold'
  BY <1>1, <1>2, <1>c, QuickStays
<1>30. \A i : Low(i)' <=> Low(i)
  BY <1>1, <1>8, <1>c, LowAsBefore
<1>31. HeldClear'
  BY <1>30, HeldStays
<1>32. Items' = Items
  BY <1>1, <1>2, <1>8, <1>c, ItemsStay
<1>33. \A t \in Slots : Unsettled(t)' => held'[t].pos \notin Q
                                         /\ \A x \in CodeItems : Owner(x.key) # held'[t].pos
  BY <1>17, <1>27 DEF CodeInv, Quiet
<1>34. Items' \subseteq Items /\ (\A y \in Items' : y.key \in Q => q < y.at) /\ SetIO(io)
       /\ (\A d \in 1 .. n - 1 : held[Fr(d).s].pos \notin Q) /\ held' = held
  BY <1>5, <1>17, <1>32
<1>35. Ready(io, Bound', Q, q, s, 0)
  BY <1>6, <1>26
<1> QED
  BY <1>1, <1>8, <1>15, <1>28, <1>29, <1>31, <1>33, <1>34, <1>35, CodeAfter

\* The binding that a decision to status leaves pressed
Decided(s, status) == IF Silent(s, status) THEN {}
                      ELSE IF IsHold(status) THEN {Hold(held[s].pos)} ELSE {Tap(held[s].pos)}

\* What a decision emits makes the tap or the hold binding of its slot the pressed one.
LEMMA DecideEmits ==
  ASSUME SimpleHolds, Types, CodeInv, OneSlotPerKey, CodeItems = CodesIn(captured),
         NEW s \in Slots, Used(s), held[s].status = "UNDECIDED", ~held[s].cancelled,
         Cfg(s).holdWhileUndecided => ~Pending(s),
         NEW st \in Statuses \ {"UNDECIDED"}, NEW io, io = PressBinding(IO, 0, s, st), io.lost = {}
  PROVE  Ready(io, (Bound \ Pressed(s)) \cup Decided(s, st), {}, 0, 0, 0)
<1>c. TypeOK
  BY DEF Types
<1>1. PICK p, ts, hold, tap : p = held[s].pos /\ ts = held[s].ts /\ hold = Hold(p) /\ tap = Tap(p)
  OBVIOUS
<1>2. /\ p \in HoldTaps /\ ts \in Nat /\ hold \in Codes /\ Owner(hold) = p
      /\ tap \in Codes /\ Owner(tap) = p /\ hold # tap
  BY <1>1, <1>c, SlotIs, CodesAre, CodesDiffer
<1>3. PICK hwu \in BOOLEAN : hwu = Cfg(s).holdWhileUndecided
  BY <1>c, CfgIs DEF HoldTapConfig
<1>4. hwu => ~Cfg(s).linger /\ ~Cfg(s).retroTap
  BY <1>1, <1>2, <1>3, <1>c, CfgIs DEF SimpleHolds, Cfg
<1>5. Pressed(s) = IF hwu THEN {hold} ELSE {}
  BY <1>1, <1>3 DEF Pressed
<1>6. PICK P, dn, u, q, k : P = {p} /\ dn = Bound /\ u = 0 /\ q = 0 /\ k = 0
  OBVIOUS
<1>7. Passes(u) /\ q \in Nat /\ k \in Nat /\ k + 1 \in Nat /\ Owner(hold) \in P /\ Owner(tap) \in P
  BY <1>2, <1>6, PassesNone
<1>8. \A x \in CodeItems : Owner(x.key) \notin P
  BY <1>1, <1>6 DEF CodeInv, Quiet, Unsettled
<1>9. \A j : Ready(IO, dn, P, q, u, j)
  BY <1>6, <1>7, <1>8, ReadyQuiet
<1>10. IOOK(IO)
  BY IOIs
<1>11. \A c : Owner(c) = p => (c \in dn <=> c \in Pressed(s))
  BY <1>1, <1>6, <1>c, BoundIs
<1>12. PICK dw : dw = (Bound \ Pressed(s)) \cup Decided(s, st)
  OBVIOUS
<1>13. SUFFICES Ready(io, dw, P, q, u, k)
  <2>1. Ready(io, dw, P, q, u, k) => Ready(io, dw, {}, q, u, k)
    BY <1>6, ReadyDirect
  <2> QED
    BY <1>6, <1>12, <2>1
<1>14. CASE Silent(s, st) \/ (IsHold(st) /\ hwu)
  <2>1. io = IO
    BY <1>3, <1>14 DEF PressBinding
  <2>2. dw = dn
    <3>1. CASE Silent(s, st)
      <4>1. ~hwu
        BY <1>4, <3>1 DEF Silent
      <4> QED
        BY <1>5, <1>6, <1>12, <3>1, <4>1 DEF Decided
    <3>2. CASE ~Silent(s, st)
      <4>1. Decided(s, st) = {hold} /\ Pressed(s) = {hold}
        BY <1>1, <1>5, <1>14, <3>2 DEF Decided
      <4>2. hold \in dn
        BY <1>2, <1>11, <4>1
      <4> QED
        BY <1>6, <1>12, <4>1, <4>2
    <3> QED
      BY <3>1, <3>2
  <2> QED
    BY <1>9, <2>1, <2>2
<1>15. CASE ~Silent(s, st) /\ IsHold(st) /\ ~hwu
  <2>1. io = Emit(IO, u, hold, TRUE, ts)
    BY <1>1, <1>3, <1>6, <1>15 DEF PressBinding
  <2>2. hold \notin dn
    BY <1>2, <1>5, <1>11, <1>15
  <2>3. Ready(io, dn \cup {hold}, P, q, u, k)
    BY <1>2, <1>7, <1>9, <2>1, <2>2, PressReady
  <2>4. dw = dn \cup {hold}
    BY <1>1, <1>5, <1>6, <1>12, <1>15 DEF Decided
  <2> QED
    BY <2>3, <2>4
<1>16. CASE ~Silent(s, st) /\ ~IsHold(st)
  <2>1. PICK unheld : unheld = IF hwu THEN Emit(IO, u, hold, FALSE, ts) ELSE IO
    OBVIOUS
  <2>2. PICK tapped : tapped = [unheld EXCEPT !.last = [pos |-> p, ts |-> ts]]
    OBVIOUS
  <2>3. io = Emit(tapped, u, tap, TRUE, ts)
    BY <1>1, <1>3, <1>4, <1>6, <1>16, <2>1, <2>2 DEF PressBinding
  <2>4. IOOK(unheld) /\ SameEvents(IO, unheld)
    <3>1. CASE hwu
      <4>1. unheld = Emit(IO, u, hold, FALSE, ts)
        BY <2>1, <3>1
      <4>2. Emitted(IO, unheld, 1) /\ SameEvents(IO, unheld)
        BY <1>2, <1>7, <1>10, <4>1, EmitsRelease
      <4> QED
        BY <4>2, EmittedOK
    <3>2. CASE ~hwu
      BY <1>10, <2>1, <3>2 DEF SameEvents
    <3> QED
      BY <3>1, <3>2
  <2>5. IOOK(tapped) /\ tapped.cap = unheld.cap /\ tapped.lost = unheld.lost
    BY <1>2, <2>2, <2>4, KeepsLast
  <2>6. tapped.out = unheld.out
    BY <2>2, <2>4 DEF IOOK, IOs
  <2>7. SameEvents(tapped, io)
    BY <1>2, <1>7, <2>3, <2>5, EmitsPress
  <2>8. unheld.lost = {}
    BY <2>5, <2>7 DEF SameEvents
  <2>9. Ready(unheld, dn \ Pressed(s), P, q, u, k + 1)
    <3>1. CASE hwu
      <4>1. unheld = Emit(IO, u, hold, FALSE, ts) /\ Pressed(s) = {hold}
        BY <1>5, <2>1, <3>1
      <4>2. hold \in dn
        BY <1>2, <1>11, <4>1
      <4>3. PICK j : j = k + 1
        OBVIOUS
      <4>4. Ready(IO, dn, P, q, u, j + 1) /\ j \in Nat
        BY <1>7, <1>9, <4>3
      <4>5. Ready(unheld, dn \ {hold}, P, q, u, j)
        BY <1>2, <1>7, <2>8, <4>1, <4>2, <4>4, UnpressReady
      <4> QED
        BY <4>1, <4>3, <4>5
    <3>2. CASE ~hwu
      <4>1. unheld = IO /\ dn \ Pressed(s) = dn
        BY <1>5, <2>1, <3>2
      <4> QED
        BY <1>9, <4>1
    <3> QED
      BY <3>1, <3>2
  <2>10. PICK dr : dr = dn \ Pressed(s)
    OBVIOUS
  <2>11. Ready(tapped, dr, P, q, u, k + 1)
    BY <2>5, <2>6, <2>9, <2>10, SameReady
  <2>12. tap \notin dr
    BY <1>2, <1>11, <2>10
  <2>13. Ready(io, dr \cup {tap}, P, q, u, k)
    BY <1>2, <1>7, <2>3, <2>11, <2>12, PressReady
  <2>14. dw = dr \cup {tap}
    BY <1>1, <1>6, <1>12, <1>16, <2>10 DEF Decided
  <2> QED
    BY <2>13, <2>14
<1> QED
  BY <1>14, <1>15, <1>16

\* A decision presses the tap or the hold binding of its slot, and no other.
LEMMA DecidesBinding ==
  ASSUME SimpleHolds, Core, CodeInv, lost' = {}, NEW n \in Levels, n = Height, n \in Nat, n >= 1,
         Fr(n).op = "decide", Fr(n).moment # "KEY_DOWN", NEW s \in Slots, s = Fr(n).s,
         Becomes(n, Release(1)), UNCHANGED <<config, seen>>, Collects(0), captured' = captured,
         Used(s), s = undecided, undecided' = 0, held[s].status = "UNDECIDED",
         NEW st \in Statuses \ {"UNDECIDED"}, \A t \in Slots : t # s => held'[t] = held[t],
         held'[s].pos = held[s].pos, held'[s].status = st, held'[s].cancelled = held[s].cancelled,
         SetIO(PressBinding(IO, 0, s, st))
  PROVE  CodeInv'
<1>c. Types /\ TypeOK /\ OneSlotPerKey /\ PressInv /\ CancelledDone
  BY DEF Core, Types, SlotsInv, CallInv
<1>1. PICK ops : ops = {"release"} /\ NewCalls(n, ops)
  <2>1. Release(1).op = "release"
    BY DEF Release, Frame
  <2> QED
    BY <2>1, NewCallsAre
<1>2. \A d \in n .. Height' : Fr(d)'.op = "release"
  BY <1>1 DEF NewCalls
<1>3. PICK p : p = held[s].pos
  OBVIOUS
<1>4. PICK io : io = PressBinding(IO, 0, s, st) /\ SetIO(io) /\ io.lost = {}
  BY DEF SetIO
<1>5. Fr(n).op # "release" /\ ops \cap {"raise", "finish"} = {}
      /\ n \notin CodeFrames /\ n \notin EventFrames
  BY <1>1 DEF CodeFrames, EventFrames, EventOps
<1>6. CodeItems = CodesIn(captured)
  BY <1>5, <1>c, NoCodeFrames
<1>7. ~held[s].cancelled
  BY <1>c DEF CancelledDone
<1>8. Cfg(s).holdWhileUndecided => ~Pending(s)
  <2> SUFFICES ASSUME Cfg(s).holdWhileUndecided, NEW d \in Levels, Fr(d).op = "decide",
                      Fr(d).moment = "KEY_DOWN"
               PROVE  FALSE
    BY DEF Pending
  <2>1. d # n
    OBVIOUS
  <2>2. d + 1 = n /\ Fr(d + 1).moment = "QUICK_TAP"
    BY <2>1, <1>c DEF PressInv
  <2> QED
    BY <2>2 DEF CodeInv, QuickTold
<1>9. PICK dw, Q, q, u : dw = (Bound \ Pressed(s)) \cup Decided(s, st) /\ Q = {} /\ q = 0 /\ u = 0
  OBVIOUS
<1>10. Ready(io, dw, Q, q, u, 0)
  <2>1. Ready(io, (Bound \ Pressed(s)) \cup Decided(s, st), {}, 0, 0, 0)
    BY <1>4, <1>6, <1>7, <1>8, <1>c, DecideEmits
  <2> QED
    BY <1>9, <2>1
<1>11. /\ \A t \in Slots : t # s => held'[t] = held[t]
       /\ held'[s].pos = p /\ held'[s].status = st /\ held'[s].cancelled = held[s].cancelled
  BY <1>3
<1>12. Pressed(s)' = Decided(s, st)
  <2>1. Used(s)' /\ ~held'[s].cancelled /\ Cfg(s)' = Cfg(s) /\ held'[s].status = st
    BY <1>3, <1>7, <1>11 DEF Used, Cfg
  <2>2. Silent(s, held[s].status)' <=> Silent(s, st)
    BY <2>1 DEF Silent
  <2>3. st \in {"TAP", "HOLD_TIMER", "HOLD_INTERRUPT"}
    BY DEF Statuses
  <2> QED
    BY <1>3, <1>11, <2>1, <2>2, <2>3 DEF Pressed, Decided, Silent, IsHold
<1>13. \A t \in Slots : t # s => Pressed(t)' = Pressed(t)
  <2> SUFFICES ASSUME NEW t \in Slots, t # s
               PROVE  Pressed(t)' = Pressed(t)
    OBVIOUS
  <2>1. \A d \in n .. Height' : ~(Fr(d)'.op = "decide" /\ Fr(d)'.moment = "KEY_DOWN")
    BY <1>2
  <2>2. Pending(t)' <=> Pending(t)
    BY <1>1, <1>c, <2>1, PendingOthers
  <2>3. held'[t] = held[t]
    BY <1>11
  <2> QED
    BY <2>2, <2>3, PressedStays
<1>14. \A x \in Plain : x \in seen' <=> x \in seen
  OBVIOUS
<1>15. Bound' = (Bound \ Pressed(s)) \cup Pressed(s)'
  BY <1>13, <1>14, <1>c, BoundMoves
<1>16. Bound' = dw
  BY <1>9, <1>12, <1>15
<1>17. Ready(io, Bound', Q, q, u, 0)
  BY <1>10, <1>16
<1>18. Unsettled(s)
  BY DEF Unsettled
<1>19. \A t \in Slots : t # s => (Unsettled(t)' <=> Unsettled(t)) /\ held'[t] = held[t]
  <2> SUFFICES ASSUME NEW t \in Slots, t # s
               PROVE  (Unsettled(t)' <=> Unsettled(t)) /\ held'[t] = held[t]
    OBVIOUS
  <2>1. held'[t] = held[t]
    BY <1>11
  <2> QED
    BY <2>1, UnsettledStays
<1>20. CancelledTold'
  <2> SUFFICES ASSUME NEW t \in Slots, held'[t].cancelled
               PROVE  ~Unsettled(t)'
    BY DEF CancelledTold, Slots
  <2>1. t # s
    BY <1>7, <1>11
  <2> QED
    BY <1>19, <2>1 DEF CodeInv, CancelledTold
<1>21. QuickTold'
  <2>1. \A d \in n .. Height' : ~(Fr(d)'.op = "decide" /\ Fr(d)'.moment = "QUICK_TAP")
    BY <1>2
  <2> QED
    BY <1>1, <1>c, <2>1, QuickStays
<1>22. HeldClear'
  BY DEF HeldClear
<1>23. Items' = Items
  <2>1. \A d \in n .. Height' : d \notin EventFrames'
    BY <1>2 DEF EventFrames, EventOps
  <2> QED
    BY <1>1, <1>5, <1>c, <2>1, ItemsStay
<1>24. \A t \in Slots : Unsettled(t)' => held'[t].pos \notin Q
                                         /\ \A x \in CodeItems : Owner(x.key) # held'[t].pos
  <2> SUFFICES ASSUME NEW t \in Slots, Unsettled(t)'
               PROVE  \A x \in CodeItems : Owner(x.key) # held'[t].pos
    BY <1>9
  <2>1. Unsettled(t) /\ held'[t].pos = held[t].pos
    BY <1>3, <1>11, <1>18, <1>19
  <2> QED
    BY <2>1 DEF CodeInv, Quiet
<1>25. \A d \in 1 .. n - 1 : Fr(d).op = "finish" =>
         held'[Fr(d).s].pos = held[Fr(d).s].pos /\ held'[Fr(d).s].cancelled = held[Fr(d).s].cancelled
  <2> SUFFICES ASSUME NEW d \in 1 .. n - 1, Fr(d).op = "finish"
               PROVE  held'[Fr(d).s].pos = held[Fr(d).s].pos
                      /\ held'[Fr(d).s].cancelled = held[Fr(d).s].cancelled
    OBVIOUS
  <2>1. d \in Levels
    BY DEF Levels
  <2>2. Fr(d).s \in Slots
    BY <1>c, <2>1, FinishPlace
  <2> QED
    BY <1>3, <1>11, <2>2
<1>26. Items' \subseteq Items /\ (\A y \in Items' : y.key \in Q => q < y.at) /\ SetIO(io) /\ q \in Nat
  BY <1>4, <1>9, <1>23
<1>27. \A d \in 1 .. n - 1 : Fr(d).op = "finish" =>
         /\ held'[Fr(d).s].pos = held[Fr(d).s].pos /\ held'[Fr(d).s].cancelled = held[Fr(d).s].cancelled
         /\ held[Fr(d).s].pos \in Q => q < Place(d) /\ Place(d) \in Nat
  BY <1>9, <1>25
<1>28. NewCalls(n, ops) /\ n \notin CodeFrames /\ ops \cap {"raise", "finish"} = {}
  BY <1>1, <1>5
<1> QED
  BY <1>17, <1>20, <1>21, <1>22, <1>24, <1>26, <1>27, <1>28, CodeAfter

LEMMA DecideHoldTapCodes ==
  ASSUME SimpleHolds, Core, Core', CodeInv, DecideHoldTap, lost' = {}
  PROVE  CodeInv'
<1>c. Types /\ PressInv /\ UndecidedIsUnique /\ TypeOK
  BY DEF Core, Types, CallInv, SlotsInv
<1>1. PICK n : n = Height
  OBVIOUS
<1>2. PICK s : s = Fr(n).s
  OBVIOUS
<1>3. /\ n \in Levels /\ n \in Nat /\ n >= 1 /\ Fr(n).op = "decide" /\ DecideShape(n)
      /\ s \in Slots /\ Used(s) /\ Collects(0) /\ captured' = captured
      /\ UNCHANGED <<config, now, timer, down, presses, seen, typed>>
      /\ \/ Returned(n) /\ UNCHANGED <<undecided, held>> /\ (Fr(n).moment = "KEY_UP" => s # undecided)
         \/ /\ Becomes(n, Release(1)) /\ s = undecided /\ undecided' = 0
            /\ Fr(n).moment # "KEY_DOWN"
            /\ \E st \in Statuses \ {"UNDECIDED"} :
                  /\ held' = [held EXCEPT ![s].status = st]
                  /\ st = "HOLD_TIMER" => Fr(n).moment = "TIMER_EVENT"
  BY <1>1, <1>2, DecideSplits
<1>4. stack \in Seq(Frames) /\ stack # <<>> /\ Fr(n) = Head(stack)
  BY <1>1, <1>c, Top DEF DecideHoldTap
<1>5. PICK m, flavored : m = Fr(n).moment /\ flavored = Flavor(Cfg(s).flavor, m)
  OBVIOUS
<1>6. PICK st : st = Positional(s, flavored)
  OBVIOUS
<1>7. IF held[s].status # "UNDECIDED" \/ s # undecided
      THEN Call(<<>>) /\ UNCHANGED <<undecided, held, captured, lastTapped, out, lost>>
      ELSE IF Cfg(s).holdWhileUndecided /\ m = "KEY_DOWN"
      THEN /\ SetIO(Emit(IO, s, Hold(held[s].pos), TRUE, held[s].ts))
           /\ Call(<<>>) /\ UNCHANGED <<undecided, held>>
      ELSE IF flavored = "UNDECIDED"
      THEN Call(<<>>) /\ UNCHANGED <<undecided, held, captured, lastTapped, out, lost>>
      ELSE /\ held' = [held EXCEPT ![s].status = st]
           /\ undecided' = 0
           /\ SetIO(PressBinding(IO, 0, s, st))
           /\ Call(<<Release(1)>>)
  BY <1>2, <1>4, <1>5, <1>6, Zenon DEF DecideHoldTap
<1>8. s = undecided <=> held[s].status = "UNDECIDED"
  BY <1>3, <1>c DEF UndecidedIsUnique, Used
<1>9. undecided \in Nat /\ undecided # 0 => undecided \in Slots
  BY <1>c, Constants DEF TypeOK, Slots
<1>10. Call(<<>>) => Returned(n)
  BY <1>1, <1>4, Calls0
<1>11. UNCHANGED <<config, seen>>
  BY <1>3
<1>12. /\ flavored \in Statuses /\ (m = "KEY_DOWN" => flavored = "UNDECIDED") /\ m \in Moments
  <2>1. m \in Moments
    BY <1>3, <1>5, <1>c, FrameTypes DEF Frames
  <2> QED
    BY <1>5, <2>1, FlavorIs
<1>13. CASE held[s].status # "UNDECIDED" \/ s # undecided
  <2>1. Returned(n) /\ UNCHANGED <<undecided, held, captured, lastTapped, out, lost>>
    BY <1>7, <1>10, <1>13
  <2>2. held[s].status # "UNDECIDED"
    BY <1>8, <1>13
  <2> QED
    BY <1>1, <1>2, <1>3, <1>11, <2>1, <2>2, DecidesNothing
<1>14. CASE s = undecided /\ Cfg(s).holdWhileUndecided /\ m = "KEY_DOWN"
  <2>1. SetIO(Emit(IO, s, Hold(held[s].pos), TRUE, held[s].ts))
        /\ Returned(n) /\ UNCHANGED <<undecided, held>>
    BY <1>7, <1>8, <1>10, <1>14
  <2> QED
    BY <1>1, <1>2, <1>3, <1>5, <1>8, <1>11, <1>14, <2>1, DecidesHeld
<1>15. CASE s = undecided /\ ~(Cfg(s).holdWhileUndecided /\ m = "KEY_DOWN") /\ flavored = "UNDECIDED"
  <2>1. Returned(n) /\ UNCHANGED <<undecided, held, captured, lastTapped, out, lost>>
    BY <1>7, <1>8, <1>10, <1>15
  <2>2. Fr(n).moment # "KEY_DOWN" \/ ~Cfg(s).holdWhileUndecided
    BY <1>5, <1>15
  <2> QED
    BY <1>1, <1>2, <1>3, <1>11, <2>1, <2>2, DecidesNothing
<1>16. CASE s = undecided /\ ~(Cfg(s).holdWhileUndecided /\ m = "KEY_DOWN") /\ flavored # "UNDECIDED"
  <2>1. /\ held' = [held EXCEPT ![s].status = st] /\ undecided' = 0
        /\ SetIO(PressBinding(IO, 0, s, st)) /\ Call(<<Release(1)>>)
    BY <1>7, <1>8, <1>16
  <2>2. st \in Statuses \ {"UNDECIDED"} /\ m # "KEY_DOWN"
    BY <1>6, <1>12, <1>16 DEF Positional, Statuses
  <2>3. undecided # 0
    BY <1>3, <1>16, Constants
  <2>4. Becomes(n, Release(1))
    BY <1>3, <2>1, <2>3
  <2>5. PICK h : h = held[s]
    OBVIOUS
  <2>6. h \in [pos : HoldTaps \cup {NoPos}, status : Statuses, ts : Nat,
               first : Positions \cup {NoPos}, cancelled : BOOLEAN]
    BY <1>3, <1>c, <2>5 DEF TypeOK
  <2>7. held'[s] = [h EXCEPT !.status = st] /\ \A t \in Slots : t # s => held'[t] = held[t]
    BY <1>3, <1>c, <2>1, <2>5 DEF TypeOK
  <2>8. held'[s].pos = held[s].pos /\ held'[s].status = st /\ held'[s].cancelled = held[s].cancelled
    BY <2>5, <2>6, <2>7
  <2>9. Fr(n).moment # "KEY_DOWN"
    BY <1>5, <2>2
  <2>10. undecided' = 0 /\ SetIO(PressBinding(IO, 0, s, st))
    BY <2>1
  <2> QED
    BY <1>1, <1>2, <1>3, <1>8, <1>11, <1>16, <2>2, <2>4, <2>7, <2>8, <2>9, <2>10, DecidesBinding
<1> QED
  BY <1>13, <1>14, <1>15, <1>16

\* update_hold_status_for_retro_tap presses the hold binding of each silent hold once.
LEMMA RetroReady ==
  ASSUME SimpleHolds, Types, CodeInv, OneSlotPerKey, NEW p,
         NEW P, P = {held[s].pos : s \in RetroSlots(p)}, NEW q \in Nat, NEW u, u = undecided,
         Ready(IO, Bound, P, q, u, Cardinality(RetroSlots(p))), PressRetro(p).lost = {}
  PROVE  Ready(PressRetro(p), Bound \cup {Hold(held[s].pos) : s \in RetroSlots(p)}, P, q, u, 0)
<1> DEFINE R == RetroSlots(p)
           I == IO
<1>1. PICK io : RetroPresses(io, p)
  BY PressRetroIs
<1>2. MaxHeld \in Nat /\ R \subseteq Slots /\ \A s \in R : Used(s) /\ Silent(s, held[s].status)
  BY Constants DEF RetroSlots, Used
<1>3. IOOK(I) /\ TypeOK
  BY IOIs DEF Types
<1>4. io[0] = I /\ PressRetro(p) = io[MaxHeld]
  BY <1>1 DEF RetroPresses
<1>5. \A s \in 1 .. MaxHeld :
        io[s] = IF s \in R THEN PressBinding(io[s - 1], u, s, "HOLD_INTERRUPT") ELSE io[s - 1]
  BY <1>1 DEF RetroPresses
<1>6. P = {held[s].pos : s \in R} /\ Ready(I, Bound, P, q, u, Cardinality(R))
  OBVIOUS
<1>7. IsFiniteSet(R)
  BY <1>2, Constants, FS_Subset
<1> HIDE DEF R, I
<1>8. SUFFICES ASSUME NEW final, final = io[MaxHeld], final.lost = {}
               PROVE  Ready(final, Bound \cup {Hold(held[s].pos) : s \in R}, P, q, u, 0)
  BY <1>4 DEF R
<1> DEFINE rest(n) == R \cap n + 1 .. MaxHeld
           dn(n) == Bound \cup {Hold(held[s].pos) : s \in R \cap 1 .. n}
           ok(n) == IOOK(io[n]) /\ (io[n].lost = {} => Ready(io[n], dn(n), P, q, u, Cardinality(rest(n))))
<1>9. \A s \in R : s \in Nat /\ 1 <= s /\ s <= MaxHeld
  BY <1>2 DEF Slots
<1>10. rest(0) = R /\ rest(MaxHeld) = {} /\ R \cap 1 .. MaxHeld = R
  <2>1. \A s : s \in R => s \in 1 .. MaxHeld /\ s \in 0 + 1 .. MaxHeld /\ s \notin MaxHeld + 1 .. MaxHeld
    BY <1>2, <1>9
  <2> QED
    BY <2>1
<1>11. \A n \in 0 .. MaxHeld : ok(n)
  <2> DEFINE T == {n \in 0 .. MaxHeld : ~ok(n)}
  <2> SUFFICES ASSUME T # {}
               PROVE  FALSE
    OBVIOUS
  <2>1. PICK n \in T : \A k \in T : n <= k
    <3>1. T \subseteq Nat
      OBVIOUS
    <3> HIDE DEF T
    <3> QED
      BY <3>1, Least
  <2>2. CASE n = 0
    <3>1. rest(0) = R
      BY <1>10
    <3>2. dn(0) = Bound
      OBVIOUS
    <3>3. ok(0)
      BY <1>3, <1>4, <1>6, <3>1, <3>2
    <3> QED
      BY <2>1, <2>2, <3>3
  <2>3. CASE n # 0
    <3>1. n \in Nat /\ n - 1 \in 0 .. MaxHeld /\ n - 1 \notin T /\ n \in 1 .. MaxHeld /\ n \in Slots
      <4>1. n \in 0 .. MaxHeld
        OBVIOUS
      <4> HIDE DEF T
      <4> QED
        BY <1>2, <2>1, <2>3, <4>1 DEF Slots
    <3>2. ok(n - 1) /\ io[n] = IF n \in R THEN PressBinding(io[n - 1], u, n, "HOLD_INTERRUPT") ELSE io[n - 1]
      BY <1>5, <3>1
    <3>3. IsFiniteSet(rest(n)) /\ Cardinality(rest(n)) \in Nat
      BY <1>7, FS_Subset, FS_CardinalityType
    <3>4. CASE n \notin R
      <4>1. rest(n) = rest(n - 1) /\ R \cap 1 .. n = R \cap 1 .. n - 1 /\ io[n] = io[n - 1]
        BY <1>2, <3>1, <3>2, <3>4
      <4>2. ok(n)
        BY <3>2, <4>1
      <4> QED
        BY <2>1, <4>2
    <3>5. CASE n \in R
      <4>1. rest(n - 1) = rest(n) \cup {n} /\ n \notin rest(n) /\ R \cap 1 .. n = (R \cap 1 .. n - 1) \cup {n}
        BY <1>2, <3>1, <3>5
      <4>2. Cardinality(rest(n - 1)) = Cardinality(rest(n)) + 1
        BY <3>3, <4>1, FS_AddElement
      <4>3. PICK a, b, k, D, code, ts : /\ a = io[n - 1] /\ b = io[n] /\ k = Cardinality(rest(n))
                                        /\ D = dn(n - 1) /\ code = Hold(held[n].pos) /\ ts = held[n].ts
        OBVIOUS
      <4>4. /\ b = PressBinding(a, u, n, "HOLD_INTERRUPT") /\ IOOK(a) /\ k \in Nat
            /\ a.lost = {} => Ready(a, D, P, q, u, k + 1)
        BY <3>2, <3>3, <3>5, <4>2, <4>3
      <4>5. Used(n) /\ Silent(n, held[n].status) /\ held[n].pos \in HoldTaps /\ ts \in Nat
            /\ code \in Codes /\ Owner(code) = held[n].pos
        BY <1>2, <1>3, <3>1, <3>5, <4>3, SlotIs, CodesAre, CodesDiffer
      <4>6. Owner(code) \in P
        BY <1>6, <3>5, <4>5
      <4>7. ~Cfg(n).holdWhileUndecided
        <5>1. config \in Configs /\ Cfg(n).retroTap = TRUE
          BY <1>3, <3>1, <4>5, CfgIs DEF Silent, HoldTapConfig
        <5> QED
          BY <4>5, <5>1 DEF SimpleHolds, Cfg
      <4>8. b = Emit(a, u, code, TRUE, ts)
        BY <4>3, <4>4, <4>7 DEF PressBinding, Silent, IsHold
      <4>9. Emitted(a, b, 1)
        BY <4>4, <4>5, <4>8, EmitsPress
      <4>10. code \notin D
        <5>1. Pressed(n) = {}
          BY <4>5 DEF Pressed, Silent
        <5>2. code \notin Bound
          BY <1>3, <3>1, <4>5, <5>1, BoundIs
        <5>3. \A t \in R \cap 1 .. n - 1 : Hold(held[t].pos) # code
          <6> SUFFICES ASSUME NEW t \in R \cap 1 .. n - 1, Hold(held[t].pos) = Hold(held[n].pos)
                       PROVE  FALSE
            BY <4>3
          <6>1. held[t].pos = held[n].pos
            BY CodesDiffer
          <6>2. t \in Slots /\ Used(t) /\ t # n
            BY <1>2, <3>1
          <6> QED
            BY <3>1, <6>1, <6>2 DEF OneSlotPerKey
        <5> QED
          BY <4>3, <5>2, <5>3
      <4>11. IOOK(b)
        BY <4>9, EmittedOK
      <4>12. ASSUME b.lost = {}
             PROVE  Ready(b, D \cup {code}, P, q, u, k)
        <5>1. a.lost = {}
          BY <4>9, <4>12 DEF Emitted
        <5>2. Ready(a, D, P, q, u, k + 1)
          BY <4>4, <5>1
        <5> QED
          BY <4>4, <4>5, <4>6, <4>8, <4>10, <4>12, <5>2, PressReady
      <4>13. D \cup {code} = dn(n)
        BY <4>1, <4>3
      <4>14. ok(n)
        BY <4>3, <4>11, <4>12, <4>13
      <4> QED
        BY <2>1, <4>14
    <3> QED
      BY <3>4, <3>5
  <2> QED
    BY <2>2, <2>3
<1>12. Cardinality(rest(MaxHeld)) = 0 /\ dn(MaxHeld) = Bound \cup {Hold(held[s].pos) : s \in R}
  BY <1>10, FS_EmptySet
<1>13. MaxHeld \in 0 .. MaxHeld
  BY <1>2
<1> HIDE DEF rest, dn
<1>14. ok(MaxHeld)
  BY <1>11, <1>13
<1> QED
  BY <1>8, <1>12, <1>14

LEMMA RaisePositionCodes ==
  ASSUME SimpleHolds, Core, Core', CodeInv, RaisePosition, lost' = {}
  PROVE  CodeInv'
<1>c. /\ Types /\ TypeOK /\ CellsInv /\ Rising /\ Gap /\ SlotsInv /\ OneSlotPerKey /\ OthersCaptured
      /\ FinishInv /\ RoomLeft
  BY DEF Core, Types, CellsInv, SlotsInv, CallInv, RoomInv
<1>1. PICK n, e, u : n = Height /\ e = Head(stack).ev /\ u = undecided
  OBVIOUS
<1>2. PICK R : R = RetroSlots(e.key)
  OBVIOUS
<1>3. /\ n \in EventFrames /\ Fr(n).ev = e /\ e \in Event /\ EventOK(e) /\ OnRelease(n)
      /\ n \in Levels /\ n \in Nat /\ n >= 1 /\ Fr(n).op = "raise" /\ e.t = "pos"
  BY <1>1, <1>c, EventOfTop DEF RaisePosition, EventOps
<1>4. UNCHANGED <<config, now, undecided, timer, down, presses, seen, typed>>
      /\ SetIO(PressRetro(e.key))
  BY <1>1 DEF RaisePosition
<1>5. PICK ops : ops = {"invoke", "listen", "decide"} /\ NewCalls(n, ops)
  BY <1>1, <1>c, RaiseCalls
<1>6. /\ Height' >= n /\ Fr(n)'.ev = e
      /\ \/ Height' = n /\ Fr(n)' = Invoke(e)
         \/ /\ Fr(n)' = Listen(e)
            /\ Height' = n \/ (Height' = n + 1 /\ Fr(n + 1)' = Decide(u, "TIMER_EVENT", e))
  BY <1>1, <1>c, RaiseCalls
<1>7. \A d \in n .. Height' :
        \/ d = n /\ Fr(d)'.op \in {"invoke", "listen"}
        \/ d # n /\ Fr(d)'.op = "decide" /\ Fr(d)'.moment = "TIMER_EVENT"
  <2>1. /\ Invoke(e).op = "invoke" /\ Listen(e).op = "listen" /\ Decide(u, "TIMER_EVENT", e).op = "decide"
        /\ Decide(u, "TIMER_EVENT", e).moment = "TIMER_EVENT"
    BY DEF Invoke, Listen, Decide, Frame
  <2> QED
    BY <1>3, <1>6, <2>1
<1>8. /\ Fr(n).op # "release" /\ ops \cap {"raise", "finish"} = {} /\ "release" \notin ops
      /\ n \notin CodeFrames
  BY <1>3, <1>5 DEF CodeFrames
<1>9. /\ \A s \in Slots :
           /\ held'[s].pos = held[s].pos /\ held'[s].cancelled = held[s].cancelled
           /\ held'[s].status = IF s \in R THEN "HOLD_INTERRUPT" ELSE held[s].status
  BY <1>1, <1>2, <1>c, RaiseHeld
<1>10. R \subseteq Slots /\ \A s \in R : Used(s) /\ Silent(s, held[s].status) /\ held[s].pos # e.key
                                         /\ ~held[s].cancelled
  <2>1. R \subseteq Slots /\ \A s \in R : Used(s) /\ Silent(s, held[s].status) /\ held[s].pos # e.key
    BY <1>2 DEF RetroSlots, Used
  <2>2. \A s \in R : ~held[s].cancelled
    BY <2>1 DEF CodeInv, CancelledTold, Unsettled
  <2> QED
    BY <2>1, <2>2
<1>11. PICK P, q : P = {held[s].pos : s \in R} /\ q = Place(n)
  OBVIOUS
<1>12. \A x \in CodeItems : Owner(x.key) \notin P
  <2>1. \A s \in R : Unsettled(s)
    BY <1>10 DEF Unsettled
  <2> QED
    BY <1>10, <1>11, <2>1 DEF CodeInv, Quiet
<1>13. PICK k \in Nat : k = Cardinality(R)
  <2>1. IsFiniteSet(R)
    BY <1>10, Constants, FS_Subset
  <2> QED
    BY <2>1, FS_CardinalityType
<1>14. undecided # 0 /\ n > 1 => Free(captured, Fr(n - 1).s, k)
  <2> SUFFICES ASSUME undecided # 0, n > 1
               PROVE  Free(captured, Fr(n - 1).s, k)
    OBVIOUS
  <2>1. PICK c : c = Cardinality(Silents)
    OBVIOUS
  <2>2. Free(captured, Fr(n - 1).s, c + 2) /\ c \in Nat /\ IsFiniteSet(Silents)
    BY <1>1, <1>3, <1>8, <1>c, <2>1, RoomBefore DEF EventOps
  <2>3. R \subseteq Silents
    BY <1>10 DEF Silents
  <2>4. k <= c
    BY <1>13, <2>1, <2>2, <2>3, FS_Subset
  <2>5. Fr(n - 1).s \in Nat
    BY <1>1, <1>3, <1>8, <1>c, TopReleaseIs
  <2>6. PICK w \in Nat : w = c + 2 /\ k <= w
    BY <2>2, <2>4
  <2>7. Free(captured, Fr(n - 1).s, w)
    BY <2>2, <2>6
  <2> QED
    BY <2>5, <2>6, <2>7, FreeLess
<1>15. Ready(IO, Bound, P, q, u, k) /\ q \in Nat
  <2>1. \A x \in CodeItems : Owner(x.key) \in P => x.at <= Place(n)
    BY <1>12
  <2>2. Ready(IO, Bound, P, Place(n), undecided, k) /\ Place(n) \in Nat
    BY <1>1, <1>3, <1>8, <1>14, <2>1, ReadyNow
  <2> QED
    BY <1>1, <1>11, <2>2
<1>16. PICK io, dw : io = PressRetro(e.key) /\ dw = Bound \cup {Hold(held[s].pos) : s \in R}
  OBVIOUS
<1>17. SetIO(io) /\ io.lost = {}
  BY <1>4, <1>16 DEF SetIO
<1>18. Ready(io, dw, P, q, u, 0)
  BY <1>1, <1>2, <1>11, <1>13, <1>15, <1>16, <1>17, <1>c, RetroReady
<1>19. \A s \in Slots : Pressed(s)' = IF s \in R THEN {Hold(held[s].pos)} ELSE Pressed(s)
  <2> SUFFICES ASSUME NEW s \in Slots
               PROVE  Pressed(s)' = IF s \in R THEN {Hold(held[s].pos)} ELSE Pressed(s)
    OBVIOUS
  <2>1. CASE s \in R
    <3>1. Used(s) /\ ~held[s].cancelled
      BY <1>10, <2>1
    <3>2. Used(s)' /\ ~held'[s].cancelled /\ held'[s].status = "HOLD_INTERRUPT" /\ held'[s].pos = held[s].pos
      BY <1>9, <2>1, <3>1 DEF Used
    <3> QED
      BY <2>1, <3>2 DEF Pressed, Silent
  <2>2. CASE s \notin R
    <3>1. \A d \in n .. Height' : ~(Fr(d)'.op = "decide" /\ Fr(d)'.moment = "KEY_DOWN")
      BY <1>7
    <3>2. ~(Fr(n).op = "decide" /\ Fr(n).moment = "KEY_DOWN")
      BY <1>3
    <3>3. \A t : Pending(t)' <=> Pending(t)
      BY <1>1, <1>3, <1>5, <1>c, <3>1, <3>2, PendingStays
    <3>4. config' = config /\ held'[s].pos = held[s].pos /\ held'[s].status = held[s].status
          /\ held'[s].cancelled = held[s].cancelled
      BY <1>4, <1>9, <2>2
    <3> QED
      BY <2>2, <3>3, <3>4, PressedStays
  <2> QED
    BY <2>1, <2>2
<1>20. \A s \in R : Pressed(s) = {}
  BY <1>10 DEF Pressed, Silent
<1>21. Bound' = dw
  <2>1. seen' = seen
    BY <1>4
  <2>2. \A c : c \in UNION {Pressed(s)' : s \in Slots}
                 <=> c \in UNION {Pressed(s) : s \in Slots} \/ c \in {Hold(held[s].pos) : s \in R}
    BY <1>10, <1>19, <1>20
  <2> QED
    BY <1>16, <2>1, <2>2 DEF Bound, Key, Slots
<1>22. Ready(io, Bound', P, q, u, 0)
  BY <1>18, <1>21
<1>23. Collects(Cardinality(RetroSlots(e.key)))
  BY <1>1, <1>c, RaiseTypes
<1>24. Items' = Items
  <2>1. \A d \in n .. Height' : d \in EventFrames' <=> d = n /\ n \in EventFrames
    <3>1. \A d \in n .. Height' : d \in Levels'
      BY <1>3, <1>5 DEF NewCalls, Levels
    <3> QED
      BY <1>3, <1>6, <1>7, <3>1 DEF EventFrames, EventOps
  <2>2. n \in EventFrames' /\ Fr(n)'.ev = Fr(n).ev
    <3>1. n \in n .. Height'
      BY <1>3, <1>5, <1>6 DEF NewCalls
    <3> QED
      BY <1>3, <1>6, <2>1, <3>1
  <2> QED
    BY <1>1, <1>3, <1>5, <1>23, <1>c, <2>1, <2>2, ItemsStay
<1>25. \A y \in Items' : y.key \in P => q < y.at
  <2> SUFFICES ASSUME NEW y \in Items, NEW s \in R, y.key = held[s].pos
               PROVE  q < y.at
    BY <1>11, <1>24
  <2>1. y \in Placed(Positions) /\ y.at # Place(n)
    <3>1. y \in Placed(Positions) /\ (y.at = Place(n) => y = Item(Place(n), Fr(n).ev))
      BY <1>1, <1>3, <1>c, ItemsAround
    <3>2. Item(Place(n), Fr(n).ev).key = e.key
      BY <1>3 DEF Item
    <3> QED
      BY <1>10, <3>1, <3>2
  <2>2. ~(y.at < Place(n))
    <3> SUFFICES ASSUME y.at < Place(n)
                 PROVE  FALSE
      OBVIOUS
    <3>1. PICK i \in EventCells : Low(i) /\ y = Item(i, captured[i])
      BY <1>1, <1>3, <1>c, ItemsAround
    <3>2. captured[i].key = held[s].pos
      BY <3>1 DEF Item
    <3> QED
      BY <1>10, <1>c, <3>1, <3>2 DEF OthersCaptured
  <2>3. y.at \in Nat
    BY <2>1, ItemIs
  <2> QED
    BY <1>11, <1>15, <2>1, <2>2, <2>3
<1>26. \A d \in 1 .. n - 1 : Fr(d).op = "finish" =>
         /\ held'[Fr(d).s].pos = held[Fr(d).s].pos /\ held'[Fr(d).s].cancelled = held[Fr(d).s].cancelled
         /\ held[Fr(d).s].pos \in P => q < Place(d) /\ Place(d) \in Nat
  <2> SUFFICES ASSUME NEW d \in 1 .. n - 1, Fr(d).op = "finish"
               PROVE  /\ held'[Fr(d).s].pos = held[Fr(d).s].pos
                      /\ held'[Fr(d).s].cancelled = held[Fr(d).s].cancelled
                      /\ q < Place(d) /\ Place(d) \in Nat
    OBVIOUS
  <2>1. Place(n) < Place(d) /\ Place(d) \in Nat /\ Fr(d).s \in Slots
    BY <1>1, <1>3, <1>8, FinishesLater
  <2> QED
    BY <1>9, <1>11, <2>1
<1>27. \A s \in Slots : Unsettled(s)' => Unsettled(s) /\ s \notin R /\ held'[s].pos = held[s].pos
  <2> SUFFICES ASSUME NEW s \in Slots, Unsettled(s)'
               PROVE  Unsettled(s) /\ s \notin R /\ held'[s].pos = held[s].pos
    OBVIOUS
  <2>1. s \notin R
    BY <1>9 DEF Unsettled, Silent
  <2>2. config' = config /\ held'[s].pos = held[s].pos /\ held'[s].status = held[s].status
    BY <1>4, <1>9, <2>1
  <2> QED
    BY <2>1, <2>2, UnsettledStays
<1>28. \A s \in Slots : Unsettled(s)' =>
         held'[s].pos \notin P /\ \A x \in CodeItems : Owner(x.key) # held'[s].pos
  <2> SUFFICES ASSUME NEW s \in Slots, Unsettled(s)'
               PROVE  held[s].pos \notin P /\ \A x \in CodeItems : Owner(x.key) # held[s].pos
    BY <1>9
  <2>1. Unsettled(s) /\ s \notin R
    BY <1>27
  <2>2. \A t \in R : held[t].pos # held[s].pos
    BY <1>10, <1>c, <2>1 DEF OneSlotPerKey
  <2> QED
    BY <1>11, <2>1, <2>2 DEF CodeInv, Quiet
<1>29. CancelledTold'
  <2> SUFFICES ASSUME NEW s \in Slots, held'[s].cancelled
               PROVE  ~Unsettled(s)'
    BY DEF CancelledTold, Slots
  <2> QED
    BY <1>9, <1>27 DEF CodeInv, CancelledTold
<1>30. QuickTold'
  <2>1. \A d \in n .. Height' : ~(Fr(d)'.op = "decide" /\ Fr(d)'.moment = "QUICK_TAP")
    BY <1>7
  <2> QED
    BY <1>1, <1>3, <1>5, <1>c, <2>1, QuickStays
<1>31. HeldClear'
  <2>1. undecided # 0 => held'[undecided].pos = held[undecided].pos
    BY <1>9, <1>c, Constants DEF TypeOK, Slots
  <2>2. UNCHANGED <<config, undecided>>
    BY <1>4
  <2>3. Ready(io, dw, P, Place(n), undecided, 0)
    BY <1>1, <1>11, <1>18
  <2> QED
    BY <1>1, <1>3, <1>5, <1>8, <1>17, <2>1, <2>2, <2>3, HeldEmits
<1>32. n \in Levels /\ n = Height /\ q \in Nat /\ SetIO(io) /\ Items' \subseteq Items /\ NewCalls(n, ops)
  BY <1>1, <1>3, <1>5, <1>15, <1>17, <1>24
<1> QED
  BY <1>8, <1>22, <1>25, <1>26, <1>28, <1>29, <1>30, <1>31, <1>32, CodeAfter

\* What starts a handler emits nothing.
LEMMA OutsetCodes ==
  ASSUME Core, CodeInv, Idle, UNCHANGED <<config, undecided, captured, out, seen>>,
         \A d \in Levels' : /\ Fr(d)'.op \in {"raise", "decide"} /\ ~(Fr(d)'.op = "raise" /\ Fr(d)'.ev.t = "code")
                            /\ ~(Fr(d)'.op = "decide" /\ Fr(d)'.moment \in {"KEY_DOWN", "QUICK_TAP"}),
         \A s \in Slots : s = undecided => held'[s] = held[s],
         \A s \in Slots : held'[s] = held[s] \/ (held[s].cancelled /\ held'[s] = FreeSlot),
         \A x \in CodeItems, y \in Items' : y.key = Owner(x.key) => y \in Items \/ x.at < y.at
  PROVE  CodeInv'
<1>c. Types /\ TypeOK
  BY DEF Core, Types
<1>1. Levels = {} /\ CodeFrames = {} /\ \A i : Low(i)
  BY <1>c, IdleIs DEF CodeFrames
<1>2. CodeFrames' = {}
  BY DEF CodeFrames
<1>3. CodeItems = CodesIn(captured) /\ CodeItems' = CodesIn(captured')
  BY <1>1, <1>2 DEF CodeItems
<1>4. CodeItems' = CodeItems
  BY <1>3 DEF CodesIn
<1>5. \A t : ~Pending(t) /\ ~Pending(t)'
  BY <1>1 DEF Pending
<1>6. \A s \in Slots : held'[s] = FreeSlot =>
        /\ Pressed(s)' = {} /\ ~Unsettled(s)' /\ ~held'[s].cancelled
  BY DEF Pressed, Unsettled, Used, FreeSlot
<1>7. \A s \in Slots : Pressed(s)' = Pressed(s)
  <2> SUFFICES ASSUME NEW s \in Slots
               PROVE  Pressed(s)' = Pressed(s)
    OBVIOUS
  <2>1. CASE held'[s] = held[s]
    BY <1>5, <2>1, PressedStays
  <2>2. CASE held[s].cancelled /\ held'[s] = FreeSlot
    <3>1. Pressed(s) = {}
      BY <2>2 DEF Pressed
    <3> QED
      BY <1>6, <2>2, <3>1
  <2> QED
    BY <2>1, <2>2
<1>8. Bound' = Bound
  <2>1. \A p \in Plain : p \in seen' <=> p \in seen
    OBVIOUS
  <2> QED
    BY <1>7, <2>1, BoundStays
<1>9. Told(out', CodeItems', Bound')
  BY <1>4, <1>8 DEF CodeInv
<1>10. BeforeEvents'
  BY <1>4 DEF CodeInv, BeforeEvents, Owner
<1>11. BeforeFinish' /\ FinishLive' /\ QuickTold'
  BY DEF BeforeFinish, FinishLive, QuickTold
<1>12. \A s \in Slots : Unsettled(s)' => Unsettled(s) /\ held'[s] = held[s]
  <2> SUFFICES ASSUME NEW s \in Slots, Unsettled(s)'
               PROVE  Unsettled(s) /\ held'[s] = held[s]
    OBVIOUS
  <2>1. held'[s] = held[s]
    BY <1>6
  <2> QED
    BY <2>1, UnsettledStays
<1>13. Quiet'
  <2> SUFFICES ASSUME NEW s \in Slots, Unsettled(s)', NEW x \in CodeItems
               PROVE  Owner(x.key) # held'[s].pos
    BY <1>4 DEF Quiet, Owner, Slots
  <2> QED
    BY <1>12 DEF CodeInv, Quiet
<1>14. CancelledTold'
  <2> SUFFICES ASSUME NEW s \in Slots, held'[s].cancelled, Unsettled(s)'
               PROVE  FALSE
    BY DEF CancelledTold, Slots
  <2> QED
    BY <1>12 DEF CodeInv, CancelledTold
<1>15. HeldClear'
  <2>1. undecided # 0 => held'[undecided].pos = held[undecided].pos
    BY <1>c, Constants DEF TypeOK, Slots
  <2> QED
    BY <1>1, <2>1, HeldStays
<1> QED
  BY <1>9, <1>10, <1>11, <1>13, <1>14, <1>15 DEF CodeInv

LEMMA KeyCodes ==
  ASSUME Core, CodeInv, Idle, NEW p \in Positions, NEW st \in BOOLEAN,
         stack' = <<Raise(KeyEvent(p, st))>>,
         UNCHANGED <<config, now, undecided, held, timer, captured, lastTapped, seen, out, lost>>
  PROVE  CodeInv'
<1>c. Types /\ TypeOK /\ CapturedOK
  BY DEF Core, Types
<1>1. PICK ev : ev = KeyEvent(p, st)
  OBVIOUS
<1>2. ev \in Event /\ ev.t = "pos"
  <2>1. now \in Nat
    BY <1>c, ConstantsAssumption DEF TypeOK
  <2> QED
    BY <1>1, <2>1 DEF KeyEvent, Event
<1>3. Raise(ev) \in Frames /\ Raise(ev).op = "raise" /\ Raise(ev).ev = ev
  BY <1>2, FramesAre
<1>4. Becomes(1, Raise(ev))
  BY <1>1, <1>3, Starts
<1>5. Levels' = {1} /\ Fr(1)'.op = "raise" /\ Fr(1)'.ev = ev
  BY <1>3, <1>4 DEF Becomes, Levels
<1>6. \A y \in Items' : y \in Items \/ y.at = MaxCaptured + 1
  <2>1. EventCells' = EventCells /\ EventFrames' \subseteq {1}
    BY <1>5 DEF EventCells, EventFrames
  <2>2. Place(1)' = MaxCaptured + 1
    BY DEF Place
  <2>3. Item(Place(1)', Fr(1)'.ev).at = MaxCaptured + 1
    BY <2>2 DEF Item
  <2> QED
    BY <2>1, <2>3 DEF Items
<1>7. \A x \in CodeItems : x.at < MaxCaptured + 1
  <2>1. Levels = {} /\ CodeItems = CodesIn(captured)
    BY <1>c, IdleIs DEF CodeFrames, CodeItems
  <2>2. captured \in [Cells -> Event] /\ \A i \in Cells : captured[i] # NoEvent => EventOK(captured[i])
    BY <1>c DEF TypeOK, CapturedOK
  <2>3. \A x \in CodeItems : x.at \in Cells
    BY <2>1, <2>2, CodesAreItems
  <2> QED
    BY <2>3, Constants DEF Cells
<1>8. \A x \in CodeItems, y \in Items' : y.key = Owner(x.key) => y \in Items \/ x.at < y.at
  BY <1>6, <1>7
<1>9. \A s \in Slots : held'[s] = held[s]
  OBVIOUS
<1>10. \A d \in Levels' : Fr(d)'.op = "raise" /\ Fr(d)'.ev.t # "code"
  BY <1>2, <1>5
<1> QED
  BY <1>8, <1>9, <1>10, OutsetCodes

LEMMA TimerHandlerCodes ==
  ASSUME Core, CodeInv, NEW s \in Slots, TimerHandler(s)
  PROVE  CodeInv'
<1>c. Types /\ TypeOK /\ CancelledDone
  BY DEF Core, Types, SlotsInv
<1>1. /\ Idle /\ Used(s)
      /\ UNCHANGED <<config, now, undecided, captured, lastTapped, down, presses, seen, typed, out, lost>>
  BY DEF TimerHandler, Used
<1>2. EventCells' = EventCells /\ EventFrames = {} /\ Levels = {}
  BY <1>1, <1>c, IdleIs DEF EventCells
<1>3. CASE held[s].cancelled
  <2>1. held' = [held EXCEPT ![s] = FreeSlot] /\ stack' = stack
    BY <1>3 DEF TimerHandler
  <2>2. held'[s] = FreeSlot /\ \A x \in Slots : x # s => held'[x] = held[x]
    BY <1>c, <2>1 DEF TypeOK
  <2>3. s # undecided
    BY <1>3, <1>c DEF CancelledDone
  <2>4. Levels' = {}
    BY <1>2, <2>1 DEF Levels, Height
  <2>5. Items' \subseteq Items
    BY <1>1, <1>2, <2>4 DEF Items, EventFrames
  <2>6. \A x \in Slots : held'[x] = held[x] \/ (held[x].cancelled /\ held'[x] = FreeSlot)
    BY <1>3, <2>2
  <2>7. \A x \in Slots : x = undecided => held'[x] = held[x]
    BY <2>2, <2>3
  <2>8. \A x \in CodeItems, y \in Items' : y.key = Owner(x.key) => y \in Items \/ x.at < y.at
    BY <2>5
  <2> QED
    BY <1>1, <2>4, <2>6, <2>7, <2>8, OutsetCodes
<1>4. CASE ~held[s].cancelled
  <2>1. PICK ev : ev = [NoEvent EXCEPT !.ts = now]
    OBVIOUS
  <2>2. stack' = <<Decide(s, "TIMER_EVENT", ev)>> /\ held' = held
    BY <1>4, <2>1 DEF TimerHandler
  <2>3. ev \in Event /\ s \in Nat
    <3>1. now \in Nat
      BY <1>c, ConstantsAssumption DEF TypeOK
    <3> QED
      BY <2>1, <3>1, Constants DEF NoEvent, Event
  <2>4. PICK f : f = Decide(s, "TIMER_EVENT", ev)
    OBVIOUS
  <2>5. f \in Frames /\ f.op = "decide" /\ f.s = s /\ f.moment = "TIMER_EVENT"
    BY <2>3, <2>4, FramesAre DEF Moments
  <2>6. Becomes(1, f)
    BY <2>2, <2>4, <2>5, Starts
  <2>7. Levels' = {1} /\ Fr(1)' = f
    BY <2>6 DEF Becomes, Levels
  <2>8. \A d \in Levels' : Fr(d)'.op = "decide" /\ Fr(d)'.moment = "TIMER_EVENT"
    BY <2>5, <2>7
  <2>9. Items' \subseteq Items
    <3>1. EventFrames' = {}
      BY <2>8 DEF EventFrames, EventOps
    <3> QED
      BY <1>1, <1>2, <3>1 DEF Items
  <2>10. \A x \in CodeItems, y \in Items' : y.key = Owner(x.key) => y \in Items \/ x.at < y.at
    BY <2>9
  <2>11. \A x \in Slots : held'[x] = held[x]
    BY <2>2
  <2> QED
    BY <1>1, <2>8, <2>10, <2>11, OutsetCodes
<1> QED
  BY <1>3, <1>4

LEMMA TickCodes ==
  ASSUME CodeInv, UNCHANGED <<config, undecided, held, captured, stack, seen, out>>
  PROVE  CodeInv'
<1>1. Height' = Height /\ Levels' = Levels /\ \A d : Fr(d)' = Fr(d)
  BY DEF Height, Levels, Fr
<1>2. (\A d : IsRelease(d)' <=> IsRelease(d)) /\ \A d : Place(d)' = Place(d)
  BY <1>1 DEF IsRelease, Place
<1>3. \A i : Low(i)' <=> Low(i)
  BY <1>1, <1>2 DEF Low
<1>4. CodeItems' = CodeItems /\ Items' = Items
  <2>1. CodeFrames' = CodeFrames /\ EventFrames' = EventFrames /\ EventCells' = EventCells
    BY <1>1 DEF CodeFrames, EventFrames, EventCells
  <2>2. CodesIn(captured') = CodesIn(captured)
    OBVIOUS
  <2> QED
    BY <1>1, <1>2, <2>1, <2>2 DEF CodeItems, Items, CodesIn
<1>5. \A s \in Slots : (Pressed(s)' = Pressed(s)) /\ (Unsettled(s)' <=> Unsettled(s))
  <2>1. \A s : Pending(s)' <=> Pending(s)
    BY <1>1 DEF Pending
  <2> QED
    BY <2>1, PressedStays, UnsettledStays
<1>6. Bound' = Bound
  <2>1. \A p \in Plain : p \in seen' <=> p \in seen
    OBVIOUS
  <2> QED
    BY <1>5, <2>1, BoundStays
<1>7. Told(out', CodeItems', Bound') /\ BeforeEvents'
  BY <1>4, <1>6 DEF CodeInv, BeforeEvents, Owner
<1>8. BeforeFinish' /\ FinishLive' /\ QuickTold'
  BY <1>1, <1>2, <1>4 DEF CodeInv, BeforeFinish, FinishLive, QuickTold, Owner, Cfg
<1>9. Quiet' /\ CancelledTold'
  BY <1>4, <1>5 DEF CodeInv, Quiet, CancelledTold, Owner, Slots
<1>10. HeldClear'
  BY <1>3, HeldStays
<1> QED
  BY <1>7, <1>8, <1>9, <1>10 DEF CodeInv

LEMMA CodeInit == Init => CodeInv
<1> SUFFICES ASSUME Init
             PROVE  CodeInv
  OBVIOUS
<1>1. Core /\ Idle
  BY CoreInit DEF Init, Idle
<1>2. Levels = {} /\ CodeFrames = {}
  BY <1>1, IdleIs DEF Core, CodeFrames
<1>3. \A i \in Cells : captured[i].t = "none"
  BY DEF Init, NoEvent
<1>4. CodeItems = {}
  BY <1>2, <1>3 DEF CodeItems, CodesIn
<1>5. \A s \in Slots : ~Used(s) /\ ~held[s].cancelled
  BY DEF Init, FreeSlot, Used
<1>6. Bound = {}
  <2>1. seen = {} /\ \A s \in Slots : Pressed(s) = {}
    BY <1>5 DEF Init, Pressed
  <2> QED
    BY <2>1 DEF Bound
<1>7. Told(out, CodeItems, Bound)
  <2>1. \A c \in Codes : out[c] = 0
    BY DEF Init
  <2>2. On(out) = {}
    BY <2>1 DEF On
  <2> QED
    BY <1>4, <1>6, <2>1, <2>2 DEF Told, OnePerPlace, Alternates
<1>8. HeldClear
  BY DEF Init, HeldClear
<1> QED
  BY <1>2, <1>4, <1>5, <1>7, <1>8
  DEF CodeInv, BeforeEvents, BeforeFinish, Quiet, Unsettled, FinishLive, CancelledTold, QuickTold
-----------------------------------------------------------------------------
(* Time stamps: what a press was stamped with is never earlier than the key *)
(* tapped last, and presses wait in the order of their stamps.  A press     *)
(* that is replayed late is therefore no quick tap of a later key.          *)

\* Where a press waits, and its time stamp
Stamp(q, ev) == [at |-> q, ts |-> ev.ts]
Stamps == {Stamp(i, captured[i]) : i \in {j \in EventCells : captured[j].state}}
            \cup {Stamp(Place(d), Fr(d).ev) : d \in {e \in EventFrames : Fr(e).ev.state}}
\* t is before now and before every press that waits
Past(t) == t <= now /\ \A x \in Stamps : t <= x.ts
TimeInv == /\ \A x \in Stamps : x.ts \in Nat /\ x.ts <= now
           /\ \A x, y \in Stamps : x.at <= y.at => x.ts <= y.ts
           /\ Past(lastTapped.ts)
           /\ \A s \in Slots : Used(s) => Past(held[s].ts)

\* What a keycode changes has a last tapped key of the past.
Dated(io) == IOOK(io) /\ Past(io.last.ts)

LEMMA CaptureLast ==
  ASSUME NEW io, IOOK(io), NEW ev
  PROVE  Capture(io, ev).last = io.last
<1> DEFINE free == {i \in Cells : io.cap[i] = NoEvent}
           f == CHOOSE i \in free : \A j \in free : i <= j
           new == Capture(io, ev)
<1>1. new = [io EXCEPT !.lost = @ \cup {ev.key}] \/ new = [io EXCEPT !.cap[f] = ev]
  BY DEF Capture
<1> HIDE DEF new, f
<1>2. new.last = io.last
  BY <1>1 DEF IOOK, IOs
<1> QED
  BY <1>2 DEF new

\* A keycode sets the last tapped key only to the time of a press of the past.
LEMMA EmitDated ==
  ASSUME NEW io, Dated(io), NEW u, NEW code \in Codes, NEW state \in BOOLEAN, NEW ts \in Nat,
         state => Past(ts)
  PROVE  Dated(Emit(io, u, code, state, ts))
<1> DEFINE typing == state /\ Kind[code] = "key" /\ ts > io.last.ts
           io1 == IF typing THEN [io EXCEPT !.last = [pos |-> NoPos, ts |-> ts]] ELSE io
           ev == [t |-> "code", key |-> code, state |-> state, ts |-> ts]
           one == IF state THEN 1 ELSE -1
           new == Emit(io, u, code, state, ts)
<1>1. new = Capture(io1, ev) \/ new = [io1 EXCEPT !.out[code] = @ + one]
  BY DEF Emit
<1>2. io \in IOs /\ IOOK(io) /\ Past(io.last.ts)
  BY DEF Dated, IOOK
<1>3. IOOK(io1) /\ io1 \in IOs
  BY <1>2 DEF IOOK, IOs
<1>4. Past(io1.last.ts)
  <2>1. CASE typing
    <3>1. io1.last.ts = ts
      BY <1>2, <2>1 DEF IOs
    <3> HIDE DEF io1
    <3> QED
      BY <2>1, <3>1
  <2>2. CASE ~typing
    BY <1>2, <2>2
  <2> QED
    BY <2>1, <2>2
<1> HIDE DEF io1, ev, one
<1>5. IOOK(new)
  <2>1. Emitted(io, new, 1)
    BY <1>2, Emits
  <2> QED
    BY <2>1, EmittedOK
<1>6. new.last = io1.last
  <2>1. CASE new = Capture(io1, ev)
    BY <1>3, <2>1, CaptureLast
  <2>2. CASE new = [io1 EXCEPT !.out[code] = @ + one]
    BY <1>3, <2>2 DEF IOs
  <2> QED
    BY <1>1, <2>1, <2>2
<1> HIDE DEF new
<1>7. Dated(new)
  BY <1>4, <1>5, <1>6 DEF Dated
<1> QED
  BY <1>7 DEF new

LEMMA EmitPressDated ==
  ASSUME NEW io, Dated(io), NEW u, NEW code \in Codes, NEW ts \in Nat, Past(ts)
  PROVE  Dated(Emit(io, u, code, TRUE, ts))
<1> DEFINE st == TRUE
<1>1. st \in BOOLEAN
  OBVIOUS
<1> HIDE DEF st
<1>2. Dated(Emit(io, u, code, st, ts))
  BY <1>1, EmitDated
<1> QED
  BY <1>2 DEF st

LEMMA EmitReleaseDated ==
  ASSUME NEW io, Dated(io), NEW u, NEW code \in Codes, NEW ts \in Nat
  PROVE  Dated(Emit(io, u, code, FALSE, ts))
<1> DEFINE st == FALSE
<1>1. st \in BOOLEAN /\ ~st
  OBVIOUS
<1> HIDE DEF st
<1>2. Dated(Emit(io, u, code, st, ts))
  BY <1>1, EmitDated
<1> QED
  BY <1>2 DEF st

LEMMA PressDated ==
  ASSUME TypeOK, NEW s \in Slots, Used(s), Past(held[s].ts), NEW io, Dated(io), NEW u, NEW status
  PROVE  Dated(PressBinding(io, u, s, status))
<1> DEFINE p == held[s].pos
           ts == held[s].ts
           unheld == IF Cfg(s).holdWhileUndecided /\ ~Cfg(s).linger
                     THEN Emit(io, u, Hold(p), FALSE, ts) ELSE io
           last == [unheld EXCEPT !.last = [pos |-> p, ts |-> ts]]
           new == PressBinding(io, u, s, status)
<1>1. p \in HoldTaps /\ ts \in Nat /\ Tap(p) \in Codes /\ Hold(p) \in Codes /\ Past(ts)
  BY SlotIs, CodesAre
<1>2. \/ new = io
      \/ new = Emit(io, u, Hold(p), TRUE, ts)
      \/ new = Emit(last, u, Tap(p), TRUE, ts)
  BY DEF PressBinding
<1> HIDE DEF p, ts
<1>3. Dated(unheld)
  <2>1. Dated(Emit(io, u, Hold(p), FALSE, ts))
    BY <1>1, EmitReleaseDated
  <2> QED
    BY <2>1
<1> HIDE DEF unheld
<1>4. Dated(last)
  <2>1. IOOK(unheld)
    BY <1>3 DEF Dated
  <2>2. IOOK(last)
    BY <1>1, <2>1, KeepsLast
  <2>3. last.last.ts = ts
    BY <2>1 DEF IOOK, IOs
  <2> HIDE DEF last
  <2> QED
    BY <1>1, <2>2, <2>3 DEF Dated
<1> HIDE DEF last, new
<1>5. Dated(Emit(io, u, Hold(p), TRUE, ts))
  BY <1>1, EmitPressDated
<1>6. Dated(Emit(last, u, Tap(p), TRUE, ts))
  BY <1>1, <1>4, EmitPressDated
<1>7. Dated(new)
  BY <1>2, <1>5, <1>6
<1> QED
  BY <1>7 DEF new

LEMMA ReleaseDated ==
  ASSUME TypeOK, NEW s \in Slots, Used(s), NEW io, Dated(io), NEW u, NEW status
  PROVE  Dated(ReleaseBinding(io, u, s, status))
<1> DEFINE new == ReleaseBinding(io, u, s, status)
           code == IF IsHold(status) THEN Hold(held[s].pos) ELSE Tap(held[s].pos)
<1>1. held[s].ts \in Nat /\ code \in Codes
  BY SlotIs, CodesAre
<1>2. new = io \/ new = Emit(io, u, code, FALSE, held[s].ts)
  BY DEF ReleaseBinding
<1> HIDE DEF new, code
<1>3. Dated(Emit(io, u, code, FALSE, held[s].ts))
  BY <1>1, EmitReleaseDated
<1>4. Dated(new)
  BY <1>2, <1>3
<1> QED
  BY <1>4 DEF new

LEMMA IODated ==
  ASSUME Types, TimeInv
  PROVE  Dated(IO)
<1>1. IOOK(IO)
  BY IOIs
<1>2. IO.last = lastTapped
  BY DEF IO
<1> QED
  BY <1>1, <1>2 DEF Dated, TimeInv

LEMMA RetroDated ==
  ASSUME Types, TimeInv, NEW p
  PROVE  Dated(PressRetro(p))
<1>1. PICK io : RetroPresses(io, p)
  BY PressRetroIs
<1>2. MaxHeld \in Nat /\ io[0] = IO /\ PressRetro(p) = io[MaxHeld]
  BY <1>1, Constants DEF RetroPresses
<1>3. \A s \in 1 .. MaxHeld :
        \/ io[s] = io[s - 1]
        \/ s \in RetroSlots(p) /\ io[s] = PressBinding(io[s - 1], undecided, s, "HOLD_INTERRUPT")
  BY <1>1 DEF RetroPresses
<1>4. Dated(io[0])
  BY <1>2, IODated
<1> DEFINE T == {n \in 0 .. MaxHeld : ~Dated(io[n])}
<1>5. T = {}
  <2> SUFFICES ASSUME T # {}
               PROVE  FALSE
    OBVIOUS
  <2>1. PICK n \in T : \A k \in T : n <= k
    <3>1. T \subseteq Nat
      OBVIOUS
    <3> HIDE DEF T
    <3> QED
      BY <3>1, Least
  <2>2. n # 0
    BY <1>4, <2>1
  <2>3. n \in 1 .. MaxHeld /\ n - 1 \in 0 .. MaxHeld /\ n - 1 \notin T
    BY <1>2, <2>1, <2>2
  <2>4. Dated(io[n - 1]) /\ ~Dated(io[n])
    BY <2>1, <2>3
  <2>5. n \in RetroSlots(p) /\ io[n] = PressBinding(io[n - 1], undecided, n, "HOLD_INTERRUPT")
    BY <1>3, <2>3, <2>4
  <2>6. n \in Slots /\ Used(n)
    BY <2>3, <2>5 DEF RetroSlots, Used, Slots
  <2>7. Past(held[n].ts)
    BY <2>6 DEF TimeInv
  <2>8. TypeOK
    BY DEF Types
  <2>9. Dated(PressBinding(io[n - 1], undecided, n, "HOLD_INTERRUPT"))
    BY <2>4, <2>6, <2>7, <2>8, PressDated
  <2> QED
    BY <2>4, <2>5, <2>9
<1>6. MaxHeld \in 0 .. MaxHeld
  BY <1>2
<1> QED
  BY <1>2, <1>5, <1>6

\* A keycode that is no key of its own leaves the last tapped key.
LEMMA EmitOther ==
  ASSUME NEW io, Dated(io), NEW u, NEW code \in Codes, Kind[code] # "key",
         NEW state \in BOOLEAN, NEW ts \in Nat
  PROVE  Dated(Emit(io, u, code, state, ts))
<1> DEFINE ev == [t |-> "code", key |-> code, state |-> state, ts |-> ts]
           one == IF state THEN 1 ELSE -1
           new == Emit(io, u, code, state, ts)
<1>1. new = Capture(io, ev) \/ new = [io EXCEPT !.out[code] = @ + one]
  BY DEF Emit
<1>2. io \in IOs /\ IOOK(io) /\ Past(io.last.ts)
  BY DEF Dated, IOOK
<1> HIDE DEF ev, one
<1>3. IOOK(new)
  <2>1. Emitted(io, new, 1)
    BY <1>2, Emits
  <2> QED
    BY <2>1, EmittedOK
<1>4. new.last = io.last
  <2>1. CASE new = Capture(io, ev)
    BY <1>2, <2>1, CaptureLast
  <2>2. CASE new = [io EXCEPT !.out[code] = @ + one]
    BY <1>2, <2>2 DEF IOs
  <2> QED
    BY <1>1, <2>1, <2>2
<1> HIDE DEF new
<1>5. Dated(new)
  BY <1>2, <1>3, <1>4 DEF Dated
<1> QED
  BY <1>5 DEF new

\* A stamp is one of a key event under way.
LEMMA StampIs ==
  ASSUME Types, Gap, NEW x \in Stamps
  PROVE  /\ x.at \in 1 .. MaxCaptured + 1 /\ x.at \in Nat /\ x.ts \in Nat
         /\ \E y \in Items : y.at = x.at
         /\ \/ \E i \in EventCells : captured[i].state /\ x = Stamp(i, captured[i])
            \/ \E d \in EventFrames : Fr(d).ev.state /\ x = Stamp(Place(d), Fr(d).ev)
<1>1. \/ \E i \in EventCells : captured[i].state /\ x = Stamp(i, captured[i])
      \/ \E d \in EventFrames : Fr(d).ev.state /\ x = Stamp(Place(d), Fr(d).ev)
  BY DEF Stamps
<1>2. x.ts \in Nat /\ \E y \in Items : y.at = x.at
  <2>1. ASSUME NEW i \in EventCells, x = Stamp(i, captured[i])
        PROVE  x.ts \in Nat /\ \E y \in Items : y.at = x.at
    <3>1. Item(i, captured[i]) \in Items /\ Item(i, captured[i]).at = x.at
      BY <2>1 DEF Items, Item, Stamp
    <3>2. captured[i] \in Event
      BY EventCellIs DEF Types, TypeOK
    <3>3. x.ts \in Nat
      BY <2>1, <3>2 DEF Stamp, Event
    <3> QED
      BY <3>1, <3>3
  <2>2. ASSUME NEW d \in EventFrames, x = Stamp(Place(d), Fr(d).ev)
        PROVE  x.ts \in Nat /\ \E y \in Items : y.at = x.at
    <3>1. Item(Place(d), Fr(d).ev) \in Items /\ Item(Place(d), Fr(d).ev).at = x.at
      BY <2>2 DEF Items, Item, Stamp
    <3>2. Fr(d).ev \in Event
      BY EventFrameIs
    <3>3. x.ts \in Nat
      BY <2>2, <3>2 DEF Stamp, Event
    <3> QED
      BY <3>1, <3>3
  <2> QED
    BY <1>1, <2>1, <2>2
<1>3. PICK y \in Items : y.at = x.at
  BY <1>2
<1>4. y \in Placed(Positions)
  BY ItemsTyped
<1>5. y.at \in 1 .. MaxCaptured + 1 /\ y.at \in Nat
  BY <1>4, ItemIs
<1> QED
  BY <1>1, <1>2, <1>3, <1>5

LEMMA OwnStamp ==
  ASSUME NEW n \in EventFrames, Fr(n).ev.state
  PROVE  Stamp(Place(n), Fr(n).ev) \in Stamps
BY DEF Stamps

\* The press that the keymap handles is the earliest of those that wait.
LEMMA FirstPast ==
  ASSUME Core, TimeInv, NEW n \in EventFrames, n = Height, Fr(n).op = "invoke", Fr(n).ev.state
  PROVE  Past(Fr(n).ev.ts) /\ lastTapped.ts <= Fr(n).ev.ts
<1>c. Types /\ Gap
  BY DEF Core, CellsInv
<1>1. PICK o : o = Stamp(Place(n), Fr(n).ev)
  OBVIOUS
<1>2. o \in Stamps /\ o.at = Place(n) /\ o.ts = Fr(n).ev.ts
  BY <1>1, OwnStamp DEF Stamp
<1>3. \A y \in Items : Place(n) <= y.at
  BY <1>c, InvokeFirst, OwnIs
<1>4. \A x \in Stamps : o.at <= x.at
  BY <1>2, <1>3, <1>c, StampIs
<1> QED
  BY <1>2, <1>4 DEF TimeInv, Past

\* A handler that adds no event leaves the stamps.
LEMMA StampsStay ==
  ASSUME Types, NEW n \in Levels, n = Height, NEW ops, NewCalls(n, ops), NEW m, Collects(m),
         \A d \in n .. Height' : d \in EventFrames' =>
           d = n /\ n \in EventFrames /\ Fr(n)'.ev = Fr(n).ev
  PROVE  Stamps' \subseteq Stamps
<1>1. n \in Nat /\ Height' \in Nat /\ Height' >= n - 1 /\ \A d \in 1 .. n - 1 : Fr(d)' = Fr(d)
  BY FrameTypes DEF NewCalls, Kept
<1>2. \A d \in 1 .. n - 1 : d \in EventFrames' => d \in EventFrames
  BY <1>1 DEF EventFrames, Levels
<1>3. \A d : d \in EventFrames' => d \in 1 .. n - 1 \/ d \in n .. Height'
  BY <1>1 DEF EventFrames, Levels
<1>4. \A d \in EventFrames' : d \in EventFrames /\ Fr(d)'.ev = Fr(d).ev /\ Place(d)' = Place(d)
  <2> SUFFICES ASSUME NEW d, d \in EventFrames'
               PROVE  d \in EventFrames /\ Fr(d)'.ev = Fr(d).ev /\ Place(d)' = Place(d)
    OBVIOUS
  <2>1. CASE d \in 1 .. n - 1
    <3>1. d \in 1 .. n
      BY <1>1, <2>1
    <3> QED
      BY <1>1, <1>2, <2>1, <3>1, PlaceKept
  <2>2. CASE d \in n .. Height'
    <3>1. d = n /\ n \in 1 .. n
      BY <1>1, <2>2 DEF Levels
    <3> QED
      BY <2>2, <3>1, PlaceKept
  <2> QED
    BY <1>3, <2>1, <2>2
<1>5. EventCells' = EventCells /\ \A i \in EventCells : captured'[i] = captured[i]
  BY GatheredEvents
<1> QED
  BY <1>4, <1>5 DEF Stamps, Stamp

LEMMA TimeStays ==
  ASSUME TimeInv, Stamps' \subseteq Stamps, now' = now, Past(lastTapped'.ts),
         \A s \in Slots : Used(s)' => Past(held'[s].ts)
  PROVE  TimeInv'
<1>1. \A t : Past(t) => Past(t)'
  BY DEF Past
<1> QED
  BY <1>1 DEF TimeInv

\* A handler that adds no event, and changes no slot but to free it
LEMMA TimeAfter ==
  ASSUME Types, TimeInv, NEW n \in Levels, n = Height, NEW ops, NewCalls(n, ops),
         NEW m, Collects(m),
         \A d \in n .. Height' : d \in EventFrames' =>
           d = n /\ n \in EventFrames /\ Fr(n)'.ev = Fr(n).ev,
         NEW io, Dated(io), SetIO(io), now' = now,
         \A s \in Slots : Used(s)' => Used(s) /\ held'[s].ts = held[s].ts
  PROVE  TimeInv'
<1>1. Stamps' \subseteq Stamps
  BY StampsStay
<1>2. Past(lastTapped'.ts)
  BY DEF SetIO, Dated
<1>3. \A s \in Slots : Used(s)' => Past(held'[s].ts)
  BY DEF TimeInv
<1> QED
  BY <1>1, <1>2, <1>3, TimeStays

LEMMA UntouchedIO ==
  ASSUME UNCHANGED <<captured, lastTapped, out, lost>>
  PROVE  SetIO(IO)
BY DEF SetIO, IO

LEMMA RaiseTime ==
  ASSUME Core, TimeInv, RaisePosition, lost' = {}
  PROVE  TimeInv'
<1>1. PICK n : n = Height
  OBVIOUS
<1>2. PICK e : e = Head(stack).ev
  OBVIOUS
<1>c. Types
  BY DEF Core
<1>3. n \in EventFrames /\ Fr(n).ev = e /\ n \in Levels /\ n \in Nat
  BY <1>1, <1>2, <1>c, EventOfTop DEF RaisePosition, EventOps
<1>4. PICK u : u = undecided
  OBVIOUS
<1>5. /\ NewCalls(n, {"invoke", "listen", "decide"}) /\ Fr(n)'.ev = e
      /\ Height' = n \/ (Height' = n + 1 /\ Fr(n + 1)' = Decide(u, "TIMER_EVENT", e))
  BY <1>1, <1>2, <1>4, <1>c, RaiseCalls
<1>6. PICK m : Collects(m)
  BY <1>c, RaiseTypes
<1>7. \A d \in n .. Height' : d \in EventFrames' => d = n /\ n \in EventFrames /\ Fr(n)'.ev = Fr(n).ev
  <2>1. Decide(u, "TIMER_EVENT", e).op = "decide"
    BY DEF Decide, Frame
  <2>2. \A d \in n .. Height' : d = n \/ (d = n + 1 /\ Fr(d)'.op = "decide")
    BY <1>3, <1>5, <2>1
  <2>3. \A d \in n .. Height' : d \in EventFrames' => d = n
    BY <2>2 DEF EventFrames, EventOps
  <2> QED
    BY <1>3, <1>5, <2>3
<1>8. PICK io : io = PressRetro(e.key)
  OBVIOUS
<1>9. Dated(io) /\ SetIO(io) /\ now' = now
  BY <1>2, <1>8, <1>c, RetroDated DEF RaisePosition
<1>10. \A s \in Slots : Used(s)' => Used(s) /\ held'[s].ts = held[s].ts
  BY <1>c, RaiseHeld DEF Used
<1> QED
  BY <1>1, <1>3, <1>5, <1>6, <1>7, <1>9, <1>10, <1>c, TimeAfter

LEMMA RaiseKeycodeTime ==
  ASSUME Core, CodeInv, TimeInv, RaiseKeycode, lost' = {}
  PROVE  TimeInv'
<1>1. PICK n : n = Height
  OBVIOUS
<1>2. PICK e : e = Head(stack).ev
  OBVIOUS
<1>c. Types
  BY DEF Core
<1>3. /\ n \in Levels /\ n \in Nat /\ n >= 1 /\ Fr(n).ev = e /\ Fr(n).op = "raise" /\ FrameShape(n)
      /\ stack \in Seq(Frames) /\ stack # <<>>
  BY <1>1, <1>2, <1>c, Top DEF RaiseKeycode, Levels
<1>4. e.t = "code" /\ EventOK(e) /\ e.key \in Codes /\ e.state \in BOOLEAN /\ e.ts \in Nat
  BY <1>2, <1>3 DEF RaiseKeycode, FrameShape, EventOps, EventOK, Event
<1>5. n \in CodeFrames /\ n \notin EventFrames
  BY <1>3, <1>4 DEF CodeFrames, EventFrames
<1>6. Returned(n) /\ UNCHANGED <<config, now, undecided, held, timer, down, presses, seen, typed>>
  BY <1>1, <1>3, Calls0 DEF RaiseKeycode
<1>7. PICK ops : ops = {} /\ NewCalls(n, ops)
  BY <1>3, <1>6, NewCallsAre
<1>8. \A d \in n .. Height' : FALSE
  BY <1>3, <1>6 DEF Returned
<1>9. PICK u : u = undecided
  OBVIOUS
<1>10. SetIO(Emit(IO, u, e.key, e.state, e.ts))
  BY <1>2, <1>9 DEF RaiseKeycode
<1>11. Collects(1)
  BY <1>4, <1>9, <1>10, <1>c, EmitCollects
<1>12. Kind[e.key] # "key"
  <2>1. Item(Place(n), Fr(n).ev) \in CodeItems /\ Item(Place(n), Fr(n).ev).key = e.key
    BY <1>3, <1>5 DEF CodeItems, Item
  <2>2. \A x \in CodeItems : Kind[x.key] = "mod"
    BY DEF CodeInv, Told
  <2> QED
    BY <2>1, <2>2
<1>13. PICK io : io = Emit(IO, u, e.key, e.state, e.ts)
  OBVIOUS
<1>14. Dated(IO)
  BY <1>c, IODated
<1>15. Dated(io)
  BY <1>4, <1>12, <1>13, <1>14, EmitOther
<1>16. \A s \in Slots : Used(s)' => Used(s) /\ held'[s].ts = held[s].ts
  BY <1>6 DEF Used
<1> QED
  BY <1>1, <1>3, <1>6, <1>7, <1>8, <1>10, <1>11, <1>13, <1>15, <1>16, <1>c, TimeAfter

LEMMA InvokePlainTime ==
  ASSUME Core, TimeInv, InvokePlain, lost' = {}
  PROVE  TimeInv'
<1>1. PICK n : n = Height
  OBVIOUS
<1>2. PICK e : e = Head(stack).ev
  OBVIOUS
<1>c. Types
  BY DEF Core
<1>3. /\ n \in Levels /\ n \in Nat /\ n >= 1 /\ Fr(n).ev = e /\ Fr(n).op = "invoke" /\ FrameShape(n)
      /\ stack \in Seq(Frames) /\ stack # <<>>
  BY <1>1, <1>2, <1>c, Top DEF InvokePlain, Levels
<1>4. n \in EventFrames /\ e.key \in Plain /\ e.state \in BOOLEAN /\ e.ts \in Nat /\ Key(e.key) \in Codes
  BY <1>2, <1>3, CodesAre DEF InvokePlain, FrameShape, EventOps, EventFrames, EventOK, Event
<1>5. PICK u, code : u = undecided /\ code = Key(e.key)
  OBVIOUS
<1>6. SetIO(Emit(IO, u, code, e.state, e.ts)) /\ code \in Codes
  BY <1>2, <1>4, <1>5 DEF InvokePlain
<1>7. Collects(1)
  BY <1>4, <1>5, <1>6, <1>c, EmitCollects
<1>8. Returned(n) /\ UNCHANGED <<now, held>>
  BY <1>1, <1>3, Calls0 DEF InvokePlain
<1>9. PICK ops : ops = {} /\ NewCalls(n, ops)
  BY <1>3, <1>8, NewCallsAre
<1>10. \A d \in n .. Height' : FALSE
  BY <1>3, <1>8 DEF Returned
<1>11. e.state => Past(e.ts)
  BY <1>1, <1>3, <1>4, FirstPast
<1>12. PICK io : io = Emit(IO, u, code, e.state, e.ts)
  OBVIOUS
<1>13. Dated(IO)
  BY <1>c, IODated
<1>14. Dated(io)
  BY <1>4, <1>6, <1>11, <1>12, <1>13, EmitDated
<1>15. \A s \in Slots : Used(s)' => Used(s) /\ held'[s].ts = held[s].ts
  BY <1>8 DEF Used
<1> QED
  BY <1>1, <1>3, <1>6, <1>7, <1>8, <1>9, <1>10, <1>12, <1>14, <1>15, <1>c, TimeAfter

\* A captured press keeps its turn.
LEMMA CapturedStamps ==
  ASSUME Types, Rising, Gap, TimeInv, NEW n \in EventFrames, n = Height, NEW f \in Cells, NEW ops,
         NewCalls(n, ops), ops \cap EventOps = {}, captured[f] = NoEvent,
         captured' = [captured EXCEPT ![f] = Fr(n).ev], EventCells' = EventCells \cup {f},
         f < Place(n), \A i \in Cells : f <= i /\ Low(i) => i \notin EventCells
  PROVE  /\ \A x \in Stamps' : \E y \in Stamps : y.ts = x.ts
         /\ \A x, y \in Stamps' : x.at <= y.at => x.ts <= y.ts
<1>1. /\ n \in Levels /\ n \in Nat /\ n >= 1 /\ OnRelease(n) /\ Fr(n).op # "release"
      /\ Fr(n).ev \in Event /\ f \in Nat /\ \A d \in 1 .. n - 1 : Fr(d)' = Fr(d)
  BY EventFrameIs, FrameTypes, Constants DEF Levels, NewCalls, Kept
<1>2. /\ Place(n) \in 1 .. MaxCaptured + 1 /\ Place(n) \in Nat
      /\ Place(n) \in Cells => ~Full(Place(n))
  <2>1. /\ Place(n) \in 1 .. MaxCaptured + 1 /\ (n = 1 => Place(n) = MaxCaptured + 1)
        /\ n > 1 => ~Full(Place(n))
    BY <1>1, PlaceIs
  <2> QED
    BY <1>1, <2>1, Constants DEF Cells
<1>3. \A x \in Stamps : x.at = Place(n) \/ x.at > Place(n) \/ x.at < f
  <2> SUFFICES ASSUME NEW x \in Stamps, x.at < Place(n)
               PROVE  x.at < f
    BY <1>2, StampIs
  <2>1. PICK y \in Items : y.at = x.at
    BY StampIs
  <2>2. PICK i \in EventCells : Low(i) /\ y = Item(i, captured[i])
    BY <2>1, ItemsAround
  <2>3. x.at = i /\ i \in Cells /\ i \in Nat
    BY <2>1, <2>2, EventCellIs DEF Item
  <2> QED
    BY <1>1, <2>2, <2>3
<1>4. PICK o : o = Stamp(Place(n), Fr(n).ev)
  OBVIOUS
<1>5. o.at = Place(n) /\ o.ts = Fr(n).ev.ts /\ (Fr(n).ev.state => o \in Stamps)
  BY <1>4, OwnStamp DEF Stamp
<1>6. captured \in [Cells -> Event]
  BY DEF Types, TypeOK
<1>7. captured'[f] = Fr(n).ev /\ \A i \in Cells : i # f => captured'[i] = captured[i]
  BY <1>6
<1>8. ASSUME NEW x \in Stamps'
      PROVE  \E y \in Stamps : /\ y.ts = x.ts
                               /\ (x = y /\ y.at # Place(n)) \/ (x.at = f /\ y.at = Place(n))
  <2>1. \/ \E i \in EventCells' : captured'[i].state /\ x = Stamp(i, captured'[i])
        \/ \E d \in EventFrames' : Fr(d)'.ev.state /\ x = Stamp(Place(d)', Fr(d)'.ev)
    BY DEF Stamps, Stamp
  <2>2. CASE captured'[f].state /\ x = Stamp(f, captured'[f])
    <3>1. x.at = f /\ x.ts = o.ts /\ o \in Stamps
      BY <1>5, <1>7, <2>2 DEF Stamp
    <3> QED
      BY <1>5, <3>1
  <2>3. ASSUME NEW i \in EventCells, i # f, captured'[i].state, x = Stamp(i, captured'[i])
        PROVE  x \in Stamps /\ x.at # Place(n)
    <3>1. i \in Cells /\ Full(i) /\ captured'[i] = captured[i]
      BY <1>7, <2>3, EventCellIs
    <3>2. x.at = i /\ x \in Stamps
      BY <2>3, <3>1 DEF Stamps, Stamp
    <3> QED
      BY <1>2, <3>1, <3>2
  <2>4. ASSUME NEW d, d \in EventFrames', Fr(d)'.ev.state, x = Stamp(Place(d)', Fr(d)'.ev)
        PROVE  x \in Stamps /\ x.at # Place(n)
    <3>1. d \in 1 .. n - 1
      <4>1. d \in 1 .. Height' /\ Fr(d)'.op \in EventOps
        BY <2>4 DEF EventFrames, Levels
      <4>2. d \notin n .. Height'
        BY <4>1 DEF NewCalls
      <4>3. Height' \in Nat
        BY DEF NewCalls
      <4> QED
        BY <1>1, <4>1, <4>2, <4>3
    <3>2. d \in 1 .. n /\ d \in Levels /\ d < n
      BY <1>1, <3>1 DEF Levels
    <3>3. Fr(d)' = Fr(d) /\ Place(d)' = Place(d)
      BY <1>1, <3>1, <3>2, PlaceKept
    <3>4. d \in EventFrames
      BY <2>4, <3>2, <3>3 DEF EventFrames
    <3>5. OnRelease(d)
      BY <3>4, EventFrameIs
    <3>6. Place(n) < Place(d) /\ Place(d) \in 1 .. MaxCaptured + 1
      BY <1>1, <3>2, <3>5, PlacesRise
    <3>7. x \in Stamps /\ x.at = Place(d)
      BY <2>4, <3>3, <3>4 DEF Stamps, Stamp
    <3>8. Place(d) \in Nat
      BY <3>6
    <3> QED
      BY <1>2, <3>6, <3>7, <3>8
  <2> QED
    BY <2>1, <2>2, <2>3, <2>4
<1>9. ASSUME NEW x \in Stamps', NEW y \in Stamps', x.at <= y.at
      PROVE  x.ts <= y.ts
  <2>1. PICK a \in Stamps : /\ a.ts = x.ts
                            /\ (x = a /\ a.at # Place(n)) \/ (x.at = f /\ a.at = Place(n))
    BY <1>8
  <2>2. PICK b \in Stamps : /\ b.ts = y.ts
                            /\ (y = b /\ b.at # Place(n)) \/ (y.at = f /\ b.at = Place(n))
    BY <1>8
  <2>3. a.at \in Nat /\ b.at \in Nat
    BY StampIs
  <2>4. /\ a.at = Place(n) \/ a.at > Place(n) \/ a.at < f
        /\ b.at = Place(n) \/ b.at > Place(n) \/ b.at < f
    BY <1>3
  <2>5. a.at <= b.at
    <3>1. x.at = IF a.at = Place(n) THEN f ELSE a.at
      BY <2>1
    <3>2. y.at = IF b.at = Place(n) THEN f ELSE b.at
      BY <2>2
    <3>3. PICK q, t, v : q = Place(n) /\ t = a.at /\ v = b.at
      OBVIOUS
    <3> QED
      BY <1>1, <1>2, <1>9, <2>3, <2>4, <3>1, <3>2, <3>3
  <2> QED
    BY <2>1, <2>2, <2>5 DEF TimeInv
<1> QED
  BY <1>8, <1>9

LEMMA TimeMoves ==
  ASSUME TimeInv, now' = now, lastTapped' = lastTapped, held' = held,
         \A x \in Stamps' : \E y \in Stamps : y.ts = x.ts,
         \A x, y \in Stamps' : x.at <= y.at => x.ts <= y.ts
  PROVE  TimeInv'
<1>2. \A x \in Stamps' : x.ts \in Nat /\ x.ts <= now
  BY DEF TimeInv
<1>3. \A s : Used(s)' <=> Used(s)
  BY DEF Used
<1>4. Past(lastTapped.ts) /\ \A s \in Slots : Used(s) => Past(held[s].ts)
  BY DEF TimeInv
<1>5. Past(lastTapped.ts)' /\ \A s \in Slots : Used(s)' => Past(held[s].ts)'
  <2>1. \A x \in Stamps' : \E y \in Stamps : y.ts = x.ts
    OBVIOUS
  <2>2. Past(lastTapped.ts)'
    BY <1>4, <2>1 DEF Past
  <2>3. \A s \in Slots : Used(s) => held[s].ts <= now /\ \A y \in Stamps : held[s].ts <= y.ts
    BY <1>4 DEF Past
  <2>4. \A s \in Slots : Used(s)' => held'[s].ts <= now' /\ \A x \in Stamps' : held'[s].ts <= x.ts
    BY <1>3, <2>1, <2>3
  <2> QED
    BY <2>2, <2>4 DEF Past
<1> QED
  BY <1>2, <1>5 DEF TimeInv

LEMMA ListenTime ==
  ASSUME Core, TimeInv, ListenPosition, lost' = {}
  PROVE  TimeInv'
<1>1. PICK n : n = Height
  OBVIOUS
<1>c. Types /\ CellsInv /\ Rising /\ Gap /\ RoomLeft
  BY DEF Core, CellsInv, RoomInv
<1>2. /\ n \in EventFrames /\ EventOK(Fr(n).ev) /\ OnRelease(n)
      /\ n \in Levels /\ n \in Nat /\ n >= 1
      /\ UNCHANGED <<config, now, undecided, held, timer, down, presses, seen, typed>>
      /\ \/ Becomes(n, Invoke(Fr(n).ev)) /\ UNCHANGED <<captured, lastTapped, out, lost>>
         \/ /\ undecided # 0 /\ SetIO(Capture(IO, Fr(n).ev))
            /\ \E m \in {"OTHER_KEY_DOWN", "OTHER_KEY_UP"} :
                  Becomes(n, Decide(undecided, m, Fr(n).ev))
  BY <1>1, <1>c, ListenSplits
<1>3. CASE Becomes(n, Invoke(Fr(n).ev)) /\ UNCHANGED <<captured, lastTapped, out, lost>>
  <2>1. Invoke(Fr(n).ev).ev = Fr(n).ev
    BY DEF Invoke, Frame
  <2>2. PICK ops : NewCalls(n, ops)
    BY <1>2, <1>3, NewCallsAre
  <2>3. \A d \in n .. Height' : d = n /\ Fr(d)'.ev = Fr(n).ev
    BY <1>2, <1>3, <2>1 DEF Becomes
  <2>4. Collects(0)
    BY <1>3, <1>c, UntouchedCollects
  <2>5. PICK io : io = IO
    OBVIOUS
  <2>6. Dated(io) /\ SetIO(io)
    BY <1>3, <1>c, <2>5, IODated, UntouchedIO
  <2>7. \A s \in Slots : Used(s)' => Used(s) /\ held'[s].ts = held[s].ts
    BY <1>2 DEF Used
  <2> QED
    BY <1>1, <1>2, <1>c, <2>2, <2>3, <2>4, <2>6, <2>7, TimeAfter
<1>4. CASE /\ undecided # 0 /\ SetIO(Capture(IO, Fr(n).ev))
           /\ \E m \in {"OTHER_KEY_DOWN", "OTHER_KEY_UP"} :
                  Becomes(n, Decide(undecided, m, Fr(n).ev))
  <2>1. PICK m : Becomes(n, Decide(undecided, m, Fr(n).ev))
    BY <1>4
  <2>2. Decide(undecided, m, Fr(n).ev).op = "decide"
    BY DEF Decide, Frame
  <2>3. PICK ops : ops = {"decide"} /\ NewCalls(n, ops)
    BY <1>2, <2>1, <2>2, NewCallsAre
  <2>4. ops \cap EventOps = {}
    BY <2>3 DEF EventOps
  <2>5. PICK f \in Cells :
           /\ captured[f] = NoEvent /\ captured' = [captured EXCEPT ![f] = Fr(n).ev]
           /\ f < Place(n) /\ EventCells' = EventCells \cup {f}
           /\ \A i \in Cells : f <= i /\ Low(i) => i \notin EventCells
    BY <1>1, <1>2, <1>4, <1>c, ListenCell
  <2>6. /\ \A x \in Stamps' : \E y \in Stamps : y.ts = x.ts
        /\ \A x, y \in Stamps' : x.at <= y.at => x.ts <= y.ts
    BY <1>1, <1>2, <1>c, <2>3, <2>4, <2>5, CapturedStamps
  <2>7. lastTapped' = lastTapped
    <3>1. IOOK(IO) /\ IO.last = lastTapped
      BY <1>c, IOIs DEF IO
    <3>2. PICK ev : ev = Fr(n).ev
      OBVIOUS
    <3>3. Capture(IO, ev).last = IO.last
      BY <3>1, CaptureLast
    <3> QED
      BY <1>4, <3>1, <3>2, <3>3 DEF SetIO
  <2> QED
    BY <1>2, <2>6, <2>7, TimeMoves
<1> QED
  BY <1>2, <1>3, <1>4

LEMMA InvokePressedTime ==
  ASSUME Core, TimeInv, InvokePressed, lost' = {}
  PROVE  TimeInv'
<1>1. PICK n : n = Height
  OBVIOUS
<1>2. PICK e : e = Head(stack).ev
  OBVIOUS
<1>c. Types
  BY DEF Core
<1>3. /\ n \in EventFrames /\ Fr(n).ev = e /\ Fr(n).op = "invoke" /\ n \in Levels /\ n \in Nat
      /\ n >= 1 /\ e.state = TRUE
      /\ UNCHANGED <<config, now, timer, captured, lastTapped, down, presses, out, lost>>
      /\ \/ Returned(n) /\ UNCHANGED <<held, undecided>>
         \/ \E s \in Slots :
              /\ held' = [held EXCEPT ![s] = [pos |-> e.key, status |-> "UNDECIDED",
                            ts |-> e.ts, first |-> NoPos, cancelled |-> held[s].cancelled]]
              /\ \/ Becomes2(n, Decide(s, "KEY_DOWN", e), Schedule(s))
                 \/ Becomes3(n, Decide(s, "QUICK_TAP", e), Decide(s, "KEY_DOWN", e), Schedule(s))
  BY <1>1, <1>2, <1>c, PressedSplits
<1>4. Collects(0)
  BY <1>3, <1>c, UntouchedCollects
<1>5. Past(lastTapped'.ts)
  BY <1>3 DEF TimeInv
<1>6. Past(e.ts)
  BY <1>1, <1>3, FirstPast
<1>7. CASE Returned(n) /\ UNCHANGED <<held, undecided>>
  <2>1. PICK ops : ops = {} /\ NewCalls(n, ops)
    BY <1>3, <1>7, NewCallsAre
  <2>2. \A d \in n .. Height' : FALSE
    BY <1>3, <1>7 DEF Returned
  <2>3. Stamps' \subseteq Stamps
    BY <1>1, <1>3, <1>4, <1>c, <2>1, <2>2, StampsStay
  <2>4. \A s \in Slots : Used(s)' => Past(held'[s].ts)
    BY <1>7 DEF TimeInv, Used
  <2> QED
    BY <1>3, <1>5, <2>3, <2>4, TimeStays
<1>8. ASSUME NEW s \in Slots,
             held' = [held EXCEPT ![s] = [pos |-> e.key, status |-> "UNDECIDED",
                            ts |-> e.ts, first |-> NoPos, cancelled |-> held[s].cancelled]],
             \/ Becomes2(n, Decide(s, "KEY_DOWN", e), Schedule(s))
             \/ Becomes3(n, Decide(s, "QUICK_TAP", e), Decide(s, "KEY_DOWN", e), Schedule(s))
      PROVE  TimeInv'
  <2>1. /\ Schedule(s).op = "schedule" /\ Decide(s, "KEY_DOWN", e).op = "decide"
        /\ Decide(s, "QUICK_TAP", e).op = "decide"
    BY DEF Decide, Schedule, Frame
  <2>2. PICK ops : ops = {"decide", "schedule"} /\ NewCalls(n, ops)
    <3>1. PICK a, b, c : /\ a = Decide(s, "QUICK_TAP", e) /\ b = Decide(s, "KEY_DOWN", e)
                         /\ c = Schedule(s)
      OBVIOUS
    <3>2. Becomes2(n, b, c) \/ Becomes3(n, a, b, c)
      BY <1>8, <3>1
    <3>3. NewCalls(n, {b.op, c.op}) \/ NewCalls(n, {a.op, b.op, c.op})
      BY <1>3, <3>2, NewCallsAre
    <3>4. {b.op, c.op} = {"decide", "schedule"} /\ {a.op, b.op, c.op} = {"decide", "schedule"}
      BY <2>1, <3>1
    <3> QED
      BY <3>3, <3>4
  <2>3. \A d \in n .. Height' : d \notin EventFrames'
    BY <2>2 DEF NewCalls, EventFrames, EventOps
  <2>4. Stamps' \subseteq Stamps
    BY <1>1, <1>3, <1>4, <1>c, <2>2, <2>3, StampsStay
  <2>5. \A t \in Slots : Used(t)' => Past(held'[t].ts)
    <3>1. held'[s].ts = e.ts /\ \A t \in Slots : t # s => held'[t] = held[t]
      BY <1>8, <1>c DEF Types, TypeOK
    <3> QED
      BY <1>6, <3>1 DEF TimeInv, Used
  <2> QED
    BY <1>3, <1>5, <2>4, <2>5, TimeStays
<1> QED
  BY <1>3, <1>7, <1>8

LEMMA InvokeReleasedTime ==
  ASSUME Core, TimeInv, InvokeReleased, lost' = {}
  PROVE  TimeInv'
<1>1. PICK n : n = Height
  OBVIOUS
<1>2. PICK e : e = Head(stack).ev
  OBVIOUS
<1>c. Types
  BY DEF Core
<1>3. /\ n \in Levels /\ n \in Nat /\ n >= 1
      /\ UNCHANGED <<config, now, undecided, held, captured, lastTapped, down, presses, out, lost>>
      /\ \/ Returned(n)
         \/ \E s \in Slots, m \in {"TIMER_EVENT", "KEY_UP"} :
              \/ Becomes2(n, Decide(s, "KEY_UP", e), Finish(s, m))
              \/ Becomes3(n, Decide(s, "TIMER_EVENT", e), Decide(s, "KEY_UP", e), Finish(s, m))
  <2>1. /\ n \in Levels /\ n \in Nat /\ n >= 1
        /\ UNCHANGED <<config, now, undecided, held, captured, lastTapped, down, presses, out, lost>>
        /\ \/ Returned(n)
           \/ \E s \in Slots, p \in BOOLEAN :
                LET m == IF p THEN "TIMER_EVENT" ELSE "KEY_UP"
                IN \/ Becomes2(n, Decide(s, "KEY_UP", e), Finish(s, m))
                   \/ Becomes3(n, Decide(s, "TIMER_EVENT", e), Decide(s, "KEY_UP", e), Finish(s, m))
    BY <1>1, <1>2, <1>c, ReleasedSplits
  <2> QED
    BY <2>1
<1>4. PICK ops : ops \cap EventOps = {} /\ NewCalls(n, ops)
  <2>1. CASE Returned(n)
    BY <1>3, <2>1, NewCallsAre
  <2>2. ASSUME NEW s \in Slots, NEW m \in {"TIMER_EVENT", "KEY_UP"},
               \/ Becomes2(n, Decide(s, "KEY_UP", e), Finish(s, m))
               \/ Becomes3(n, Decide(s, "TIMER_EVENT", e), Decide(s, "KEY_UP", e), Finish(s, m))
        PROVE  \E ops : ops \cap EventOps = {} /\ NewCalls(n, ops)
    <3>1. PICK a, b, c : /\ a = Decide(s, "TIMER_EVENT", e) /\ b = Decide(s, "KEY_UP", e)
                         /\ c = Finish(s, m)
      OBVIOUS
    <3>2. a.op = "decide" /\ b.op = "decide" /\ c.op = "finish"
      BY <3>1 DEF Decide, Finish, Frame
    <3>3. Becomes2(n, b, c) \/ Becomes3(n, a, b, c)
      BY <2>2, <3>1
    <3>4. NewCalls(n, {b.op, c.op}) \/ NewCalls(n, {a.op, b.op, c.op})
      BY <1>3, <3>3, NewCallsAre
    <3>5. {b.op, c.op} \cap EventOps = {} /\ {a.op, b.op, c.op} \cap EventOps = {}
      BY <3>2 DEF EventOps
    <3> QED
      BY <3>4, <3>5
  <2> QED
    BY <1>3, <2>1, <2>2
<1>5. \A d \in n .. Height' : d \notin EventFrames'
  BY <1>4 DEF NewCalls, EventFrames
<1>6. Collects(0)
  BY <1>3, <1>c, UntouchedCollects
<1>7. Stamps' \subseteq Stamps
  BY <1>1, <1>3, <1>4, <1>5, <1>6, <1>c, StampsStay
<1>8. Past(lastTapped'.ts) /\ \A s \in Slots : Used(s)' => Past(held'[s].ts)
  BY <1>3 DEF TimeInv, Used
<1> QED
  BY <1>3, <1>7, <1>8, TimeStays

LEMMA ScheduleTime ==
  ASSUME Core, TimeInv, ScheduleTimer, lost' = {}
  PROVE  TimeInv'
<1>1. PICK n : n = Height
  OBVIOUS
<1>c. Types
  BY DEF Core
<1>2. n \in Levels /\ n \in Nat /\ n >= 1 /\ stack \in Seq(Frames) /\ stack # <<>>
  BY <1>1, <1>c, Top DEF ScheduleTimer, Levels
<1>3. Returned(n) /\ UNCHANGED <<now, held, captured, lastTapped, out, lost>>
  BY <1>1, <1>2, Calls0 DEF ScheduleTimer
<1>4. PICK ops : ops = {} /\ NewCalls(n, ops)
  BY <1>2, <1>3, NewCallsAre
<1>5. \A d \in n .. Height' : FALSE
  BY <1>2, <1>3 DEF Returned
<1>6. Collects(0)
  BY <1>3, <1>c, UntouchedCollects
<1>7. Stamps' \subseteq Stamps
  BY <1>1, <1>2, <1>4, <1>5, <1>6, <1>c, StampsStay
<1>8. Past(lastTapped'.ts) /\ \A s \in Slots : Used(s)' => Past(held'[s].ts)
  BY <1>3 DEF TimeInv, Used
<1> QED
  BY <1>3, <1>7, <1>8, TimeStays

LEMMA FinishTime ==
  ASSUME SimpleHolds, Core, TimeInv, FinishRelease, lost' = {}
  PROVE  TimeInv'
<1>1. PICK n : n = Height
  OBVIOUS
<1>2. PICK s : s = Fr(n).s
  OBVIOUS
<1>c. Types /\ TypeOK
  BY DEF Core, Types
<1>3. /\ n \in Levels /\ n \in Nat /\ n >= 1 /\ s \in Slots /\ Used(s) /\ Returned(n)
      /\ now' = now /\ Collects(IF s \in Silents THEN 2 ELSE 1)
      /\ held' = [held EXCEPT ![s] =
                    IF Fr(n).moment = "TIMER_EVENT"
                    THEN [@ EXCEPT !.status = IF s \in Silents THEN "TAP" ELSE held[s].status,
                                   !.cancelled = TRUE]
                    ELSE FreeSlot]
  BY <1>1, <1>2, FinishSplits
<1>4. PICK ops : ops = {} /\ NewCalls(n, ops)
  BY <1>3, NewCallsAre
<1>5. \A d \in n .. Height' : FALSE
  BY <1>3 DEF Returned
<1>6. PICK m : Collects(m)
  BY <1>3
<1>7. s = Head(stack).s
  <2>1. Fr(n) = Head(stack)
    BY <1>1, <1>c, Top DEF FinishRelease
  <2> QED
    BY <1>2, <2>1
<1>8. PICK u, retro, status : u = undecided /\ retro = Silent(s, held[s].status)
                              /\ status = IF retro THEN "TAP" ELSE held[s].status
  OBVIOUS
<1>9. PICK io1 : io1 = IF retro THEN PressBinding(IO, u, s, status) ELSE IO
  OBVIOUS
<1>10. PICK io2 : io2 = ReleaseBinding(io1, u, s, status)
  OBVIOUS
<1>11. PICK io3 : io3 = IF Cfg(s).holdWhileUndecided /\ Cfg(s).linger
                        THEN Emit(io2, u, Hold(held[s].pos), FALSE, held[s].ts) ELSE io2
  OBVIOUS
<1>12. SetIO(io3)
  BY <1>7, <1>8, <1>9, <1>10, <1>11, Zenon DEF FinishRelease
<1>13. Past(held[s].ts) /\ Dated(IO)
  BY <1>3, <1>c, IODated DEF TimeInv
<1>14. Dated(PressBinding(IO, u, s, status))
  BY <1>3, <1>13, <1>c, PressDated
<1>15. Dated(io1)
  BY <1>9, <1>13, <1>14
<1>16. Dated(io2)
  BY <1>3, <1>10, <1>15, <1>c, ReleaseDated
<1>17. PICK code, ts : code = Hold(held[s].pos) /\ ts = held[s].ts
  OBVIOUS
<1>18. code \in Codes /\ ts \in Nat
  BY <1>3, <1>17, <1>c, SlotIs, CodesAre
<1>19. Dated(Emit(io2, u, code, FALSE, ts))
  BY <1>16, <1>18, EmitReleaseDated
<1>20. Dated(io3)
  BY <1>11, <1>16, <1>17, <1>19
<1>21. \A t \in Slots : Used(t)' => Used(t) /\ held'[t].ts = held[t].ts
  <2>1. \A t \in Slots : t # s => held'[t] = held[t]
    BY <1>3, <1>c DEF TypeOK
  <2>2. held'[s] = FreeSlot \/ held'[s].ts = held[s].ts
    <3>1. PICK h : h = held[s]
      OBVIOUS
    <3>2. h \in [pos : HoldTaps \cup {NoPos}, status : Statuses, ts : Nat,
                 first : Positions \cup {NoPos}, cancelled : BOOLEAN]
      BY <1>3, <1>c, <3>1 DEF TypeOK
    <3>3. PICK st : held'[s] = FreeSlot \/ held'[s] = [h EXCEPT !.status = st, !.cancelled = TRUE]
      BY <1>3, <1>c, <3>1 DEF TypeOK
    <3> QED
      BY <3>1, <3>2, <3>3
  <2>3. FreeSlot.pos = NoPos
    BY DEF FreeSlot
  <2> QED
    BY <1>3, <2>1, <2>2, <2>3 DEF Used
<1> QED
  BY <1>1, <1>3, <1>4, <1>5, <1>6, <1>12, <1>20, <1>21, <1>c, TimeAfter

LEMMA DecideTime ==
  ASSUME Core, TimeInv, DecideHoldTap, lost' = {}
  PROVE  TimeInv'
<1>1. PICK n : n = Height
  OBVIOUS
<1>2. PICK s : s = Fr(n).s
  OBVIOUS
<1>c. Types /\ TypeOK
  BY DEF Core, Types
<1>3. /\ n \in Levels /\ n \in Nat /\ n >= 1 /\ s \in Slots /\ Used(s) /\ Collects(0)
      /\ UNCHANGED <<config, now, timer, down, presses, seen, typed>>
      /\ \/ Returned(n) /\ UNCHANGED <<undecided, held>>
         \/ /\ Becomes(n, Release(1))
            /\ \E st \in Statuses \ {"UNDECIDED"} : held' = [held EXCEPT ![s].status = st]
  BY <1>1, <1>2, DecideSplits
<1>4. Fr(n) = Head(stack)
  BY <1>1, <1>c, Top DEF DecideHoldTap
<1>5. PICK io : Dated(io) /\ SetIO(io)
  <2>1. PICK m, flavored : m = Fr(n).moment /\ flavored = Flavor(Cfg(s).flavor, m)
    OBVIOUS
  <2>2. PICK st : st = Positional(s, flavored)
    OBVIOUS
  <2>3. \/ UNCHANGED <<captured, lastTapped, out, lost>>
        \/ SetIO(Emit(IO, s, Hold(held[s].pos), TRUE, held[s].ts))
        \/ SetIO(PressBinding(IO, 0, s, st))
    BY <1>2, <1>4, <2>1, <2>2, Zenon DEF DecideHoldTap
  <2>4. Past(held[s].ts) /\ Dated(IO)
    BY <1>3, <1>c, IODated DEF TimeInv
  <2>5. Dated(PressBinding(IO, 0, s, st))
    BY <1>3, <1>c, <2>4, PressDated
  <2>6. PICK code, ts : code = Hold(held[s].pos) /\ ts = held[s].ts
    OBVIOUS
  <2>7. code \in Codes /\ ts \in Nat /\ Past(ts)
    BY <1>3, <1>c, <2>4, <2>6, SlotIs, CodesAre
  <2>8. Dated(Emit(IO, s, code, TRUE, ts))
    BY <2>4, <2>7, EmitPressDated
  <2> QED
    BY <2>3, <2>4, <2>5, <2>6, <2>8, UntouchedIO
<1>6. PICK ops : ops \cap EventOps = {} /\ NewCalls(n, ops)
  <2>1. {Release(1).op} \cap EventOps = {}
    BY DEF Release, Frame, EventOps
  <2> QED
    BY <1>3, <2>1, NewCallsAre
<1>7. \A d \in n .. Height' : d \notin EventFrames'
  BY <1>6 DEF NewCalls, EventFrames
<1>8. \A t \in Slots : Used(t)' => Used(t) /\ held'[t].ts = held[t].ts
  <2>1. CASE UNCHANGED <<undecided, held>>
    BY <2>1 DEF Used
  <2>2. ASSUME NEW st \in Statuses \ {"UNDECIDED"}, held' = [held EXCEPT ![s].status = st]
        PROVE  \A t \in Slots : Used(t)' => Used(t) /\ held'[t].ts = held[t].ts
    <3>1. \A t \in Slots : t # s => held'[t] = held[t]
      BY <2>2, <1>c DEF TypeOK
    <3>2. PICK h : h = held[s]
      OBVIOUS
    <3>3. h \in [pos : HoldTaps \cup {NoPos}, status : Statuses, ts : Nat,
                 first : Positions \cup {NoPos}, cancelled : BOOLEAN]
      BY <1>3, <1>c, <3>2 DEF TypeOK
    <3>4. held'[s] = [h EXCEPT !.status = st]
      BY <1>3, <1>c, <2>2, <3>2 DEF TypeOK
    <3>5. held'[s].ts = held[s].ts /\ held'[s].pos = held[s].pos
      BY <3>2, <3>3, <3>4
    <3> QED
      BY <1>3, <3>1, <3>5 DEF Used
  <2> QED
    BY <1>3, <2>1, <2>2
<1> QED
  BY <1>1, <1>3, <1>5, <1>6, <1>7, <1>8, <1>c, TimeAfter

LEMMA ReplayTime ==
  ASSUME Core, TimeInv, ReleaseCaptured, lost' = {}
  PROVE  TimeInv'
<1>1. PICK n : n = Height
  OBVIOUS
<1>2. PICK i : i = Fr(n).s
  OBVIOUS
<1>c. Types
  BY DEF Core
<1>3. /\ n \in Levels /\ n \in Nat /\ n >= 1 /\ Fr(n).op = "release" /\ IsRelease(n) /\ i \in Nat
      /\ UNCHANGED <<config, now, undecided, held, timer, lastTapped, down, presses, seen,
                     typed, out, lost>>
      /\ \/ Returned(n) /\ captured' = captured
         \/ /\ i \in Cells /\ captured[i] # NoEvent /\ captured' = [captured EXCEPT ![i] = NoEvent]
            /\ Becomes2(n, Raise(captured[i]), Release(i + 1))
  BY <1>1, <1>2, <1>c, ReleaseSplits
<1>4. Past(lastTapped'.ts) /\ \A s \in Slots : Used(s)' => Past(held'[s].ts)
  BY <1>3 DEF TimeInv, Used
<1>5. CASE Returned(n) /\ captured' = captured
  <2>1. PICK ops : ops = {} /\ NewCalls(n, ops)
    BY <1>3, <1>5, NewCallsAre
  <2>2. \A d \in n .. Height' : FALSE
    BY <1>3, <1>5 DEF Returned
  <2>3. Collects(0)
    BY <1>3, <1>5, <1>c, UntouchedCollects
  <2>4. Stamps' \subseteq Stamps
    BY <1>1, <1>3, <1>c, <2>1, <2>2, <2>3, StampsStay
  <2> QED
    BY <1>3, <1>4, <2>4, TimeStays
<1>6. CASE /\ i \in Cells /\ captured[i] # NoEvent /\ captured' = [captured EXCEPT ![i] = NoEvent]
           /\ Becomes2(n, Raise(captured[i]), Release(i + 1))
  <2>1. PICK ev : ev = captured[i]
    OBVIOUS
  <2>2. Becomes2(n, Raise(ev), Release(i + 1)) /\ captured[i] # NoEvent
    BY <1>6, <2>1
  <2>3. /\ \A d \in 1 .. n - 1 : /\ (d \in EventFrames' <=> d \in EventFrames) /\ Fr(d)' = Fr(d)
                                 /\ Place(d)' = Place(d)
        /\ n \notin EventFrames' /\ (n + 1 \in EventFrames' <=> ev.t = "pos")
        /\ Place(n + 1)' = i
        /\ \A c \in Cells : c # i => ((c \in EventCells' <=> c \in EventCells) /\ captured'[c] = captured[c])
        /\ i \notin EventCells' /\ (i \in EventCells <=> ev.t = "pos")
    <3>1. captured' = [captured EXCEPT ![i] = NoEvent] /\ i \in Cells
      BY <1>6
    <3>2. Replayed(n, i, ev)
      BY <1>1, <1>2, <1>3, <2>1, <2>2, <3>1, ReplayMoves
    <3> QED
      BY <3>2 DEF Replayed
  <2>4. Fr(n + 1)'.ev = ev /\ Height' = n + 1
    BY <2>2 DEF Becomes2, Raise, Frame
  <2>5. \A d : d \in EventFrames' => d \in 1 .. n - 1 \/ d = n + 1
    <3>1. \A d : d \in EventFrames' => d \in 1 .. n + 1 /\ d # n
      BY <2>3, <2>4 DEF EventFrames, Levels
    <3> QED
      BY <1>3, <3>1
  <2>6. \A c : c \in EventCells' => c \in EventCells /\ c \in Cells /\ captured'[c] = captured[c]
    <3>1. \A c : c \in EventCells' => c \in Cells /\ c # i
      BY <2>3 DEF EventCells
    <3> QED
      BY <2>3, <3>1
  <2>7. ASSUME NEW x \in Stamps'
        PROVE  x \in Stamps
    <3>1. \/ \E c \in EventCells' : captured'[c].state /\ x = Stamp(c, captured'[c])
          \/ \E d \in EventFrames' : Fr(d)'.ev.state /\ x = Stamp(Place(d)', Fr(d)'.ev)
      BY DEF Stamps, Stamp
    <3>2. ASSUME NEW c, c \in EventCells', captured'[c].state, x = Stamp(c, captured'[c])
          PROVE  x \in Stamps
      BY <2>6, <3>2 DEF Stamps
    <3>3. ASSUME NEW d, d \in EventFrames', Fr(d)'.ev.state, x = Stamp(Place(d)', Fr(d)'.ev)
          PROVE  x \in Stamps
      <4>1. CASE d \in 1 .. n - 1
        <5>1. d \in EventFrames /\ Fr(d)' = Fr(d) /\ Place(d)' = Place(d)
          BY <2>3, <3>3, <4>1
        <5> QED
          BY <3>3, <5>1 DEF Stamps
      <4>2. CASE d = n + 1
        <5>1. i \in EventCells /\ captured[i].state /\ x = Stamp(i, captured[i])
          BY <2>1, <2>3, <2>4, <3>3, <4>2
        <5> QED
          BY <5>1 DEF Stamps
      <4> QED
        BY <2>5, <3>3, <4>1, <4>2
    <3> QED
      BY <3>1, <3>2, <3>3
  <2>8. Stamps' \subseteq Stamps
    BY <2>7
  <2> QED
    BY <1>3, <1>4, <2>8, TimeStays
<1> QED
  BY <1>3, <1>5, <1>6

\* A press comes after all that wait.
LEMMA KeyTime ==
  ASSUME Core, TimeInv, Idle, NEW p \in Positions, NEW st \in BOOLEAN,
         stack' = <<Raise(KeyEvent(p, st))>>, UNCHANGED <<now, held, captured, lastTapped>>
  PROVE  TimeInv'
<1>c. Types /\ Gap /\ TypeOK
  BY DEF Core, CellsInv, Types
<1>1. PICK ev : ev = KeyEvent(p, st)
  OBVIOUS
<1>2. now \in Nat
  BY <1>c, ConstantsAssumption DEF TypeOK
<1>3. ev \in Event /\ ev.ts = now
  BY <1>1, <1>2 DEF KeyEvent, Event
<1>4. Raise(ev) \in Frames /\ Raise(ev).ev = ev
  BY <1>3, FramesAre
<1>5. Becomes(1, Raise(ev))
  BY <1>1, <1>4, Starts
<1>6. Height' = 1 /\ Fr(1)'.ev = ev /\ Levels' = {1}
  BY <1>4, <1>5 DEF Becomes, Levels
<1>7. EventCells' = EventCells
  BY DEF EventCells
<1>8. \A x \in Stamps : x.at \in Nat /\ x.at <= MaxCaptured
  BY <1>c, IdleItems, StampIs
<1>9. ASSUME NEW x \in Stamps'
      PROVE  x \in Stamps \/ (x.at = MaxCaptured + 1 /\ x.ts = now)
  <2>1. \/ \E c \in EventCells' : captured'[c].state /\ x = Stamp(c, captured'[c])
        \/ \E d \in EventFrames' : Fr(d)'.ev.state /\ x = Stamp(Place(d)', Fr(d)'.ev)
    BY DEF Stamps, Stamp
  <2>2. ASSUME NEW c, c \in EventCells', captured'[c].state, x = Stamp(c, captured'[c])
        PROVE  x \in Stamps
    BY <1>7, <2>2 DEF Stamps
  <2>3. ASSUME NEW d, d \in EventFrames', x = Stamp(Place(d)', Fr(d)'.ev)
        PROVE  x.at = MaxCaptured + 1 /\ x.ts = now
    <3>1. d = 1
      BY <1>6, <2>3 DEF EventFrames
    <3>2. Place(1)' = MaxCaptured + 1
      BY DEF Place
    <3> QED
      BY <1>3, <1>6, <2>3, <3>1, <3>2 DEF Stamp
  <2> QED
    BY <2>1, <2>2, <2>3
<1>10. \A x \in Stamps' : x.ts \in Nat /\ x.ts <= now
  BY <1>2, <1>9 DEF TimeInv
<1>11. \A x, y \in Stamps' : x.at <= y.at => x.ts <= y.ts
  <2> SUFFICES ASSUME NEW x \in Stamps', NEW y \in Stamps', x.at <= y.at
               PROVE  x.ts <= y.ts
    OBVIOUS
  <2>1. CASE y \notin Stamps
    BY <1>9, <1>10, <2>1
  <2>2. CASE y \in Stamps /\ x \notin Stamps
    <3>1. x.at = MaxCaptured + 1 /\ y.at \in Nat /\ y.at <= MaxCaptured /\ MaxCaptured \in Nat
      BY <1>8, <1>9, <2>2, Constants
    <3> QED
      BY <3>1
  <2>3. CASE y \in Stamps /\ x \in Stamps
    BY <2>3 DEF TimeInv
  <2> QED
    BY <2>1, <2>2, <2>3
<1>12. \A t : Past(t) => t <= now /\ \A x \in Stamps' : t <= x.ts
  BY <1>9 DEF Past
<1>13. Past(lastTapped.ts) /\ \A s \in Slots : Used(s) => Past(held[s].ts)
  BY DEF TimeInv
<1>14. Past(lastTapped.ts)'
  BY <1>12, <1>13 DEF Past
<1>15. \A s \in Slots : Used(s)' => Past(held[s].ts)'
  <2>1. \A s \in Slots : Used(s) => held[s].ts <= now /\ \A x \in Stamps' : held[s].ts <= x.ts
    BY <1>12, <1>13
  <2>2. \A s : Used(s)' <=> Used(s)
    BY DEF Used
  <2> QED
    BY <2>1, <2>2 DEF Past
<1> QED
  BY <1>10, <1>11, <1>14, <1>15 DEF TimeInv

LEMMA TimerHandlerTime ==
  ASSUME Core, TimeInv, NEW s \in Slots, TimerHandler(s)
  PROVE  TimeInv'
<1>c. Types /\ TypeOK
  BY DEF Core, Types
<1>1. Idle /\ UNCHANGED <<now, captured, lastTapped>>
  BY DEF TimerHandler
<1>2. EventFrames' = {}
  <2>1. CASE stack' = stack
    <3>1. Height' = 0
      BY <1>1, <2>1 DEF Idle, Height
    <3> QED
      BY <3>1 DEF EventFrames, Levels
  <2>2. ASSUME NEW e, stack' = <<Decide(s, "TIMER_EVENT", e)>>
        PROVE  EventFrames' = {}
    <3>1. Height' = 1 /\ Fr(1)' = Decide(s, "TIMER_EVENT", e)
      BY <2>2 DEF Height, Fr
    <3>2. Fr(1)'.op \notin EventOps /\ Levels' = {1}
      BY <3>1 DEF Decide, Frame, EventOps, Levels
    <3> QED
      BY <3>2 DEF EventFrames
  <2> QED
    BY <2>1, <2>2 DEF TimerHandler
<1>3. EventCells' = EventCells
  BY <1>1 DEF EventCells
<1>4. Stamps' \subseteq Stamps
  BY <1>1, <1>2, <1>3 DEF Stamps
<1>5. \A t \in Slots : Used(t)' => Used(t) /\ held'[t].ts = held[t].ts
  <2>1. held' = held \/ held' = [held EXCEPT ![s] = FreeSlot]
    BY DEF TimerHandler
  <2>2. \A t \in Slots : held'[t] = held[t] \/ held'[t] = FreeSlot
    BY <1>c, <2>1 DEF TypeOK
  <2>3. FreeSlot.pos = NoPos
    BY DEF FreeSlot
  <2> QED
    BY <2>2, <2>3 DEF Used
<1>6. Past(lastTapped'.ts) /\ \A t \in Slots : Used(t)' => Past(held'[t].ts)
  BY <1>1, <1>5 DEF TimeInv
<1> QED
  BY <1>1, <1>4, <1>6, TimeStays

LEMMA TickTime ==
  ASSUME TimeInv, now \in Nat, now' \in Nat, now <= now',
         UNCHANGED <<held, captured, stack, lastTapped>>, lastTapped.ts \in Int, TypeOK
  PROVE  TimeInv'
<1>1. Stamps' = Stamps
  <2>1. Height' = Height /\ Levels' = Levels /\ \A d : Fr(d)' = Fr(d)
    BY DEF Height, Levels, Fr
  <2>2. EventCells' = EventCells /\ EventFrames' = EventFrames
    BY <2>1 DEF EventCells, EventFrames
  <2>3. \A d : Place(d)' = Place(d)
    BY <2>1 DEF Place
  <2> QED
    BY <2>1, <2>2, <2>3 DEF Stamps
<1>2. \A t \in Int : Past(t) => Past(t)'
  BY <1>1 DEF Past
<1>3. \A s \in Slots : held[s].ts \in Int
  BY SlotIs
<1>4. \A x \in Stamps : x.ts \in Nat /\ x.ts <= now /\ x.ts <= now'
  BY DEF TimeInv
<1>5. Past(lastTapped.ts) /\ \A s \in Slots : Used(s) => Past(held[s].ts)
  BY DEF TimeInv
<1>6. Past(lastTapped.ts)'
  BY <1>1, <1>5 DEF Past
<1>7. \A s \in Slots : Used(s)' => Past(held[s].ts)'
  BY <1>1, <1>3, <1>5 DEF Past, Used
<1> QED
  BY <1>1, <1>4, <1>6, <1>7 DEF TimeInv

LEMMA TimeInit == Init => TimeInv
<1> SUFFICES ASSUME Init
             PROVE  TimeInv
  OBVIOUS
<1>1. EventFrames = {}
  <2>1. Height = 0
    BY DEF Init, Height
  <2> QED
    BY <2>1 DEF EventFrames, Levels
<1>2. EventCells = {}
  BY DEF EventCells, Init, NoEvent
<1>3. Stamps = {}
  BY <1>1, <1>2 DEF Stamps
<1>4. now = 0 /\ lastTapped.ts = -100 /\ \A s \in Slots : ~Used(s)
  BY DEF Init, Used, FreeSlot
<1> QED
  BY <1>3, <1>4 DEF TimeInv, Past
-----------------------------------------------------------------------------
(* The bindings                                                             *)

\* Holding while undecided is not combined with quick-tap or with require-prior-idle: a
\* quick tap is decided before the hold binding was pressed, and releases it all the same.
PatientHolds ==
  \A c \in Configs, p \in HoldTaps :
    c[p].holdWhileUndecided => c[p].quickTap <= 0 /\ c[p].priorIdle <= 0

\* The key that was tapped last was tapped before any press that is about to be handled.
LEMMA NoneQuick ==
  ASSUME PatientHolds, Core, TimeInv
  PROVE  NoQuickHold
<1> SUFFICES ASSUME Running("invoke"), NEW ev, ev = Head(stack).ev, ev.key \in HoldTaps, ev.state,
                    config[ev.key].holdWhileUndecided
             PROVE  ~IsQuickTap(ev.key, ev.ts)
  BY DEF NoQuickHold
<1>c. Types /\ TypeOK
  BY DEF Core, Types
<1>1. PICK n : n = Height
  OBVIOUS
<1>2. n \in Levels /\ Fr(n) = Head(stack) /\ Fr(n).op = "invoke" /\ FrameShape(n)
  BY <1>1, <1>c, Top
<1>3. n \in EventFrames /\ Fr(n).ev = ev /\ ev \in Event
  BY <1>2 DEF EventFrames, FrameShape, EventOps, EventOK
<1>4. lastTapped.ts <= ev.ts
  BY <1>1, <1>2, <1>3, FirstPast
<1>5. lastTapped.ts \in Int /\ ev.ts \in Nat
  BY <1>3, <1>c DEF TypeOK, Event
<1>6. PICK c : c = config[ev.key]
  OBVIOUS
<1>7. c \in HoldTapConfig /\ c.quickTap <= 0 /\ c.priorIdle <= 0
  BY <1>6, <1>c, ConstantsAssumption DEF TypeOK, PatientHolds
<1>8. c.quickTap \in Int /\ c.priorIdle \in Int
  BY <1>7 DEF HoldTapConfig
<1>9. ~(lastTapped.ts + c.priorIdle > ev.ts) /\ ~(lastTapped.ts + c.quickTap > ev.ts)
  BY <1>4, <1>5, <1>7, <1>8
<1> QED
  BY <1>6, <1>9 DEF IsQuickTap

\* What is about to happen to the keycodes, and to the time stamps, follows from the events.
BindingsInv == lost = {} => Core /\ CodeInv /\ TimeInv

LEMMA BindingsNext ==
  ASSUME SimpleHolds, PatientHolds, BindingsInv, [Next]_vars
  PROVE  BindingsInv'
<1> SUFFICES ASSUME lost' = {}
             PROVE  Core' /\ CodeInv' /\ TimeInv'
  BY DEF BindingsInv
<1>1. Core /\ CodeInv /\ TimeInv /\ HoldTapInv
  BY LostGrows DEF BindingsInv, HoldTapInv
<1>2. HoldTapInv'
  BY <1>1, CoreNext
<1>3. Core'
  BY <1>2 DEF HoldTapInv
<1>4. CASE RaisePosition
  BY <1>1, <1>3, <1>4, RaisePositionCodes, RaiseTime
<1>5. CASE ListenPosition
  BY <1>1, <1>3, <1>5, ListenPositionCodes, ListenTime
<1>6. CASE RaiseKeycode
  BY <1>1, <1>3, <1>6, RaiseKeycodeCodes, RaiseKeycodeTime
<1>7. CASE InvokePlain
  BY <1>1, <1>3, <1>7, InvokePlainCodes, InvokePlainTime
<1>8. CASE InvokePressed
  BY <1>1, <1>3, <1>8, NoneQuick, InvokePressedCodes, InvokePressedTime
<1>9. CASE InvokeReleased
  BY <1>1, <1>3, <1>9, InvokeReleasedCodes, InvokeReleasedTime
<1>10. CASE ScheduleTimer
  BY <1>1, <1>3, <1>10, ScheduleCodes, ScheduleTime
<1>11. CASE FinishRelease
  BY <1>1, <1>3, <1>11, FinishReleaseCodes, FinishTime
<1>12. CASE DecideHoldTap
  BY <1>1, <1>3, <1>12, DecideHoldTapCodes, DecideTime
<1>13. CASE ReleaseCaptured
  BY <1>1, <1>3, <1>13, ReleaseCapturedCodes, ReplayTime
<1>14. ASSUME NEW p \in Positions, NEW st \in BOOLEAN, Idle, stack' = <<Raise(KeyEvent(p, st))>>,
              UNCHANGED <<config, now, undecided, held, timer, captured, lastTapped, seen, out, lost>>
       PROVE  CodeInv' /\ TimeInv'
  <2>1. CodeInv'
    BY <1>1, <1>14, KeyCodes
  <2>2. UNCHANGED <<now, held, captured, lastTapped>>
    BY <1>14
  <2>3. TimeInv'
    BY <1>1, <1>14, <2>2, KeyTime
  <2> QED
    BY <2>1, <2>3
<1>15. ASSUME NEW p \in Positions, KeyDown(p) \/ KeyUp(p)
       PROVE  CodeInv' /\ TimeInv'
  <2>1. PICK st \in BOOLEAN : stack' = <<Raise(KeyEvent(p, st))>>
    BY <1>15 DEF KeyDown, KeyUp
  <2>2. /\ Idle
        /\ UNCHANGED <<config, now, undecided, held, timer, captured, lastTapped, seen, out, lost>>
    BY <1>15 DEF KeyDown, KeyUp
  <2> QED
    BY <1>14, <2>1, <2>2
<1>16. ASSUME NEW s \in Slots, TimerHandler(s)
       PROVE  CodeInv' /\ TimeInv'
  <2>1. CodeInv'
    BY <1>1, <1>16, TimerHandlerCodes
  <2>2. TimeInv'
    BY <1>1, <1>16, TimerHandlerTime
  <2> QED
    BY <2>1, <2>2
<1>17. CASE Tick \/ UNCHANGED vars
  <2>1. UNCHANGED <<config, undecided, held, timer, captured, lastTapped, stack, seen, out>>
    BY <1>17 DEF Tick, vars
  <2>2. TypeOK
    BY <1>1 DEF Core, Types
  <2>3. now \in Nat /\ now' \in Nat /\ now <= now' /\ lastTapped.ts \in Int
    <3>1. now \in Nat /\ lastTapped.ts \in Int
      BY <2>2, ConstantsAssumption DEF TypeOK
    <3>2. now' = now + 1 \/ now' = now
      BY <1>17 DEF Tick, vars
    <3> QED
      BY <3>1, <3>2
  <2>4. CodeInv'
    BY <1>1, <2>1, TickCodes
  <2>5. TimeInv'
    BY <1>1, <2>1, <2>2, <2>3, TickTime
  <2> QED
    BY <1>3, <2>4, <2>5
<1> QED
  BY <1>3, <1>4, <1>5, <1>6, <1>7, <1>8, <1>9, <1>10, <1>11, <1>12, <1>13, <1>15, <1>16, <1>17
  DEF Next, Handler, Environment

\* With nothing under way and every key up, no binding is pressed.
LEMMA NoneBound ==
  ASSUME Core, CodeInv, Idle, down = {}, NoHandlerInProgress, undecided = 0
  PROVE  /\ \A c \in Codes : out[c] = 0
         /\ \A s \in Slots : held[s].pos = NoPos
<1>c. Types /\ TypeOK /\ LowEmpty /\ ItemsInv /\ SlotsReturn
  BY DEF Core, Types, CellsInv, SlotsInv
<1>1. Levels = {} /\ EventFrames = {} /\ (\A i : Low(i)) /\ \A s : ~Finishing(s)
  BY <1>c, IdleIs
<1>2. \A i \in Cells : captured[i] = NoEvent
  BY <1>1, <1>c DEF LowEmpty, Full
<1>3. Items = {} /\ CodeItems = {}
  BY <1>1, <1>2 DEF Items, EventCells, CodeItems, CodesIn, CodeFrames, NoEvent
<1>4. seen = {}
  <2>1. \A p \in Positions : p \in seen <=> p \in down
    BY <1>3, <1>c DEF ItemsInv, Alternates
  <2> QED
    BY <1>c, <2>1 DEF TypeOK
<1>5. \A s \in Slots : ~Used(s)
  BY <1>1, <1>4, <1>c DEF SlotsReturn, NoHandlerInProgress
<1>6. Bound = {}
  BY <1>4, <1>5 DEF Bound, Pressed
<1>7. \A c \in Codes : c \notin On(out) /\ out[c] \in {0, 1}
  BY <1>3, <1>6 DEF CodeInv, Told, Alternates
<1> QED
  BY <1>5, <1>7 DEF On, Used

LEMMA Released == BindingsInv => BindingsReleased
<1> SUFFICES ASSUME BindingsInv
             PROVE  AllReleased /\ ReleasesPaired
  BY DEF BindingsReleased
<1>1. AllReleased
  BY NoneBound DEF AllReleased, BindingsInv
<1>2. ReleasesPaired
  BY DEF ReleasesPaired, BindingsInv, CodeInv, Told
<1> QED
  BY <1>1, <1>2

(***************************************************************************)
(* Each press of a tap, hold or plain binding is followed by one release   *)
(* before it is pressed again, whatever was decided, replayed or captured  *)
(* for a hold-tap further in, and with every key up none is left pressed   *)
(* and every slot is given back: no modifier stays down, none is released  *)
(* twice.  What is lost to a full captured_events may be a release, and    *)
(* nothing is claimed after that.                                          *)
(***************************************************************************)
THEOREM BindingsFollow == SimpleHolds /\ PatientHolds => (Spec => []BindingsReleased)
<1> SUFFICES ASSUME SimpleHolds, PatientHolds
             PROVE  Spec => []BindingsReleased
  OBVIOUS
<1>1. BindingsInv => BindingsReleased
  BY Released
<1>2. Init => BindingsInv
  BY CoreInit, CodeInit, TimeInit DEF BindingsInv
<1>3. BindingsInv /\ [Next]_vars => BindingsInv'
  BY BindingsNext
<1> QED
  BY <1>1, <1>2, <1>3, PTL DEF Spec
=============================================================================
