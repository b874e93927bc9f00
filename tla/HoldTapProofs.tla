---------------------------- MODULE HoldTapProofs ----------------------------
(* Proofs about HoldTap: that slots, timers and undecided_hold_tap agree and    *)
(* that no key event is lost or overtaken, however deep hold-taps nest in the   *)
(* replay, as long as none was lost to a full captured_events.                  *)
EXTENDS HoldTap, FiniteSetTheorems, SequenceTheorems, WellFoundedInduction, TLAPS

\* Holding while undecided is not combined with retro-tap or with linger.  Such a hold-tap
\* may emit three keycodes at its release, one more than the events of its own key that the
\* replay around it has taken out of captured_events.
SimpleHolds ==
  \A c \in Configs, p \in HoldTaps :
    c[p].holdWhileUndecided => ~c[p].linger /\ ~c[p].retroTap
-----------------------------------------------------------------------------
(* The calls in progress, counted from the outermost                         *)

Frames == [op : {"raise", "listen", "invoke", "decide", "schedule", "finish", "release"},
           ev : Event, s : Nat, moment : Moments]

Height == Len(stack)
Fr(d) == stack[Height + 1 - d]
Levels == 1 .. Height
IsRelease(d) == d \in Levels /\ Fr(d).op = "release"
OnRelease(d) == d = 1 \/ IsRelease(d - 1)
EventOps == {"raise", "listen", "invoke"}

EventOK(ev) == /\ ev \in Event
               /\ \/ ev.t = "pos" /\ ev.key \in Positions
                  \/ ev.t = "code" /\ ev.key \in Codes

\* A frame d as it was pushed, and what it is to return to
Returns(d, op, s) == d > 1 /\ Fr(d - 1).op = op /\ Fr(d - 1).s = s
DecideShape(d) ==
  /\ Fr(d).s \in Slots
  /\ Fr(d).moment = "KEY_UP" => Returns(d, "finish", Fr(d).s)
  /\ Fr(d).moment = "KEY_DOWN" => Returns(d, "schedule", Fr(d).s)
  /\ Fr(d).moment = "QUICK_TAP" =>
       d = Height /\ Returns(d, "decide", Fr(d).s) /\ Fr(d - 1).moment = "KEY_DOWN"
  /\ Fr(d).moment \in {"OTHER_KEY_DOWN", "OTHER_KEY_UP"} => d = Height /\ OnRelease(d)
  /\ Fr(d).moment = "TIMER_EVENT" =>
       /\ d = Height
       /\ \/ d = 1
          \/ d > 1 /\ Fr(d - 1).op = "listen"
          \/ Returns(d, "decide", Fr(d).s) /\ Fr(d - 1).moment = "KEY_UP"
FrameShape(d) ==
  /\ Fr(d).op \in EventOps => OnRelease(d) /\ EventOK(Fr(d).ev)
  /\ Fr(d).op \in {"listen", "invoke"} => Fr(d).ev.t = "pos"
  /\ Fr(d).op \in {"raise", "invoke"} => d = Height
  /\ Fr(d).op \in {"schedule", "finish"} => OnRelease(d) /\ Fr(d).s \in Slots
  /\ Fr(d).op = "release" => Fr(d).s \in 1 .. MaxCaptured + 1
  /\ Fr(d).op = "decide" => DecideShape(d)
Shape == \A d \in Levels : FrameShape(d)

CapturedOK == \A i \in Cells : captured[i] # NoEvent => EventOK(captured[i])
Types == TypeOK /\ Shape /\ CapturedOK
-----------------------------------------------------------------------------
(* The cells of captured_events                                              *)

Full(i) == captured[i] # NoEvent
\* i is before every cell that a replay has still to come to
Low(i) == \A d \in Levels : IsRelease(d) => i < Fr(d).s

\* An inner replay is at an earlier cell than an outer one, and the cell the outer one
\* took its last event from is free.
Rising == \A d, e \in Levels : IsRelease(d) /\ IsRelease(e) /\ d < e => Fr(e).s < Fr(d).s
Gap == \A d \in Levels : IsRelease(d) /\ d < Height => Fr(d).s >= 2 /\ ~Full(Fr(d).s - 1)
\* Only at the cell a replay is at does a run of events begin.
Packed == \A i, j \in Cells : i < j /\ ~Full(i) /\ Full(j) =>
                                \E d \in Levels : IsRelease(d) /\ i < Fr(d).s /\ Fr(d).s <= j
\* Without an undecided hold-tap only a replay has events.
LowEmpty == undecided = 0 => \A i \in Cells : Low(i) => ~Full(i)
CellsInv == Rising /\ Gap /\ Packed /\ LowEmpty

Used(s) == held[s].pos # NoPos
Silents == {s \in Slots : Used(s) /\ Silent(s, held[s].status)}

\* The n cells before cell t are free.
Free(cap, t, n) == t - n >= 1 /\ \A i \in (t - n) .. (t - 1) : cap[i] = NoEvent
TopRelease(d) == IsRelease(d) /\ \A e \in d + 1 .. Height : Fr(e).op # "release"
Carries(d) == \E e \in d + 1 .. Height : Fr(e).op \in EventOps \cup {"finish"}
\* While a hold-tap is undecided the cells before the next one to be replayed are room
\* for what is captured meanwhile: for the event in progress, and for the keycodes of
\* silent hold-taps.
RoomLeft ==
  undecided # 0 => \A d \in Levels : TopRelease(d) =>
    Free(captured, Fr(d).s, Cardinality(Silents) + (IF Carries(d) THEN 2 ELSE 1))
ListenRoom == \A d \in Levels : Fr(d).op = "listen" /\ d > 1 => Fr(d - 1).s >= 3
InvokeRoom ==
  \A d \in Levels : Fr(d).op = "invoke" /\ d > 1 /\ Fr(d).ev.state =>
                       Fr(d - 1).s >= 2 + Cardinality(Silents)
RoomInv == RoomLeft /\ ListenRoom /\ InvokeRoom

\* The innermost call about a position event that was looked at for silent hold-taps
EndOps == {"listen", "invoke", "finish"}
TopEnd(d) == Fr(d).op \in EndOps /\ \A e \in d + 1 .. Height : Fr(e).op \notin EndOps
KeyAt(d) == IF Fr(d).op = "finish" THEN held[Fr(d).s].pos ELSE Fr(d).ev.key
Ends(s) == \E d \in Levels : TopEnd(d) /\ held[s].pos = KeyAt(d)
\* That event ended the silence of all hold-taps but its own, and one at most was decided since.
OneSilent ==
  undecided # 0 \/ (\E d \in Levels : Fr(d).op \in {"listen", "invoke"}) =>
    \E w \in Slots : \A s \in Silents : s = w \/ Ends(s)
OwnSilent ==
  \A d \in Levels : d > 1 /\ Fr(d).op = "decide" /\ Fr(d - 1).op = "listen" =>
                       \A s \in Silents : held[s].pos = Fr(d - 1).ev.key
SilentInv == OneSilent /\ OwnSilent
-----------------------------------------------------------------------------
(* The key events under way                                                  *)

\* An event in progress stands at the cell it was replayed from, a new one behind all.
Place(d) == IF d = 1 THEN MaxCaptured + 1 ELSE Fr(d - 1).s - 1
Item(q, ev) == [at |-> q, key |-> ev.key, state |-> ev.state]
EventFrames == {d \in Levels : Fr(d).op \in EventOps /\ Fr(d).ev.t = "pos"}
EventCells == {i \in Cells : captured[i].t = "pos"}
Items == {Item(i, captured[i]) : i \in EventCells}
           \cup {Item(Place(d), Fr(d).ev) : d \in EventFrames}

OnePerPlace(L) == \A x, y \in L : x.at = y.at => x = y
\* The events about a key of K alternate, from what the keymap saw to how the key is.
FirstOf(L, x) == \A y \in L : y.key = x.key => x.at <= y.at
LastOf(L, x) == \A y \in L : y.key = x.key => y.at <= x.at
NextOf(L, x, y) == /\ x.key = y.key /\ x.at < y.at
                   /\ \A z \in L : z.key = x.key => z.at <= x.at \/ y.at <= z.at
Alternates(K, L, sn, dn) ==
  /\ \A x \in L : FirstOf(L, x) => (x.state <=> x.key \notin sn)
  /\ \A x \in L : LastOf(L, x) => (x.state <=> x.key \in dn)
  /\ \A x, y \in L : NextOf(L, x, y) => (x.state <=> ~y.state)
  /\ \A p \in K : (\A x \in L : x.key # p) => (p \in sn <=> p \in dn)
\* A list of presses names the presses among them in their order.
Press(q, p) == [at |-> q, key |-> p, state |-> TRUE]
Ordered(L, list) ==
  \E at \in [1 .. Len(list) -> 1 .. MaxCaptured + 1] :
    /\ \A j, k \in 1 .. Len(list) : j < k => at[j] < at[k]
    /\ \A k \in 1 .. Len(list) : Press(at[k], list[k]) \in L
    /\ \A x \in L : x.state => \E k \in 1 .. Len(list) : x.at = at[k]
Of(L, p) == {x \in L : x.key = p}
Even(L, sn, dn) ==
  \A p \in Positions : (p \in dn <=> p \in sn) <=> Cardinality(Of(L, p)) % 2 = 0
ItemsInv == /\ OnePerPlace(Items) /\ Alternates(Positions, Items, seen, down)
            /\ Ordered(Items, typed) /\ Even(Items, seen, down)
-----------------------------------------------------------------------------
(* The slots                                                                 *)

Finishing(s) == \E d \in Levels : Fr(d).op = "finish" /\ Fr(d).s = s
\* A slot is in use by one key, from its press to its release.
OneSlotPerKey == \A s, t \in Slots : Used(s) /\ held[s].pos = held[t].pos => s = t
SlotsReturn ==
  \A s \in Slots : Used(s) => held[s].pos \in seen \/ held[s].cancelled \/ Finishing(s)
\* A slot that only its timer handler has still to clear has no other business.
CancelledDone ==
  \A s \in Slots : held[s].cancelled =>
    /\ Used(s) /\ timer[s] /\ s # undecided /\ held[s].pos \notin seen
    /\ \A x \in Items : x.key # held[s].pos
\* What is captured for the undecided hold-tap is about keys that have no slot.
OthersCaptured ==
  \A s \in Slots, i \in EventCells : Used(s) /\ Low(i) => captured[i].key # held[s].pos
SlotsInv == /\ UndecidedIsUnique /\ NoStaleTimer /\ OneSlotPerKey
            /\ SlotsReturn /\ CancelledDone /\ OthersCaptured

\* The call d returns to has its decision still before it.
ToDecide(d) == d < Height /\ \A e \in d + 1 .. Height : Fr(e).op = "decide"
FinishInv ==
  \A d \in Levels : Fr(d).op = "finish" =>
    LET s == Fr(d).s
    IN /\ Used(s) /\ held[s].pos \notin seen
       /\ Fr(d).moment = "TIMER_EVENT" => d = 1 /\ timer[s]
       /\ Fr(d).moment # "TIMER_EVENT" => ~timer[s]
       /\ ~ToDecide(d) => s # undecided
       /\ \A x \in Items : x.key = held[s].pos => Place(d) < x.at
       /\ \A e \in Levels : Fr(e).op = "finish" /\ Fr(e).s = s => e = d
\* Between a press and its k_work_schedule nothing is replayed.
PressInv ==
  \A d \in Levels :
    /\ Fr(d).op = "schedule" =>
         d = Height \/ (Fr(d + 1).op = "decide" /\ Fr(d + 1).moment = "KEY_DOWN")
    /\ Fr(d).op = "decide" /\ Fr(d).moment = "KEY_DOWN" =>
         /\ captured[1] = NoEvent
         /\ \/ d = Height
            \/ d + 1 = Height /\ Fr(d + 1).op = "decide" /\ Fr(d + 1).moment = "QUICK_TAP"
            \/ d + 1 = Height /\ Fr(d + 1).op = "release" /\ Fr(d + 1).s = 1
    /\ Fr(d).op \in {"schedule", "decide"} => Used(Fr(d).s)
    /\ Fr(d).op = "schedule" => held[Fr(d).s].pos \in seen
\* What the keymap is about to handle is the first of its key, a press the first of all.
InvokeInv ==
  \A d \in Levels : Fr(d).op = "invoke" =>
    /\ Fr(d).ev.state => undecided = 0
    /\ \A x \in Items : x.key = Fr(d).ev.key => Place(d) <= x.at

CallInv == FinishInv /\ PressInv /\ InvokeInv
Core == Types /\ CellsInv /\ RoomInv /\ SilentInv /\ ItemsInv /\ SlotsInv /\ CallInv
HoldTapInv == lost = {} => Core
-----------------------------------------------------------------------------
(* The call stack *)

LEMMA Constants ==
  /\ MaxCaptured \in Nat /\ MaxCaptured >= 1 /\ MaxHeld \in Nat /\ MaxHeld >= 1
  /\ Slots \subseteq Nat /\ 0 \notin Slots /\ IsFiniteSet(Slots) /\ Cells \subseteq Nat
BY ConstantsAssumption, FS_Interval DEF Slots, Cells

\* The least of a set of numbers
LEMMA Least ==
  ASSUME NEW T, T \subseteq Nat, T # {}
  PROVE  \E n \in T : \A k \in T : n <= k
<1>1. PICK n \in T : \A k \in T : ~(<<k, n>> \in OpToRel(<, Nat))
  BY WFMin, NatLessThanWellFounded
<1>2. \A k \in T : ~(k < n)
  BY <1>1 DEF OpToRel
<1> QED
  BY <1>2

LEMMA StackFrames ==
  ASSUME stack \in Seq(Frames)
  PROVE  /\ Height \in Nat /\ \A d \in Levels : Fr(d) \in Frames
         /\ stack = <<>> <=> Height = 0
         /\ stack # <<>> => Fr(Height) = Head(stack) /\ Height \in Levels
<1>1. Height \in Nat /\ (stack = <<>> <=> Height = 0)
  BY EmptySeq, LenProperties DEF Height
<1>2. \A d \in Levels : Fr(d) \in Frames
  <2> SUFFICES ASSUME NEW d \in Levels
               PROVE  stack[Len(stack) + 1 - d] \in Frames
    BY DEF Fr, Height
  <2>1. Len(stack) + 1 - d \in 1 .. Len(stack)
    BY <1>1 DEF Levels, Height
  <2> QED
    BY <2>1, ElementOfSeq
<1>3. stack # <<>> => Fr(Height) = Head(stack) /\ Height \in Levels
  <2> SUFFICES ASSUME stack # <<>>
               PROVE  stack[Len(stack) + 1 - Len(stack)] = Head(stack) /\ Height \in Levels
    BY DEF Fr, Height
  <2>1. Len(stack) + 1 - Len(stack) = 1 /\ Height \in Levels
    BY <1>1 DEF Levels, Height
  <2> QED
    BY <2>1, HeadTailProperties
<1> QED
  BY <1>1, <1>2, <1>3

\* The calls below n are as they were.
Kept(n) == \A d \in 1 .. n - 1 : Fr(d)' = Fr(d)

LEMMA Calls ==
  ASSUME stack \in Seq(Frames), stack # <<>>, NEW frames \in Seq(Frames), Call(frames),
         NEW n, n = Height
  PROVE  /\ stack' \in Seq(Frames) /\ Height' = n - 1 + Len(frames) /\ Kept(n)
         /\ \A i \in 1 .. Len(frames) : Fr(n - 1 + i)' = frames[Len(frames) + 1 - i]
<1> DEFINE tl == Tail(stack)
<1>1. tl \in Seq(Frames) /\ Len(tl) = n - 1 /\ n \in Nat /\ n >= 1
      /\ \A i \in 1 .. n - 1 : tl[i] = stack[i + 1]
  BY HeadTailProperties, StackFrames DEF Height, Levels
<1>2. stack' = frames \o tl
  BY DEF Call
<1> HIDE DEF tl
<1>3. Len(frames) \in Nat /\ stack' \in Seq(Frames) /\ Len(stack') = Len(frames) + (n - 1)
      /\ \A i \in 1 .. Len(frames) + (n - 1) :
           stack'[i] = IF i <= Len(frames) THEN frames[i] ELSE tl[i - Len(frames)]
  <2>1. /\ stack' \in Seq(Frames) /\ Len(stack') = Len(frames) + Len(tl)
        /\ \A i \in 1 .. Len(frames) + Len(tl) :
             stack'[i] = IF i <= Len(frames) THEN frames[i] ELSE tl[i - Len(frames)]
    BY <1>1, <1>2, ConcatProperties, Zenon
  <2> QED
    BY <1>1, <2>1, LenProperties
<1>4. Height' = n - 1 + Len(frames)
  BY <1>1, <1>3 DEF Height
<1>5. ASSUME NEW d \in 1 .. n - 1
      PROVE  Fr(d)' = Fr(d)
  <2>1. PICK j : j = Height' + 1 - d
    OBVIOUS
  <2>2. j \in 1 .. Len(frames) + (n - 1) /\ ~(j <= Len(frames)) /\ j - Len(frames) = n - d
        /\ n - d \in 1 .. n - 1 /\ n - d + 1 = n + 1 - d
    BY <1>1, <1>3, <1>4, <2>1
  <2>3. stack'[j] = tl[n - d]
    BY <1>3, <2>2
  <2>4. tl[n - d] = stack[n + 1 - d]
    BY <1>1, <2>2
  <2> QED
    BY <2>1, <2>3, <2>4 DEF Fr
<1>6. ASSUME NEW i \in 1 .. Len(frames)
      PROVE  Fr(n - 1 + i)' = frames[Len(frames) + 1 - i]
  <2>1. Height' + 1 - (n - 1 + i) = Len(frames) + 1 - i /\ Len(frames) + 1 - i \in 1 .. Len(frames) + (n - 1)
        /\ Len(frames) + 1 - i <= Len(frames)
    BY <1>1, <1>3, <1>4
  <2>2. stack'[Height' + 1 - (n - 1 + i)] = frames[Len(frames) + 1 - i]
    BY <1>3, <2>1
  <2> QED
    BY <2>2 DEF Fr
<1> QED
  BY <1>3, <1>4, <1>5, <1>6 DEF Kept

\* The call n returns; it is replaced by f, by f and g to follow, or by f, g and h.
Returned(n) == stack' \in Seq(Frames) /\ Height' = n - 1 /\ Kept(n)
Becomes(n, f) == stack' \in Seq(Frames) /\ Height' = n /\ Kept(n) /\ Fr(n)' = f
Becomes2(n, f, g) ==
  stack' \in Seq(Frames) /\ Height' = n + 1 /\ Kept(n) /\ Fr(n + 1)' = f /\ Fr(n)' = g
Becomes3(n, f, g, h) ==
  /\ stack' \in Seq(Frames) /\ Height' = n + 2 /\ Kept(n)
  /\ Fr(n + 2)' = f /\ Fr(n + 1)' = g /\ Fr(n)' = h

LEMMA Calls0 ==
  ASSUME stack \in Seq(Frames), stack # <<>>, NEW n, n = Height, Call(<<>>)
  PROVE  Returned(n)
<1>1. <<>> \in Seq(Frames) /\ Len(<<>>) = 0 /\ n \in Nat
  BY StackFrames
<1>2. stack' \in Seq(Frames) /\ Height' = n - 1 + Len(<<>>) /\ Kept(n)
  BY <1>1, Calls, Zenon
<1> QED
  BY <1>1, <1>2 DEF Returned

LEMMA Calls1 ==
  ASSUME stack \in Seq(Frames), stack # <<>>, NEW n, n = Height, NEW f \in Frames, Call(<<f>>)
  PROVE  Becomes(n, f)
<1> DEFINE fs == <<f>>
<1>1. fs \in Seq(Frames) /\ Len(fs) = 1 /\ fs[1] = f /\ n \in Nat
  BY StackFrames
<1>2. Call(fs)
  OBVIOUS
<1> HIDE DEF fs
<1>3. /\ stack' \in Seq(Frames) /\ Height' = n - 1 + Len(fs) /\ Kept(n)
      /\ \A i \in 1 .. Len(fs) : Fr(n - 1 + i)' = fs[Len(fs) + 1 - i]
  BY <1>1, <1>2, Calls, Zenon
<1>4. Fr(n - 1 + 1)' = fs[1] /\ Height' = n
  BY <1>1, <1>3
<1>5. n - 1 + 1 = n
  BY <1>1
<1> QED
  BY <1>1, <1>3, <1>4, <1>5 DEF Becomes

LEMMA Calls2 ==
  ASSUME stack \in Seq(Frames), stack # <<>>, NEW n, n = Height,
         NEW f \in Frames, NEW g \in Frames, Call(<<f, g>>)
  PROVE  Becomes2(n, f, g)
<1> DEFINE fs == <<f, g>>
<1>1. fs \in Seq(Frames) /\ Len(fs) = 2 /\ fs[1] = f /\ fs[2] = g /\ n \in Nat
  BY StackFrames
<1>2. Call(fs)
  OBVIOUS
<1> HIDE DEF fs
<1>3. /\ stack' \in Seq(Frames) /\ Height' = n - 1 + Len(fs) /\ Kept(n)
      /\ \A i \in 1 .. Len(fs) : Fr(n - 1 + i)' = fs[Len(fs) + 1 - i]
  BY <1>1, <1>2, Calls, Zenon
<1>4. Fr(n - 1 + 1)' = fs[2] /\ Fr(n - 1 + 2)' = fs[1] /\ Height' = n + 1
  BY <1>1, <1>3
<1>5. n - 1 + 1 = n /\ n - 1 + 2 = n + 1
  BY <1>1
<1> QED
  BY <1>1, <1>3, <1>4, <1>5 DEF Becomes2

LEMMA Calls3 ==
  ASSUME stack \in Seq(Frames), stack # <<>>, NEW n, n = Height,
         NEW f \in Frames, NEW g \in Frames, NEW h \in Frames, Call(<<f, g, h>>)
  PROVE  Becomes3(n, f, g, h)
<1> DEFINE fs == <<f, g, h>>
<1>1. fs \in Seq(Frames) /\ Len(fs) = 3 /\ fs[1] = f /\ fs[2] = g /\ fs[3] = h /\ n \in Nat
  BY StackFrames
<1>2. Call(fs)
  OBVIOUS
<1> HIDE DEF fs
<1>3. /\ stack' \in Seq(Frames) /\ Height' = n - 1 + Len(fs) /\ Kept(n)
      /\ \A i \in 1 .. Len(fs) : Fr(n - 1 + i)' = fs[Len(fs) + 1 - i]
  BY <1>1, <1>2, Calls, Zenon
<1>4. Fr(n - 1 + 1)' = fs[3] /\ Fr(n - 1 + 2)' = fs[2] /\ Fr(n - 1 + 3)' = fs[1] /\ Height' = n + 2
  BY <1>1, <1>3
<1>5. n - 1 + 1 = n /\ n - 1 + 2 = n + 1 /\ n - 1 + 3 = n + 2
  BY <1>1
<1> QED
  BY <1>1, <1>3, <1>4, <1>5 DEF Becomes3

\* A handler starts.
LEMMA Starts ==
  ASSUME NEW f \in Frames, stack' = <<f>>
  PROVE  Becomes(1, f)
<1>1. stack' \in Seq(Frames) /\ Len(stack') = 1 /\ stack'[1] = f
  OBVIOUS
<1>2. Height' = 1 /\ Fr(1)' = stack'[Height' + 1 - 1]
  BY <1>1 DEF Height, Fr
<1>3. Height' + 1 - 1 = 1
  BY <1>2
<1>4. Kept(1)
  BY DEF Kept
<1> QED
  BY <1>1, <1>2, <1>3, <1>4 DEF Becomes
-----------------------------------------------------------------------------
(* Emitting keycodes *)

IOs == [cap : [Cells -> Event], last : [pos : HoldTaps \cup {NoPos}, ts : Int],
        out : [Codes -> Int], lost : SUBSET (Positions \cup Codes)]
IOOK(io) == io \in IOs /\ \A i \in Cells : io.cap[i] # NoEvent => EventOK(io.cap[i])

\* The captured events stay, keycodes follow them in the first free cells.
Gathered(cap, new) ==
  \A i \in Cells :
    /\ cap[i] # NoEvent => new[i] = cap[i]
    /\ cap[i] = NoEvent /\ new[i] # NoEvent =>
         new[i].t = "code" /\ \A j \in Cells : j < i => new[j] # NoEvent
\* They take n of the cells that were free.
Takes(cap, new, n) ==
  \A t \in 1 .. MaxCaptured + 1, k \in Nat : Free(cap, t, k + n) => Free(new, t, k)
Emitted(io, new, n) ==
  /\ IOOK(new)
  /\ new.lost = {} => io.lost = {} /\ Gathered(io.cap, new.cap) /\ Takes(io.cap, new.cap, n)

LEMMA EventIsSome == \A ev : EventOK(ev) => ev # NoEvent /\ ev.t \in {"pos", "code"}
BY DEF EventOK, NoEvent

LEMMA CodesAre ==
  /\ \A p \in HoldTaps : Hold(p) \in Codes /\ Tap(p) \in Codes
  /\ \A p \in Plain : Key(p) \in Codes
BY DEF Codes

\* capture_event
LEMMA Captures ==
  ASSUME NEW io, IOOK(io), NEW ev, EventOK(ev)
  PROVE  /\ IOOK(Capture(io, ev))
         /\ Capture(io, ev).lost = {} =>
              /\ io.lost = {}
              /\ \E f \in Cells : /\ io.cap[f] = NoEvent /\ \A i \in Cells : i < f => io.cap[i] # NoEvent
                                  /\ Capture(io, ev).cap = [io.cap EXCEPT ![f] = ev]
<1> DEFINE free == {i \in Cells : io.cap[i] = NoEvent}
           new == Capture(io, ev)
<1>1. new = IF free = {} THEN [io EXCEPT !.lost = @ \cup {ev.key}]
            ELSE [io EXCEPT !.cap[CHOOSE i \in free : \A j \in free : i <= j] = ev]
  BY DEF Capture
<1>2. ev.key \in Positions \cup Codes /\ ev \in Event
  BY DEF EventOK
<1>3. CASE free = {}
  <2>1. new = [io EXCEPT !.lost = @ \cup {ev.key}]
    BY <1>1, <1>3
  <2>2. new \in IOs /\ new.cap = io.cap /\ new.lost # {}
    BY <1>2, <2>1 DEF IOOK, IOs
  <2> QED
    BY <2>2 DEF IOOK
<1>4. CASE free # {}
  <2> DEFINE f == CHOOSE i \in free : \A j \in free : i <= j
  <2>1. free \subseteq Nat
    BY Constants
  <2> HIDE DEF free
  <2>2. \E i \in free : \A j \in free : i <= j
    BY <1>4, <2>1, Least
  <2>3. f \in free /\ \A j \in free : f <= j
    BY <2>2
  <2> USE DEF free
  <2>4. new = [io EXCEPT !.cap = [io.cap EXCEPT ![f] = ev]]
    BY <1>1, <1>4 DEF IOOK, IOs
  <2> HIDE DEF f
  <2>5. f \in Cells /\ io.cap[f] = NoEvent /\ \A i \in Cells : i < f => io.cap[i] # NoEvent
    BY <2>1, <2>3, Constants
  <2>6. new \in IOs /\ new.cap = [io.cap EXCEPT ![f] = ev] /\ new.lost = io.lost
    BY <1>2, <2>4, <2>5 DEF IOOK, IOs
  <2>7. \A i \in Cells : new.cap[i] # NoEvent => EventOK(new.cap[i])
    BY <2>5, <2>6 DEF IOOK, IOs
  <2> HIDE DEF new, free
  <2> QED
    BY <2>5, <2>6, <2>7 DEF IOOK, new
<1> QED
  BY <1>3, <1>4

LEMMA CaptureTakes ==
  ASSUME NEW cap \in [Cells -> Event], NEW f \in Cells, cap[f] = NoEvent,
         \A i \in Cells : i < f => cap[i] # NoEvent, NEW ev
  PROVE  Takes(cap, [cap EXCEPT ![f] = ev], 1)
<1> SUFFICES ASSUME NEW t \in 1 .. MaxCaptured + 1, NEW k \in Nat, Free(cap, t, k + 1)
             PROVE  Free([cap EXCEPT ![f] = ev], t, k)
  BY DEF Takes
<1>0. MaxCaptured \in Nat /\ f \in Nat /\ Cells = 1 .. MaxCaptured
  BY Constants DEF Cells
<1>1. t - (k + 1) >= 1 /\ \A i \in (t - (k + 1)) .. (t - 1) : cap[i] = NoEvent
  BY DEF Free
<1>2. t - (k + 1) \in Cells /\ cap[t - (k + 1)] = NoEvent
  BY <1>0, <1>1
<1>3. f <= t - (k + 1)
  BY <1>0, <1>1, <1>2
<1>4. \A i \in (t - k) .. (t - 1) : i # f /\ i \in Cells /\ cap[i] = NoEvent
  BY <1>0, <1>1, <1>3
<1> QED
  BY <1>0, <1>1, <1>4 DEF Free

LEMMA EmittedTwice ==
  ASSUME NEW a, NEW b, NEW c, NEW n \in Nat, NEW m \in Nat, Emitted(a, b, n), Emitted(b, c, m)
  PROVE  Emitted(a, c, n + m)
<1> SUFFICES ASSUME c.lost = {}
             PROVE  a.lost = {} /\ Gathered(a.cap, c.cap) /\ Takes(a.cap, c.cap, n + m)
  BY DEF Emitted
<1>1. /\ b.lost = {} /\ a.lost = {} /\ Gathered(a.cap, b.cap) /\ Gathered(b.cap, c.cap)
      /\ Takes(a.cap, b.cap, n) /\ Takes(b.cap, c.cap, m)
  BY DEF Emitted
<1>2. Gathered(a.cap, c.cap)
  BY <1>1, Constants DEF Gathered
<1>3. ASSUME NEW t \in 1 .. MaxCaptured + 1, NEW k \in Nat, Free(a.cap, t, k + (n + m))
      PROVE  Free(c.cap, t, k)
  <2>1. k + m \in Nat /\ k + (n + m) = (k + m) + n
    OBVIOUS
  <2>2. Free(a.cap, t, (k + m) + n)
    BY <1>3, <2>1
  <2>3. Free(b.cap, t, k + m)
    BY <1>1, <2>1, <2>2 DEF Takes
  <2> QED
    BY <1>1, <2>3 DEF Takes
<1> QED
  BY <1>1, <1>2, <1>3 DEF Takes

\* Taking less is taking n at most.
LEMMA TakesLess ==
  ASSUME NEW a, NEW b, NEW n \in Nat, NEW m \in Nat, n <= m, Emitted(a, b, n)
  PROVE  Emitted(a, b, m)
<1> SUFFICES ASSUME b.lost = {}, NEW t \in 1 .. MaxCaptured + 1, NEW k \in Nat, Free(a.cap, t, k + m)
             PROVE  Free(b.cap, t, k)
  BY DEF Emitted, Takes
<1>1. Free(a.cap, t, k + n)
  BY Constants DEF Free
<1> QED
  BY <1>1 DEF Emitted, Takes

LEMMA EmitsNothing ==
  ASSUME NEW io, IOOK(io), NEW new, IOOK(new), new.cap = io.cap, new.lost = io.lost
  PROVE  Emitted(io, new, 0)
<1>1. Gathered(io.cap, new.cap)
  BY DEF Gathered
<1>2. \A k \in Nat : k + 0 = k
  OBVIOUS
<1>3. Takes(io.cap, new.cap, 0)
  BY <1>2 DEF Takes
<1> QED
  BY <1>1, <1>3 DEF Emitted

\* Nothing is captured for u.
Passes(u) == u = 0 \/ (Cfg(u).holdWhileUndecided /\ held[u].status = "UNDECIDED")
SameEvents(io, new) == new.cap = io.cap /\ new.lost = io.lost

\* The part of the keycode listener
LEMMA Emits ==
  ASSUME NEW io, IOOK(io), NEW u, NEW code \in Codes, NEW state \in BOOLEAN, NEW ts \in Nat
  PROVE  /\ Emitted(io, Emit(io, u, code, state, ts), 1)
         /\ Passes(u) => SameEvents(io, Emit(io, u, code, state, ts))
<1> DEFINE typing == state /\ Kind[code] = "key" /\ ts > io.last.ts
           io1 == IF typing THEN [io EXCEPT !.last = [pos |-> NoPos, ts |-> ts]] ELSE io
           caught == u # 0 /\ Kind[code] = "mod" /\ ~(Cfg(u).holdWhileUndecided /\ held[u].status = "UNDECIDED")
           ev == [t |-> "code", key |-> code, state |-> state, ts |-> ts]
           new == Emit(io, u, code, state, ts)
<1>1. new = IF caught THEN Capture(io1, ev)
            ELSE [io1 EXCEPT !.out[code] = @ + (IF state THEN 1 ELSE -1)]
  BY DEF Emit
<1>2. EventOK(ev)
  BY DEF EventOK, Event
<1>3. IOOK(io1) /\ io1.cap = io.cap /\ io1.lost = io.lost
  BY DEF IOOK, IOs
<1> HIDE DEF io1
<1>4. CASE caught
  <2>1. new = Capture(io1, ev)
    BY <1>1, <1>4
  <2> HIDE DEF new, ev, caught
  <2>2. Emitted(io, new, 1)
    <3>1. IOOK(new) /\ (new.lost = {} => io1.lost = {})
      BY <1>2, <1>3, <2>1, Captures
    <3>2. ASSUME new.lost = {}
          PROVE  Gathered(io1.cap, new.cap) /\ Takes(io1.cap, new.cap, 1)
      <4>1. PICK f \in Cells : /\ io1.cap[f] = NoEvent /\ \A i \in Cells : i < f => io1.cap[i] # NoEvent
                               /\ new.cap = [io1.cap EXCEPT ![f] = ev]
        BY <1>2, <1>3, <2>1, <3>2, Captures
      <4>2. io1.cap \in [Cells -> Event]
        BY <1>3 DEF IOOK, IOs
      <4>3. ev.t = "code"
        BY DEF ev
      <4>4. Gathered(io1.cap, new.cap)
        BY <4>1, <4>2, <4>3, Constants DEF Gathered
      <4> QED
        BY <4>1, <4>2, <4>4, CaptureTakes
    <3> QED
      BY <1>3, <3>1, <3>2 DEF Emitted
  <2> QED
    BY <1>4, <2>2 DEF caught, new, Passes
<1>5. CASE ~caught
  <2>1. new = [io1 EXCEPT !.out[code] = @ + (IF state THEN 1 ELSE -1)]
    BY <1>1, <1>5
  <2>2. IOOK(new) /\ new.cap = io.cap /\ new.lost = io.lost
    BY <1>3, <2>1 DEF IOOK, IOs
  <2> HIDE DEF new, caught
  <2>3. Emitted(io, new, 1)
    BY <2>2, EmitsNothing, TakesLess
  <2> QED
    BY <2>2, <2>3 DEF new, SameEvents
<1> QED
  BY <1>4, <1>5

LEMMA PassesNone == Passes(0)
BY DEF Passes

LEMMA EmittedOK == \A a, b, n : Emitted(a, b, n) => IOOK(b)
BY DEF Emitted

LEMMA EmitsPress ==
  ASSUME NEW io, IOOK(io), NEW u, NEW code \in Codes, NEW ts \in Nat
  PROVE  /\ Emitted(io, Emit(io, u, code, TRUE, ts), 1)
         /\ Passes(u) => SameEvents(io, Emit(io, u, code, TRUE, ts))
<1>1. PICK state \in BOOLEAN : state = TRUE
  OBVIOUS
<1>2. /\ Emitted(io, Emit(io, u, code, state, ts), 1)
      /\ Passes(u) => SameEvents(io, Emit(io, u, code, state, ts))
  BY Emits, Zenon
<1> QED
  BY <1>1, <1>2, Zenon

LEMMA EmitsRelease ==
  ASSUME NEW io, IOOK(io), NEW u, NEW code \in Codes, NEW ts \in Nat
  PROVE  /\ Emitted(io, Emit(io, u, code, FALSE, ts), 1)
         /\ Passes(u) => SameEvents(io, Emit(io, u, code, FALSE, ts))
<1>1. PICK state \in BOOLEAN : state = FALSE
  OBVIOUS
<1>2. /\ Emitted(io, Emit(io, u, code, state, ts), 1)
      /\ Passes(u) => SameEvents(io, Emit(io, u, code, state, ts))
  BY Emits, Zenon
<1> QED
  BY <1>1, <1>2, Zenon
-----------------------------------------------------------------------------
(* Pressing and releasing the bindings of a slot *)

LEMMA IOIs ==
  ASSUME Types
  PROVE  IOOK(IO) /\ IO.cap = captured /\ IO.lost = lost
BY DEF Types, TypeOK, CapturedOK, IO, IOOK, IOs

LEMMA SlotIs ==
  ASSUME TypeOK, NEW s \in Slots
  PROVE  /\ Used(s) => held[s].pos \in HoldTaps
         /\ held[s].ts \in Nat /\ held[s].status \in Statuses
         /\ held[s].pos \in HoldTaps \cup {NoPos} /\ held[s].cancelled \in BOOLEAN
BY DEF TypeOK, Used

\* What is in a slot is configured, and all of its options are of their types.
LEMMA CfgIs ==
  ASSUME TypeOK, NEW s \in Slots, Used(s)
  PROVE  Cfg(s) \in HoldTapConfig /\ config \in Configs /\ held[s].pos \in HoldTaps
BY SlotIs, ConstantsAssumption DEF TypeOK, Cfg

LEMMA KeepsLast ==
  ASSUME NEW io, IOOK(io), NEW p \in HoldTaps, NEW ts \in Nat
  PROVE  /\ IOOK([io EXCEPT !.last = [pos |-> p, ts |-> ts]])
         /\ [io EXCEPT !.last = [pos |-> p, ts |-> ts]].cap = io.cap
         /\ [io EXCEPT !.last = [pos |-> p, ts |-> ts]].lost = io.lost
BY DEF IOOK, IOs

\* press_binding for another key: at most one keycode
LEMMA PressesInterrupt ==
  ASSUME TypeOK, NEW s \in Slots, Used(s), NEW io, IOOK(io), NEW u
  PROVE  LET new == PressBinding(io, u, s, "HOLD_INTERRUPT")
         IN Emitted(io, new, 1) /\ (u = 0 => SameEvents(io, new))
<1> DEFINE new == PressBinding(io, u, s, "HOLD_INTERRUPT")
<1>1. held[s].pos \in HoldTaps /\ held[s].ts \in Nat /\ Hold(held[s].pos) \in Codes
  BY SlotIs, CodesAre
<1>2. new = io \/ new = Emit(io, u, Hold(held[s].pos), TRUE, held[s].ts)
  BY DEF PressBinding, IsHold
<1> HIDE DEF new
<1>3. ASSUME new = io
      PROVE  Emitted(io, new, 1)
  <2>1. Emitted(io, new, 0)
    BY <1>3, EmitsNothing
  <2> QED
    BY <2>1, TakesLess
<1>4. Emitted(io, new, 1)
  BY <1>1, <1>2, <1>3, PassesNone, EmitsPress
<1>5. u = 0 => SameEvents(io, new)
  <2>1. SameEvents(io, io)
    BY DEF SameEvents
  <2> QED
    BY <1>1, <1>2, <2>1, PassesNone, EmitsPress
<1> QED
  BY <1>4, <1>5 DEF new

\* press_binding for retro-tap, where holding is not done while undecided
LEMMA PressesTap ==
  ASSUME TypeOK, NEW s \in Slots, Used(s), NEW io, IOOK(io), NEW u, ~Cfg(s).holdWhileUndecided
  PROVE  LET new == PressBinding(io, u, s, "TAP")
         IN Emitted(io, new, 1) /\ (u = 0 => SameEvents(io, new))
<1> DEFINE new == PressBinding(io, u, s, "TAP")
           last == [io EXCEPT !.last = [pos |-> held[s].pos, ts |-> held[s].ts]]
<1>1. held[s].pos \in HoldTaps /\ held[s].ts \in Nat /\ Tap(held[s].pos) \in Codes
  BY SlotIs, CodesAre
<1>2. new = Emit(last, u, Tap(held[s].pos), TRUE, held[s].ts)
  BY DEF PressBinding, IsHold, Silent
<1>3. IOOK(last) /\ last.cap = io.cap /\ last.lost = io.lost
  BY <1>1, KeepsLast
<1> HIDE DEF last
<1>4. Emitted(last, new, 1) /\ (u = 0 => SameEvents(last, new))
  BY <1>1, <1>2, <1>3, PassesNone, EmitsPress
<1> HIDE DEF new
<1>5. Emitted(io, new, 1)
  BY <1>3, <1>4 DEF Emitted
<1> QED
  BY <1>3, <1>4, <1>5 DEF new, SameEvents

\* press_binding at the decision: no hold-tap is undecided any more, nothing is captured
LEMMA PressesDecided ==
  ASSUME TypeOK, NEW s \in Slots, Used(s), NEW io, IOOK(io), NEW status
  PROVE  LET new == PressBinding(io, 0, s, status)
         IN IOOK(new) /\ SameEvents(io, new)
<1> DEFINE p == held[s].pos
           ts == held[s].ts
           unheld == IF Cfg(s).holdWhileUndecided /\ ~Cfg(s).linger
                     THEN Emit(io, 0, Hold(p), FALSE, ts) ELSE io
           last == [unheld EXCEPT !.last = [pos |-> p, ts |-> ts]]
           new == PressBinding(io, 0, s, status)
<1>1. p \in HoldTaps /\ ts \in Nat /\ Tap(p) \in Codes /\ Hold(p) \in Codes
  BY SlotIs, CodesAre
<1>2. \/ new = io
      \/ new = Emit(io, 0, Hold(p), TRUE, ts)
      \/ new = Emit(last, 0, Tap(p), TRUE, ts)
  BY DEF PressBinding
<1> HIDE DEF p, ts
<1>3. IOOK(unheld) /\ unheld.cap = io.cap /\ unheld.lost = io.lost
  <2>1. IOOK(Emit(io, 0, Hold(p), FALSE, ts)) /\ SameEvents(io, Emit(io, 0, Hold(p), FALSE, ts))
    BY <1>1, PassesNone, EmitsRelease, EmittedOK
  <2> QED
    BY <2>1 DEF SameEvents
<1> HIDE DEF unheld
<1>4. IOOK(last) /\ last.cap = io.cap /\ last.lost = io.lost
  BY <1>1, <1>3, KeepsLast
<1> HIDE DEF last, new
<1>5. IOOK(new) /\ SameEvents(io, new)
  <2>1. SameEvents(io, io)
    BY DEF SameEvents
  <2>2. \/ new = io
        \/ IOOK(new) /\ SameEvents(io, new)
        \/ IOOK(new) /\ SameEvents(last, new)
    BY <1>1, <1>2, <1>4, PassesNone, EmitsPress, EmittedOK
  <2> QED
    BY <1>4, <2>1, <2>2 DEF SameEvents
<1> QED
  BY <1>5 DEF new

\* release_binding
LEMMA Releases ==
  ASSUME TypeOK, NEW s \in Slots, Used(s), NEW io, IOOK(io), NEW u, NEW status
  PROVE  LET new == ReleaseBinding(io, u, s, status)
         IN Emitted(io, new, 1) /\ (u = 0 => SameEvents(io, new))
<1> DEFINE new == ReleaseBinding(io, u, s, status)
           code == IF IsHold(status) THEN Hold(held[s].pos) ELSE Tap(held[s].pos)
<1>1. held[s].ts \in Nat /\ code \in Codes
  BY SlotIs, CodesAre
<1>2. new = io \/ new = Emit(io, u, code, FALSE, held[s].ts)
  BY DEF ReleaseBinding
<1> HIDE DEF new, code
<1>3. ASSUME new = io
      PROVE  Emitted(io, new, 1)
  <2>1. Emitted(io, new, 0)
    BY <1>3, EmitsNothing
  <2> QED
    BY <2>1, TakesLess
<1>4. Emitted(io, new, 1)
  BY <1>1, <1>2, <1>3, PassesNone, EmitsRelease
<1>5. u = 0 => SameEvents(io, new)
  <2>1. SameEvents(io, io)
    BY DEF SameEvents
  <2> QED
    BY <1>1, <1>2, <2>1, PassesNone, EmitsRelease
<1> QED
  BY <1>4, <1>5 DEF new

\* The silent hold-taps are ended in slot order, from the first call's state on.
RetroPresses(io, p) ==
  /\ io[0] = IO /\ PressRetro(p) = io[MaxHeld]
  /\ \A s \in 1 .. MaxHeld :
       io[s] = IF s \in RetroSlots(p)
               THEN PressBinding(io[s - 1], undecided, s, "HOLD_INTERRUPT") ELSE io[s - 1]

LEMMA PressRetroIs ==
  ASSUME NEW p
  PROVE  \E io : RetroPresses(io, p)
<1> DEFINE I == IO
           step(x, s) == IF s \in RetroSlots(p) THEN PressBinding(x, undecided, s, "HOLD_INTERRUPT") ELSE x
           is(f, n) == f = [s \in 0 .. n |-> IF s = 0 THEN I ELSE step(f[s - 1], s)]
           io == CHOOSE f : is(f, MaxHeld)
<1>1. PressRetro(p) = io[MaxHeld]
  BY DEF PressRetro
<1>2. MaxHeld \in Nat
  BY Constants
<1> HIDE DEF step, I, io
<1>4. \A n \in 0 .. MaxHeld : \E f : is(f, n)
  <2> DEFINE T == {n \in 0 .. MaxHeld : ~\E f : is(f, n)}
  <2> SUFFICES ASSUME T # {}
               PROVE  FALSE
    OBVIOUS
  <2>1. PICK n \in T : \A k \in T : n <= k
    <3>1. T \subseteq Nat
      OBVIOUS
    <3> HIDE DEF T
    <3> QED
      BY <3>1, Least
  <2>2. CASE n = 0
    <3> DEFINE g == [s \in 0 .. 0 |-> I]
    <3>1. is(g, 0)
      OBVIOUS
    <3> QED
      BY <2>1, <2>2, <3>1
  <2>3. CASE n # 0
    <3>1. n \in Nat /\ n - 1 \in 0 .. MaxHeld /\ n - 1 \notin T
      BY <1>2, <2>1, <2>3
    <3>2. PICK f : is(f, n - 1)
      BY <3>1
    <3> DEFINE g == [s \in 0 .. n |-> IF s = n THEN step(f[n - 1], n) ELSE f[s]]
    <3>3. \A s \in 0 .. n : g[s] = IF s = 0 THEN I ELSE step(g[s - 1], s)
      <4> TAKE s \in 0 .. n
      <4>1. CASE s = 0
        BY <2>3, <3>1, <3>2, <4>1
      <4>2. CASE s = n
        <5>1. g[n] = step(f[n - 1], n) /\ g[n - 1] = f[n - 1]
          BY <2>3, <3>1
        <5> QED
          BY <2>3, <4>2, <5>1
      <4>3. CASE s # 0 /\ s # n
        <5>1. s \in 0 .. n - 1 /\ s - 1 \in 0 .. n - 1 /\ s - 1 # n
          BY <3>1, <4>3
        <5>2. g[s] = f[s] /\ g[s - 1] = f[s - 1]
          BY <3>1, <4>3, <5>1
        <5>3. f[s] = step(f[s - 1], s)
          BY <3>2, <4>3, <5>1
        <5> QED
          BY <4>3, <5>2, <5>3
      <4> QED
        BY <4>1, <4>2, <4>3
    <3> HIDE DEF g
    <3>4. is(g, n)
      BY <3>3 DEF g
    <3> QED
      BY <2>1, <3>4
  <2> QED
    BY <2>2, <2>3
<1>5. is(io, MaxHeld)
  <2>1. \E f : is(f, MaxHeld)
    BY <1>2, <1>4
  <2> HIDE DEF is
  <2> QED
    BY <2>1, Zenon DEF io
<1>6. io[0] = I /\ \A s \in 1 .. MaxHeld : io[s] = step(io[s - 1], s)
  BY <1>2, <1>5
<1> QED
  BY <1>1, <1>6 DEF step, I, RetroPresses

\* update_hold_status_for_retro_tap: at most one keycode for each silent hold-tap it ends
LEMMA RetroEmits ==
  ASSUME Types, NEW p
  PROVE  /\ Emitted(IO, PressRetro(p), Cardinality(RetroSlots(p)))
         /\ undecided = 0 => SameEvents(IO, PressRetro(p))
<1> DEFINE R == RetroSlots(p)
           u == undecided
           I == IO
<1>1. PICK io : RetroPresses(io, p)
  BY PressRetroIs
<1>2. MaxHeld \in Nat /\ R \subseteq Slots /\ \A s \in R : Used(s)
  BY Constants DEF RetroSlots, Used
<1>3. IOOK(I) /\ TypeOK
  BY IOIs DEF Types
<1>4. io[0] = I /\ PressRetro(p) = io[MaxHeld]
  BY <1>1 DEF RetroPresses
<1>5. \A s \in 1 .. MaxHeld :
        io[s] = IF s \in R THEN PressBinding(io[s - 1], u, s, "HOLD_INTERRUPT") ELSE io[s - 1]
  BY <1>1 DEF RetroPresses
<1> HIDE DEF R, u, I
<1> DEFINE upto(n) == R \cap 1 .. n
           ok(n) == /\ Emitted(I, io[n], Cardinality(upto(n)))
                    /\ u = 0 => SameEvents(I, io[n])
<1>7. \A n \in 0 .. MaxHeld : ok(n)
  <2> DEFINE T == {n \in 0 .. MaxHeld : ~ok(n)}
  <2> SUFFICES ASSUME T # {}
               PROVE  FALSE
    OBVIOUS
  <2>1. PICK n \in T : \A k \in T : n <= k
    <3>1. T \subseteq Nat
      OBVIOUS
    <3> HIDE DEF T
    <3> QED
      BY <3>1, Least
  <2>0. SameEvents(I, I) /\ Emitted(I, I, 0)
    BY <1>3, EmitsNothing DEF SameEvents
  <2>2. CASE n = 0
    <3>1. upto(0) = {}
      OBVIOUS
    <3>2. Cardinality(upto(0)) = 0
      BY <3>1, FS_EmptySet
    <3> QED
      BY <1>4, <2>0, <2>1, <2>2, <3>2
  <2>3. CASE n # 0
    <3>1. n \in Nat /\ n - 1 \in 0 .. MaxHeld /\ n - 1 \notin T /\ n \in 1 .. MaxHeld
      BY <1>2, <2>1, <2>3
    <3>2. ok(n - 1) /\ io[n] = IF n \in R THEN PressBinding(io[n - 1], u, n, "HOLD_INTERRUPT") ELSE io[n - 1]
      BY <1>5, <3>1
    <3>3. IsFiniteSet(upto(n - 1)) /\ Cardinality(upto(n - 1)) \in Nat
      <4>1. IsFiniteSet(1 .. n - 1)
        BY <3>1, FS_Interval
      <4> QED
        BY <4>1, FS_Subset, FS_CardinalityType
    <3>4. CASE n \notin R
      <4>1. upto(n) = upto(n - 1) /\ io[n] = io[n - 1]
        BY <3>1, <3>2, <3>4
      <4> QED
        BY <2>1, <3>2, <4>1
    <3>5. CASE n \in R
      <4>1. upto(n) = upto(n - 1) \cup {n} /\ n \notin upto(n - 1)
        BY <3>1, <3>5
      <4>2. Cardinality(upto(n)) = Cardinality(upto(n - 1)) + 1
        BY <3>3, <4>1, FS_AddElement
      <4> DEFINE a == io[n - 1]
                 b == io[n]
                 m == Cardinality(upto(n - 1))
      <4>3. b = PressBinding(a, u, n, "HOLD_INTERRUPT")
        BY <3>2, <3>5
      <4>4. Emitted(I, a, m) /\ IOOK(a) /\ (u = 0 => SameEvents(I, a)) /\ m \in Nat
        BY <3>2, <3>3, EmittedOK
      <4>5. n \in Slots /\ Used(n)
        BY <1>2, <3>5
      <4> HIDE DEF a, b, m
      <4>6. Emitted(a, b, 1) /\ (u = 0 => SameEvents(a, b))
        BY <1>3, <4>3, <4>4, <4>5, PressesInterrupt
      <4>7. Emitted(I, b, m + 1)
        BY <4>4, <4>6, EmittedTwice
      <4>8. u = 0 => SameEvents(I, b)
        BY <4>4, <4>6 DEF SameEvents
      <4>9. ok(n)
        BY <4>2, <4>7, <4>8 DEF b, m
      <4> QED
        BY <2>1, <4>9
    <3> QED
      BY <3>4, <3>5
  <2> QED
    BY <2>2, <2>3
<1>8. upto(MaxHeld) = R
  BY <1>2 DEF Slots
<1> HIDE DEF upto
<1>9. ok(MaxHeld)
  BY <1>2, <1>7
<1> QED
  BY <1>4, <1>8, <1>9 DEF R, u, I
-----------------------------------------------------------------------------
(* The innermost call *)

LEMMA Top ==
  ASSUME Types, NEW op, Running(op)
  PROVE  /\ stack \in Seq(Frames) /\ stack # <<>> /\ Height \in Levels /\ Height \in Nat
         /\ Fr(Height) = Head(stack) /\ Fr(Height).op = op /\ FrameShape(Height)
<1>1. stack \in Seq(Frames) /\ stack # <<>> /\ Head(stack).op = op
  BY DEF Types, TypeOK, Frames, Running
<1> QED
  BY <1>1, StackFrames DEF Types, Shape

LEMMA FrameTypes ==
  ASSUME Types
  PROVE  /\ Height \in Nat /\ \A d \in Levels : Fr(d) \in Frames /\ FrameShape(d) /\ d \in Nat
         /\ stack \in Seq(Frames)
<1>1. stack \in Seq(Frames)
  BY DEF Types, TypeOK, Frames
<1> QED
  BY <1>1, StackFrames DEF Types, Shape, Levels

LEMMA ReleaseCells ==
  ASSUME Types, NEW d, IsRelease(d)
  PROVE  d \in Levels /\ d \in Nat /\ Fr(d).s \in 1 .. MaxCaptured + 1 /\ Fr(d).s \in Nat
BY FrameTypes, Constants DEF IsRelease, FrameShape

\* Where the replay that an event came from is at
LEMMA PlaceIs ==
  ASSUME Types, Rising, Gap, NEW n \in Levels, n = Height, OnRelease(n), Fr(n).op # "release"
  PROVE  /\ Place(n) \in 1 .. MaxCaptured + 1
         /\ n = 1 => Place(n) = MaxCaptured + 1 /\ \A d : ~IsRelease(d)
         /\ n > 1 => /\ IsRelease(n - 1) /\ Place(n) = Fr(n - 1).s - 1 /\ Place(n) \in Cells
                     /\ ~Full(Place(n))
         /\ \A d : IsRelease(d) => d <= n - 1 /\ Place(n) < Fr(d).s
         /\ \A i \in Cells : Low(i) <=> i <= Place(n)
<1>1. n \in Nat /\ n >= 1 /\ MaxCaptured \in Nat /\ Cells = 1 .. MaxCaptured
  BY FrameTypes, Constants DEF Levels, Cells
<1>2. \A d : IsRelease(d) => d \in Levels /\ d \in Nat /\ d <= n - 1
  BY <1>1, ReleaseCells DEF IsRelease, Levels
<1>3. CASE n = 1
  <2>1. Place(n) = MaxCaptured + 1 /\ \A d : ~IsRelease(d)
    BY <1>1, <1>2, <1>3, ReleaseCells DEF Place, Levels
  <2> QED
    BY <1>1, <1>3, <2>1 DEF Low
<1>4. CASE n # 1
  <2>1. IsRelease(n - 1) /\ Place(n) = Fr(n - 1).s - 1 /\ n - 1 < Height
    BY <1>1, <1>4 DEF OnRelease, Place
  <2>2. Fr(n - 1).s >= 2 /\ ~Full(Fr(n - 1).s - 1) /\ Fr(n - 1).s \in 1 .. MaxCaptured + 1
        /\ n - 1 \in Levels
    BY <2>1, ReleaseCells DEF Gap
  <2>3. ASSUME NEW d, IsRelease(d)
        PROVE  Place(n) < Fr(d).s /\ Fr(n - 1).s <= Fr(d).s
    <3>1. d = n - 1 \/ d < n - 1
      BY <1>1, <1>2, <2>3
    <3>2. d < n - 1 => Fr(n - 1).s < Fr(d).s
      BY <1>2, <2>1, <2>2, <2>3 DEF Rising
    <3>3. Fr(d).s \in Nat /\ Fr(n - 1).s \in Nat
      BY <2>1, <2>3, ReleaseCells
    <3> QED
      BY <2>1, <3>1, <3>2, <3>3
  <2>4. ASSUME NEW i \in Cells
        PROVE  Low(i) <=> i <= Place(n)
    <3>1. i \in Nat /\ Fr(n - 1).s \in Nat /\ (i <= Place(n) <=> i < Fr(n - 1).s)
      BY <1>1, <2>1, <2>2
    <3>2. Low(i) => i < Fr(n - 1).s
      BY <2>1, <2>2 DEF Low
    <3>3. i < Fr(n - 1).s => Low(i)
      <4> SUFFICES ASSUME i < Fr(n - 1).s, NEW d \in Levels, IsRelease(d)
                   PROVE  i < Fr(d).s
        BY DEF Low
      <4>1. Fr(n - 1).s <= Fr(d).s /\ Fr(d).s \in Nat
        BY <2>3, ReleaseCells
      <4> QED
        BY <3>1, <4>1
    <3> QED
      BY <3>1, <3>2, <3>3
  <2>5. Place(n) \in 1 .. MaxCaptured
    BY <1>1, <2>1, <2>2
  <2> QED
    BY <1>1, <1>2, <1>4, <2>1, <2>2, <2>3, <2>4, <2>5
<1> QED
  BY <1>3, <1>4

\* What is deeper was replayed from an earlier cell.
LEMMA PlacesRise ==
  ASSUME Types, Rising, Gap, NEW n \in Levels, n = Height, OnRelease(n), Fr(n).op # "release",
         NEW d \in Levels, d < n, OnRelease(d)
  PROVE  Place(n) < Place(d) /\ Place(d) \in 1 .. MaxCaptured + 1
<1>1. n \in Nat /\ d \in Nat /\ d >= 1 /\ n > 1 /\ MaxCaptured \in Nat
  BY FrameTypes, Constants DEF Levels
<1>2. IsRelease(n - 1) /\ Place(n) = Fr(n - 1).s - 1 /\ Place(n) \in Cells
  BY <1>1, PlaceIs
<1>3. CASE d = 1
  BY <1>1, <1>2, <1>3 DEF Place, Cells
<1>4. CASE d # 1
  <2>1. IsRelease(d - 1) /\ Place(d) = Fr(d - 1).s - 1 /\ d - 1 < n - 1 /\ d - 1 < Height
    BY <1>1, <1>4 DEF OnRelease, Place
  <2>2. Fr(n - 1).s < Fr(d - 1).s
    BY <1>2, <2>1 DEF Rising, IsRelease
  <2>3. Fr(d - 1).s \in 1 .. MaxCaptured + 1 /\ Fr(n - 1).s \in Nat
    BY <1>2, <2>1, ReleaseCells
  <2>4. Fr(d - 1).s >= 2
    BY <2>1 DEF Gap, IsRelease
  <2> QED
    BY <1>1, <1>2, <2>1, <2>2, <2>3, <2>4
<1> QED
  BY <1>3, <1>4
-----------------------------------------------------------------------------
(* The events under way *)

Placed(K) == [at : 1 .. MaxCaptured + 1, key : K, state : BOOLEAN]

LEMMA EventFrameIs ==
  ASSUME Types, NEW d \in EventFrames
  PROVE  /\ d \in Levels /\ OnRelease(d) /\ Fr(d).ev \in Event /\ Fr(d).ev.key \in Positions
         /\ Fr(d).ev.state \in BOOLEAN /\ Fr(d).ev.t = "pos" /\ Fr(d).op \in EventOps
         /\ Fr(d).op # "release"
<1>1. d \in Levels /\ Fr(d).op \in EventOps /\ Fr(d).ev.t = "pos"
  BY DEF EventFrames
<1>2. OnRelease(d) /\ EventOK(Fr(d).ev)
  BY <1>1, FrameTypes DEF FrameShape
<1> QED
  BY <1>1, <1>2 DEF EventOK, Event, EventOps

LEMMA EventCellIs ==
  ASSUME Types, NEW i \in EventCells
  PROVE  /\ i \in Cells /\ i \in Nat /\ Full(i) /\ captured[i].key \in Positions
         /\ captured[i].state \in BOOLEAN /\ i \in 1 .. MaxCaptured + 1
<1>1. i \in Cells /\ captured[i].t = "pos" /\ MaxCaptured \in Nat
  BY Constants DEF EventCells
<1>2. Full(i)
  BY <1>1 DEF Full, NoEvent
<1>3. EventOK(captured[i])
  BY <1>1, <1>2 DEF Types, CapturedOK, Full
<1> QED
  BY <1>1, <1>2, <1>3 DEF EventOK, Event, Cells

\* An event in progress is before those of outer calls, after those in earlier cells.
LEMMA ItemsAround ==
  ASSUME Types, Rising, Gap, NEW n \in EventFrames, n = Height, NEW x \in Items
  PROVE  /\ x \in Placed(Positions)
         /\ x.at = Place(n) => x = Item(Place(n), Fr(n).ev)
         /\ x.at < Place(n) => \E i \in EventCells : Low(i) /\ x = Item(i, captured[i])
<1>1. n \in Levels /\ OnRelease(n) /\ Fr(n).op # "release"
  BY EventFrameIs
<1>2. Place(n) \in 1 .. MaxCaptured + 1
  BY <1>1, PlaceIs
<1>3. CASE \E i \in EventCells : x = Item(i, captured[i])
  <2>1. PICK i \in EventCells : x = Item(i, captured[i])
    BY <1>3
  <2>2. i \in Cells /\ Full(i) /\ x \in Placed(Positions) /\ x.at = i /\ i \in Nat
    BY <2>1, EventCellIs DEF Item, Placed
  <2>3. (n > 1 => ~Full(Place(n))) /\ (n = 1 => Place(n) = MaxCaptured + 1)
        /\ (Low(i) <=> i <= Place(n))
    BY <1>1, <2>2, PlaceIs
  <2>4. i # Place(n)
    <3>1. MaxCaptured \in Nat /\ n \in Nat /\ n >= 1
      BY FrameTypes, <1>1, Constants DEF Levels
    <3> QED
      BY <2>2, <2>3, <3>1 DEF Cells
  <2>5. i < Place(n) => Low(i)
    BY <1>2, <2>2, <2>3
  <2> QED
    BY <2>1, <2>2, <2>4, <2>5
<1>4. CASE \E d \in EventFrames : x = Item(Place(d), Fr(d).ev)
  <2>1. PICK d \in EventFrames : x = Item(Place(d), Fr(d).ev)
    BY <1>4
  <2>2. d \in Levels /\ OnRelease(d) /\ Fr(d).ev.key \in Positions /\ Fr(d).ev.state \in BOOLEAN
        /\ x.at = Place(d)
    BY <2>1, EventFrameIs DEF Item
  <2>3. CASE d = n
    <3>1. x = Item(Place(n), Fr(n).ev)
      BY <2>1, <2>3
    <3>2. x \in Placed(Positions) /\ x.at = Place(n)
      BY <1>2, <2>2, <2>3, <3>1 DEF Item, Placed
    <3> QED
      BY <1>2, <3>1, <3>2
  <2>4. CASE d # n
    <3>1. d < n
      BY <1>1, <2>2, <2>4, FrameTypes DEF Levels
    <3>2. Place(n) < Place(d) /\ Place(d) \in 1 .. MaxCaptured + 1
      BY <1>1, <2>2, <3>1, PlacesRise
    <3>3. x \in Placed(Positions)
      BY <2>1, <2>2, <3>2 DEF Item, Placed
    <3> QED
      BY <1>2, <2>2, <3>2, <3>3
  <2> QED
    BY <2>3, <2>4
<1> QED
  BY <1>3, <1>4 DEF Items
-----------------------------------------------------------------------------
(* What happens to the events under way: one moves before others without passing any, *)
(* the first of a position is handled, a new one follows all                          *)

LEMMA ItemIs ==
  ASSUME NEW K, NEW x \in Placed(K)
  PROVE  x.at \in Nat /\ x.at >= 1 /\ x.at \in 1 .. MaxCaptured + 1 /\ x.key \in K
         /\ x.state \in BOOLEAN /\ x = [at |-> x.at, key |-> x.key, state |-> x.state]
BY Constants DEF Placed

\* f renames the places of L to those of M in the same order.
Renames(f, L, M) ==
  /\ f \in [L -> M] /\ \A y \in M : \E x \in L : y = f[x]
  /\ \A x \in L : f[x].key = x.key /\ f[x].state = x.state
  /\ \A x, y \in L : x.at <= y.at <=> f[x].at <= f[y].at
  /\ \A x, y \in L : x.at < y.at <=> f[x].at < f[y].at

LEMMA RenamedAlternates ==
  ASSUME NEW K, NEW L, NEW M, NEW f, Renames(f, L, M), NEW sn, NEW dn, Alternates(K, L, sn, dn)
  PROVE  Alternates(K, M, sn, dn)
<1>1. ASSUME NEW x \in L
      PROVE  (FirstOf(M, f[x]) => FirstOf(L, x)) /\ (LastOf(M, f[x]) => LastOf(L, x))
  BY DEF Renames, FirstOf, LastOf
<1>2. ASSUME NEW x \in L, NEW y \in L, NextOf(M, f[x], f[y])
      PROVE  NextOf(L, x, y)
  BY <1>2 DEF Renames, NextOf
<1>3. ASSUME NEW y \in M
      PROVE  /\ FirstOf(M, y) => (y.state <=> y.key \notin sn)
             /\ LastOf(M, y) => (y.state <=> y.key \in dn)
  <2>1. PICK x \in L : y = f[x]
    BY DEF Renames
  <2>2. y.key = x.key /\ y.state = x.state
    BY <2>1 DEF Renames
  <2> QED
    BY <1>1, <2>1, <2>2 DEF Alternates
<1>4. ASSUME NEW y \in M, NEW z \in M, NextOf(M, y, z)
      PROVE  y.state <=> ~z.state
  <2>1. PICK a \in L : y = f[a]
    BY DEF Renames
  <2>2. PICK b \in L : z = f[b]
    BY DEF Renames
  <2>3. y.state = a.state /\ z.state = b.state
    BY <2>1, <2>2 DEF Renames
  <2>4. NextOf(L, a, b)
    BY <1>2, <1>4, <2>1, <2>2
  <2> QED
    BY <2>3, <2>4 DEF Alternates
<1>5. ASSUME NEW p \in K, \A y \in M : y.key # p
      PROVE  p \in sn <=> p \in dn
  <2>1. \A x \in L : x.key # p
    BY <1>5 DEF Renames
  <2> QED
    BY <2>1 DEF Alternates
<1> QED
  BY <1>3, <1>4, <1>5 DEF Alternates

\* x moves to place q, and passes none.
Moves(L, x, q) == (L \ {x}) \cup {[at |-> q, key |-> x.key, state |-> x.state]}
CanMove(L, x, q) ==
  /\ x \in L /\ q \in 1 .. MaxCaptured + 1 /\ q < x.at
  /\ \A y \in L : ~(q <= y.at /\ y.at < x.at)

LEMMA MoveRenames ==
  ASSUME NEW K, NEW L, L \subseteq Placed(K), OnePerPlace(L), NEW x, NEW q, CanMove(L, x, q)
  PROVE  /\ Moves(L, x, q) \subseteq Placed(K) /\ OnePerPlace(Moves(L, x, q))
         /\ \E f : Renames(f, L, Moves(L, x, q))
                   /\ \A y \in L : f[y] = IF y = x THEN [at |-> q, key |-> x.key, state |-> x.state] ELSE y
<1> DEFINE w == [at |-> q, key |-> x.key, state |-> x.state]
           M == Moves(L, x, q)
           f == [y \in L |-> IF y = x THEN w ELSE y]
<1>1. /\ x \in L /\ x \in Placed(K) /\ w \in Placed(K) /\ w.at = q /\ w.key = x.key /\ w.state = x.state
      /\ q \in Nat /\ x.at \in Nat /\ q < x.at
  BY ItemIs, Constants DEF CanMove, Placed
<1>2. M = (L \ {x}) \cup {w}
  BY DEF Moves
<1>3. M \subseteq Placed(K)
  BY <1>1, <1>2
<1>4. \A y \in L : y.at \in Nat /\ (y # x => y.at < q \/ y.at > x.at)
  <2> TAKE y \in L
  <2>1. y.at \in Nat /\ (y.at = x.at => y = x) /\ ~(q <= y.at /\ y.at < x.at)
    BY <1>1, ItemIs DEF OnePerPlace, CanMove
  <2> QED
    BY <1>1, <2>1
<1> HIDE DEF w, M
<1>5. OnePerPlace(M)
  BY <1>1, <1>2, <1>4 DEF OnePerPlace
<1>6. f \in [L -> M] /\ \A y \in M : \E z \in L : y = f[z]
  BY <1>1, <1>2
<1>7. \A y \in L : f[y] = IF y = x THEN w ELSE y
  OBVIOUS
<1> HIDE DEF f
<1>8. \A y \in L : f[y].key = y.key /\ f[y].state = y.state
  BY <1>1, <1>7
<1>9. \A y, z \in L : (y.at <= z.at <=> f[y].at <= f[z].at) /\ (y.at < z.at <=> f[y].at < f[z].at)
  <2> TAKE y, z \in L
  <2>1. y.at \in Nat /\ z.at \in Nat
    BY <1>4
  <2>2. CASE y = x /\ z = x
    BY <1>1, <1>7, <2>2
  <2>3. CASE y = x /\ z # x
    BY <1>1, <1>4, <1>7, <2>3
  <2>4. CASE y # x /\ z = x
    BY <1>1, <1>4, <1>7, <2>4
  <2>5. CASE y # x /\ z # x
    BY <1>7, <2>5
  <2> QED
    BY <2>2, <2>3, <2>4, <2>5
<1>10. Renames(f, L, M)
  BY <1>6, <1>8, <1>9 DEF Renames
<1> QED
  BY <1>3, <1>5, <1>7, <1>10 DEF M, w

LEMMA MovedOrdered ==
  ASSUME NEW L, L \subseteq Placed(Positions), OnePerPlace(L), NEW x, NEW q, CanMove(L, x, q),
         NEW list \in Seq(Positions), Ordered(L, list)
  PROVE  Ordered(Moves(L, x, q), list)
<1> DEFINE w == [at |-> q, key |-> x.key, state |-> x.state]
           M == Moves(L, x, q)
           K == 1 .. Len(list)
<1>1. PICK at \in [K -> 1 .. MaxCaptured + 1] :
        /\ \A j, k \in K : j < k => at[j] < at[k]
        /\ \A k \in K : Press(at[k], list[k]) \in L
        /\ \A y \in L : y.state => \E k \in K : y.at = at[k]
  BY DEF Ordered
<1>2. /\ x \in L /\ x \in Placed(Positions) /\ w.at = q /\ w.state = x.state
      /\ q \in 1 .. MaxCaptured + 1 /\ q < x.at /\ \A y \in L : ~(q <= y.at /\ y.at < x.at)
      /\ M = (L \ {x}) \cup {w} /\ \A y \in L : y.at \in Nat
  BY ItemIs DEF CanMove, Moves
<1> DEFINE to == [k \in K |-> IF at[k] = x.at THEN q ELSE at[k]]
<1>3. to \in [K -> 1 .. MaxCaptured + 1]
  BY <1>2
<1>4. \A k \in K : /\ to[k] = IF at[k] = x.at THEN q ELSE at[k]
                   /\ at[k] \in Nat /\ at[k] \in 1 .. MaxCaptured + 1
                   /\ Press(at[k], list[k]) \in L /\ Press(at[k], list[k]).at = at[k]
                   /\ Press(at[k], list[k]).state /\ Press(at[k], list[k]).key = list[k]
  BY <1>1, Constants DEF Press
<1>5. \A k \in K : at[k] = x.at => Press(to[k], list[k]) = w
  <2> SUFFICES ASSUME NEW k \in K, at[k] = x.at
               PROVE  Press(to[k], list[k]) = w
    OBVIOUS
  <2>1. Press(at[k], list[k]) = x
    BY <1>2, <1>4 DEF OnePerPlace
  <2>2. x.key = list[k] /\ x.state = TRUE /\ to[k] = q
    BY <1>4, <2>1 DEF Press
  <2> QED
    BY <2>2 DEF Press
<1>6. \A k \in K : at[k] # x.at => Press(to[k], list[k]) = Press(at[k], list[k])
                                   /\ Press(at[k], list[k]) # x
  BY <1>4
<1> HIDE DEF to, w, M
<1>7. \A k \in K : Press(to[k], list[k]) \in M
  BY <1>2, <1>4, <1>5, <1>6
<1>8. ASSUME NEW j \in K, NEW k \in K, j < k
      PROVE  to[j] < to[k]
  <2>1. at[j] < at[k] /\ at[j] \in Nat /\ at[k] \in Nat /\ q \in Nat /\ x.at \in Nat
    BY <1>1, <1>2, <1>4, <1>8, Constants
  <2>2. ~(q <= at[j] /\ at[j] < x.at)
    BY <1>2, <1>4
  <2> QED
    BY <1>2, <1>4, <2>1, <2>2
<1>9. ASSUME NEW y \in M, y.state
      PROVE  \E k \in K : y.at = to[k]
  <2>1. CASE y = w
    <3>1. x.state
      BY <1>2, <1>9, <2>1
    <3>2. PICK k \in K : x.at = at[k]
      BY <1>1, <1>2, <3>1
    <3> QED
      BY <1>2, <1>4, <2>1, <3>2
  <2>2. CASE y # w
    <3>1. y \in L /\ y # x
      BY <1>2, <2>2
    <3>2. PICK k \in K : y.at = at[k]
      BY <1>1, <1>9, <3>1
    <3>3. y.at # x.at
      BY <1>2, <3>1 DEF OnePerPlace
    <3> QED
      BY <1>4, <3>2, <3>3
  <2> QED
    BY <2>1, <2>2
<1> QED
  BY <1>3, <1>7, <1>8, <1>9 DEF Ordered, M

LEMMA MovedEven ==
  ASSUME NEW L, IsFiniteSet(L), L \subseteq Placed(Positions), OnePerPlace(L), NEW x, NEW q,
         CanMove(L, x, q), NEW sn, NEW dn, Even(L, sn, dn)
  PROVE  Even(Moves(L, x, q), sn, dn)
<1> SUFFICES ASSUME NEW p \in Positions
             PROVE  Cardinality(Of(Moves(L, x, q), p)) = Cardinality(Of(L, p))
  BY DEF Even
<1> DEFINE w == [at |-> q, key |-> x.key, state |-> x.state]
           M == Moves(L, x, q)
<1>1. x \in L /\ w.key = x.key /\ M = (L \ {x}) \cup {w} /\ w \notin L
  <2>1. w.at = q /\ x.at \in Nat /\ q \in Nat /\ q < x.at /\ x \in L
    BY ItemIs, Constants DEF CanMove
  <2>2. \A y \in L : y.at # q
    BY <2>1 DEF CanMove
  <2> QED
    BY <2>1, <2>2 DEF Moves
<1> HIDE DEF M, w
<1>2. CASE p # x.key
  <2>1. Of(M, p) = Of(L, p)
    BY <1>1, <1>2 DEF Of
  <2> QED
    BY <2>1 DEF M
<1>3. CASE p = x.key
  <2> DEFINE R == Of(L, p) \ {x}
  <2>1. IsFiniteSet(Of(L, p)) /\ x \in Of(L, p)
    BY <1>1, <1>3, FS_Subset DEF Of
  <2>2. IsFiniteSet(R) /\ Cardinality(R) = Cardinality(Of(L, p)) - 1 /\ Cardinality(Of(L, p)) \in Nat
    BY <2>1, FS_RemoveElement, FS_CardinalityType
  <2>3. Of(M, p) = R \cup {w} /\ w \notin R
    BY <1>1, <1>3 DEF Of
  <2>4. Cardinality(Of(M, p)) = Cardinality(R) + 1
    BY <2>2, <2>3, FS_AddElement
  <2> QED
    BY <2>2, <2>4 DEF M
<1> QED
  BY <1>2, <1>3

\* The keymap handles x: what it saw of x's position flips.
Handles(x, sn, sw) == sw = IF x.state THEN sn \cup {x.key} ELSE sn \ {x.key}

LEMMA HandledAlternates ==
  ASSUME NEW K, NEW L, L \subseteq Placed(K), OnePerPlace(L), NEW x \in L, FirstOf(L, x),
         NEW sn, NEW sw, NEW dn, Handles(x, sn, sw), Alternates(K, L, sn, dn)
  PROVE  Alternates(K, L \ {x}, sw, dn)
<1> DEFINE M == L \ {x}
<1>1. /\ \A y \in L : y.at \in Nat /\ y.key \in K /\ y.state \in BOOLEAN
      /\ \A y \in L : y.at = x.at => y = x
      /\ \A y \in L : y.key = x.key => x.at <= y.at
      /\ M \subseteq L /\ x \notin M /\ \A y \in L : y \in M \/ y = x
  BY ItemIs DEF OnePerPlace, FirstOf
<1>2. x.state <=> x.key \notin sn
  BY DEF Alternates
<1>3. \A p : p # x.key => (p \in sw <=> p \in sn)
  BY DEF Handles
<1>4. x.key \in sw <=> x.state
  BY DEF Handles
<1> HIDE DEF M
<1>5. ASSUME NEW y \in M, FirstOf(M, y)
      PROVE  y.state <=> y.key \notin sw
  <2>1. CASE y.key # x.key
    <3>1. FirstOf(L, y)
      BY <1>1, <1>5, <2>1 DEF FirstOf
    <3> QED
      BY <1>1, <1>3, <2>1, <3>1 DEF Alternates
  <2>2. CASE y.key = x.key
    <3>1. x.at < y.at
      BY <1>1, <2>2
    <3>2. NextOf(L, x, y)
      BY <1>1, <1>5, <2>2, <3>1 DEF FirstOf, NextOf
    <3>3. x.state <=> ~y.state
      BY <1>1, <3>2 DEF Alternates
    <3> QED
      BY <1>1, <1>4, <2>2, <3>3
  <2> QED
    BY <2>1, <2>2
<1>6. ASSUME NEW y \in M, LastOf(M, y)
      PROVE  y.state <=> y.key \in dn
  <2>1. LastOf(L, y)
    BY <1>1, <1>6 DEF LastOf
  <2> QED
    BY <1>1, <2>1 DEF Alternates
<1>7. ASSUME NEW y \in M, NEW z \in M, NextOf(M, y, z)
      PROVE  y.state <=> ~z.state
  <2>1. NextOf(L, y, z)
    BY <1>1, <1>7 DEF NextOf
  <2> QED
    BY <1>1, <2>1 DEF Alternates
<1>8. ASSUME NEW p \in K, \A y \in M : y.key # p
      PROVE  p \in sw <=> p \in dn
  <2>1. CASE p # x.key
    <3>1. \A y \in L : y.key # p
      BY <1>1, <1>8, <2>1
    <3> QED
      BY <1>3, <2>1, <3>1 DEF Alternates
  <2>2. CASE p = x.key
    <3>1. LastOf(L, x)
      BY <1>1, <1>8, <2>2 DEF LastOf
    <3>2. x.state <=> x.key \in dn
      BY <3>1 DEF Alternates
    <3> QED
      BY <1>4, <2>2, <3>2
  <2> QED
    BY <2>1, <2>2
<1> QED
  BY <1>5, <1>6, <1>7, <1>8 DEF Alternates, M

LEMMA HandledEven ==
  ASSUME NEW L, IsFiniteSet(L), L \subseteq Placed(Positions), NEW x \in L,
         NEW sn, NEW sw, NEW dn, Handles(x, sn, sw), x.state <=> x.key \notin sn, Even(L, sn, dn)
  PROVE  Even(L \ {x}, sw, dn)
<1> SUFFICES ASSUME NEW p \in Positions
             PROVE  (p \in dn <=> p \in sw) <=> Cardinality(Of(L \ {x}, p)) % 2 = 0
  BY DEF Even
<1>1. (p \in dn <=> p \in sn) <=> Cardinality(Of(L, p)) % 2 = 0
  BY DEF Even
<1>2. CASE p # x.key
  <2>1. Of(L \ {x}, p) = Of(L, p) /\ (p \in sw <=> p \in sn)
    BY <1>2 DEF Of, Handles
  <2> QED
    BY <1>1, <2>1
<1>3. CASE p = x.key
  <2>1. IsFiniteSet(Of(L, p)) /\ x \in Of(L, p) /\ Of(L \ {x}, p) = Of(L, p) \ {x}
    <3>1. Of(L, p) \subseteq L /\ x \in Of(L, p) /\ Of(L \ {x}, p) = Of(L, p) \ {x}
      BY <1>3 DEF Of
    <3> QED
      BY <3>1, FS_Subset
  <2>2. Cardinality(Of(L \ {x}, p)) = Cardinality(Of(L, p)) - 1 /\ Cardinality(Of(L, p)) \in Nat
    <3>1. PICK T : T = Of(L, p)
      OBVIOUS
    <3>2. Cardinality(T \ {x}) = Cardinality(T) - 1 /\ Cardinality(T) \in Nat
      BY <2>1, <3>1, FS_RemoveElement, FS_CardinalityType
    <3> QED
      BY <2>1, <3>1, <3>2
  <2>3. p \in sw <=> p \notin sn
    BY <1>3 DEF Handles
  <2>4. \A c \in Nat : (c - 1) % 2 = 0 <=> ~(c % 2 = 0)
    OBVIOUS
  <2> QED
    BY <1>1, <2>2, <2>3, <2>4
<1> QED
  BY <1>2, <1>3

LEMMA HandledRelease ==
  ASSUME NEW L, L \subseteq Placed(Positions), NEW x \in L, ~x.state,
         NEW list \in Seq(Positions), Ordered(L, list)
  PROVE  Ordered(L \ {x}, list)
<1>1. PICK at \in [1 .. Len(list) -> 1 .. MaxCaptured + 1] :
        /\ \A j, k \in 1 .. Len(list) : j < k => at[j] < at[k]
        /\ \A k \in 1 .. Len(list) : Press(at[k], list[k]) \in L
        /\ \A y \in L : y.state => \E k \in 1 .. Len(list) : y.at = at[k]
  BY DEF Ordered
<1>2. \A q, p : Press(q, p).state = TRUE
  BY DEF Press
<1>3. \A k \in 1 .. Len(list) : Press(at[k], list[k]) \in L \ {x}
  BY <1>1, <1>2
<1> QED
  BY <1>1, <1>3 DEF Ordered

\* A press that is handled before all others is the first one listed.
LEMMA HandledPress ==
  ASSUME NEW L, L \subseteq Placed(Positions), OnePerPlace(L), NEW x \in L, x.state,
         \A y \in L : x.at <= y.at, NEW list \in Seq(Positions), Ordered(L, list)
  PROVE  list # <<>> /\ Head(list) = x.key /\ Ordered(L \ {x}, Tail(list))
<1> DEFINE K == 1 .. Len(list)
<1>1. PICK at \in [K -> 1 .. MaxCaptured + 1] :
        /\ \A j, k \in K : j < k => at[j] < at[k]
        /\ \A k \in K : Press(at[k], list[k]) \in L
        /\ \A y \in L : y.state => \E k \in K : y.at = at[k]
  BY DEF Ordered
<1>2. PICK m \in K : x.at = at[m]
  BY <1>1
<1>3. Len(list) \in Nat /\ 1 \in K /\ list # <<>> /\ Len(list) >= 1
  BY <1>2, LenProperties
<1>4. \A k \in K : at[k] \in Nat /\ Press(at[k], list[k]).at = at[k] /\ Press(at[k], list[k]).key = list[k]
                   /\ Press(at[k], list[k]).state = TRUE
  BY <1>1, Constants DEF Press
<1>5. x.at <= at[1] /\ x.at \in Nat
  <2>1. x.at <= Press(at[1], list[1]).at
    BY <1>1, <1>3
  <2>2. Press(at[1], list[1]).at = at[1]
    BY <1>3, <1>4
  <2> QED
    BY <2>1, <2>2, ItemIs
<1>6. m = 1
  BY <1>1, <1>2, <1>3, <1>4, <1>5
<1>7. Press(at[1], list[1]) = x /\ list[1] = x.key
  <2>1. Press(at[1], list[1]) \in L /\ Press(at[1], list[1]).at = x.at
        /\ Press(at[1], list[1]).key = list[1]
    BY <1>1, <1>2, <1>3, <1>4, <1>6
  <2> QED
    BY <2>1 DEF OnePerPlace
<1>8. Head(list) = x.key
  BY <1>3, <1>7
<1> DEFINE tl == Tail(list)
           to == [k \in 1 .. Len(tl) |-> at[k + 1]]
<1>9. Len(tl) = Len(list) - 1 /\ \A k \in 1 .. Len(tl) : tl[k] = list[k + 1]
  BY <1>3, HeadTailProperties
<1> HIDE DEF tl
<1>10. \A k \in 1 .. Len(tl) : k + 1 \in K /\ to[k] = at[k + 1] /\ to[k] \in 1 .. MaxCaptured + 1
  BY <1>1, <1>3, <1>9
<1>11. to \in [1 .. Len(tl) -> 1 .. MaxCaptured + 1]
  BY <1>10
<1> HIDE DEF to
<1>12. \A j, k \in 1 .. Len(tl) : j < k => to[j] < to[k]
  <2> TAKE j, k \in 1 .. Len(tl)
  <2> HAVE j < k
  <2>1. j + 1 < k + 1 /\ j + 1 \in K /\ k + 1 \in K
    BY <1>3, <1>9, <1>10
  <2> QED
    BY <1>1, <1>10, <2>1
<1>13. \A k \in 1 .. Len(tl) : Press(to[k], tl[k]) \in L \ {x}
  <2> TAKE k \in 1 .. Len(tl)
  <2>1. k + 1 \in K /\ 1 < k + 1 /\ to[k] = at[k + 1] /\ tl[k] = list[k + 1]
    BY <1>3, <1>9, <1>10
  <2>2. at[1] < at[k + 1] /\ at[1] \in Nat /\ Press(at[k + 1], list[k + 1]) \in L
        /\ Press(at[k + 1], list[k + 1]).at = at[k + 1] /\ at[k + 1] \in Nat
    BY <1>1, <1>3, <1>4, <2>1
  <2> QED
    BY <1>2, <1>6, <2>1, <2>2
<1>14. ASSUME NEW y \in L \ {x}, y.state
       PROVE  \E k \in 1 .. Len(tl) : y.at = to[k]
  <2>1. PICK k \in K : y.at = at[k]
    BY <1>1, <1>14
  <2>2. k # 1
    BY <1>2, <1>6, <2>1 DEF OnePerPlace
  <2>3. k - 1 \in 1 .. Len(tl) /\ (k - 1) + 1 = k
    BY <1>3, <1>9, <2>2
  <2>4. to[k - 1] = at[(k - 1) + 1]
    BY <1>10, <2>3
  <2> QED
    BY <2>1, <2>3, <2>4
<1>15. Ordered(L \ {x}, tl)
  BY <1>11, <1>12, <1>13, <1>14 DEF Ordered
<1> QED
  BY <1>3, <1>8, <1>15 DEF tl

\* A new event follows all others: what the key is flips.
LEMMA NewAlternates ==
  ASSUME NEW K, NEW L, L \subseteq Placed(K), NEW x \in Placed(K),
         \A y \in L : y.key = x.key => y.at < x.at,
         NEW sn, NEW dn, NEW dw, Handles(x, dn, dw), x.state <=> x.key \notin dn,
         Alternates(K, L, sn, dn)
  PROVE  Alternates(K, L \cup {x}, sn, dw)
<1> DEFINE M == L \cup {x}
<1>1. /\ \A y \in L : y.at \in Nat /\ y.key \in K /\ y.state \in BOOLEAN
                      /\ (y.key = x.key => y.at < x.at)
      /\ x.at \in Nat /\ L \subseteq M /\ x \in M /\ x \notin L /\ \A y \in M : y \in L \/ y = x
  BY ItemIs
<1>2. (x.key \in dw <=> x.state) /\ \A p : p # x.key => (p \in dw <=> p \in dn)
  BY DEF Handles
<1> HIDE DEF M
<1>3. ASSUME \A y \in L : y.key # x.key
      PROVE  x.state <=> x.key \notin sn
  <2>1. x.key \in sn <=> x.key \in dn
    BY <1>1, <1>3, ItemIs DEF Alternates
  <2> QED
    BY <2>1
<1>4. ASSUME NEW y \in M, FirstOf(M, y)
      PROVE  y.state <=> y.key \notin sn
  <2>1. CASE y = x
    <3>1. \A z \in L : z.key # x.key
      BY <1>1, <1>4, <2>1 DEF FirstOf
    <3> QED
      BY <1>3, <2>1, <3>1
  <2>2. CASE y # x
    <3>1. y \in L /\ FirstOf(L, y)
      BY <1>1, <1>4, <2>2 DEF FirstOf
    <3> QED
      BY <3>1 DEF Alternates
  <2> QED
    BY <2>1, <2>2
<1>5. ASSUME NEW y \in M, LastOf(M, y)
      PROVE  y.state <=> y.key \in dw
  <2>1. CASE y = x
    BY <1>2, <2>1
  <2>2. CASE y # x
    <3>1. y \in L /\ y.key # x.key
      BY <1>1, <1>5, <2>2 DEF LastOf
    <3>2. LastOf(L, y)
      BY <1>1, <1>5, <3>1 DEF LastOf
    <3> QED
      BY <1>2, <3>1, <3>2 DEF Alternates
  <2> QED
    BY <2>1, <2>2
<1>6. ASSUME NEW y \in M, NEW z \in M, NextOf(M, y, z)
      PROVE  y.state <=> ~z.state
  <2>1. y # x /\ y \in L
    BY <1>1, <1>6 DEF NextOf
  <2>2. CASE z = x
    <3>1. LastOf(L, y) /\ y.key = x.key
      BY <1>1, <1>6, <2>1, <2>2 DEF NextOf, LastOf
    <3>2. y.state <=> y.key \in dn
      BY <2>1, <3>1 DEF Alternates
    <3> QED
      BY <2>2, <3>1, <3>2
  <2>3. CASE z # x
    <3>1. z \in L /\ NextOf(L, y, z)
      BY <1>1, <1>6, <2>1, <2>3 DEF NextOf
    <3> QED
      BY <2>1, <3>1 DEF Alternates
  <2> QED
    BY <2>2, <2>3
<1>7. ASSUME NEW p \in K, \A y \in M : y.key # p
      PROVE  p \in sn <=> p \in dw
  <2>1. p # x.key /\ \A y \in L : y.key # p
    BY <1>1, <1>7
  <2> QED
    BY <1>2, <2>1 DEF Alternates
<1> QED
  BY <1>4, <1>5, <1>6, <1>7 DEF Alternates, M

LEMMA NewEven ==
  ASSUME NEW L, IsFiniteSet(L), L \subseteq Placed(Positions), NEW x, x \notin L,
         NEW sn, NEW dn, NEW dw, Handles(x, dn, dw), x.state <=> x.key \notin dn, Even(L, sn, dn)
  PROVE  Even(L \cup {x}, sn, dw)
<1> SUFFICES ASSUME NEW p \in Positions
             PROVE  (p \in dw <=> p \in sn) <=> Cardinality(Of(L \cup {x}, p)) % 2 = 0
  BY DEF Even
<1>1. (p \in dn <=> p \in sn) <=> Cardinality(Of(L, p)) % 2 = 0
  BY DEF Even
<1>2. CASE p # x.key
  <2>1. Of(L \cup {x}, p) = Of(L, p) /\ (p \in dw <=> p \in dn)
    BY <1>2 DEF Of, Handles
  <2> QED
    BY <1>1, <2>1
<1>3. CASE p = x.key
  <2>1. IsFiniteSet(Of(L, p)) /\ x \notin Of(L, p) /\ Of(L \cup {x}, p) = Of(L, p) \cup {x}
    BY <1>3, FS_Subset DEF Of
  <2>2. Cardinality(Of(L \cup {x}, p)) = Cardinality(Of(L, p)) + 1 /\ Cardinality(Of(L, p)) \in Nat
    BY <2>1, FS_AddElement, FS_CardinalityType
  <2>3. p \in dw <=> p \notin dn
    BY <1>3 DEF Handles
  <2>4. \A c \in Nat : (c + 1) % 2 = 0 <=> ~(c % 2 = 0)
    OBVIOUS
  <2> QED
    BY <1>1, <2>2, <2>3, <2>4
<1> QED
  BY <1>2, <1>3

LEMMA NewRelease ==
  ASSUME NEW L, NEW x, ~x.state, NEW list \in Seq(Positions), Ordered(L, list)
  PROVE  Ordered(L \cup {x}, list)
BY DEF Ordered

LEMMA NewPress ==
  ASSUME NEW L, L \subseteq Placed(Positions), NEW x \in Placed(Positions), x.state, \A y \in L : y.at < x.at,
         NEW list \in Seq(Positions), Ordered(L, list)
  PROVE  Ordered(L \cup {x}, Append(list, x.key))
<1> DEFINE K == 1 .. Len(list)
           new == Append(list, x.key)
           n == Len(list) + 1
           to(at) == [k \in 1 .. n |-> IF k = n THEN x.at ELSE at[k]]
<1>1. PICK at \in [K -> 1 .. MaxCaptured + 1] :
        /\ \A j, k \in K : j < k => at[j] < at[k]
        /\ \A k \in K : Press(at[k], list[k]) \in L
        /\ \A y \in L : y.state => \E k \in K : y.at = at[k]
  BY DEF Ordered
<1>2. /\ Len(list) \in Nat /\ Len(new) = n /\ new[n] = x.key /\ \A k \in K : new[k] = list[k]
  BY ItemIs, LenProperties, AppendProperties
<1>3. n \in Nat /\ K = 1 .. n - 1 /\ n \notin K /\ \A k \in 1 .. n : k = n \/ k \in K
  BY <1>2
<1> DEFINE at2 == to(at)
<1>4. at2 \in [1 .. n -> 1 .. MaxCaptured + 1]
  BY <1>1, <1>3, ItemIs
<1>5. \A k \in 1 .. n : at2[k] = IF k = n THEN x.at ELSE at[k]
  OBVIOUS
<1>6. x.at \in Nat /\ x = Press(x.at, x.key)
  BY ItemIs DEF Press
<1>7. \A k \in K : Press(at[k], list[k]) \in L /\ at[k] \in Nat /\ at[k] < x.at
  <2> TAKE k \in K
  <2>1. Press(at[k], list[k]) \in L /\ Press(at[k], list[k]).at = at[k]
    BY <1>1 DEF Press
  <2> QED
    BY <1>1, <2>1, Constants
<1> HIDE DEF at2, n, new, K
<1>8. \A j, k \in 1 .. n : j < k => at2[j] < at2[k]
  <2> TAKE j, k \in 1 .. n
  <2> HAVE j < k
  <2>1. j \in K /\ j # n
    BY <1>3
  <2> QED
    BY <1>1, <1>3, <1>5, <1>7, <2>1
<1>9. \A k \in 1 .. n : Press(at2[k], new[k]) \in L \cup {x}
  BY <1>2, <1>3, <1>5, <1>6, <1>7
<1>10. ASSUME NEW y \in L \cup {x}, y.state
       PROVE  \E k \in 1 .. n : y.at = at2[k]
  <2>1. CASE y = x
    BY <1>2, <1>3, <1>5, <2>1 DEF n
  <2>2. CASE y # x
    <3>1. PICK k \in K : y.at = at[k]
      BY <1>1, <1>10, <2>2
    <3> QED
      BY <1>3, <1>5, <3>1
  <2> QED
    BY <2>1, <2>2
<1>11. Len(new) = n
  BY <1>2
<1> QED
  BY <1>4, <1>8, <1>9, <1>10, <1>11 DEF Ordered, new

LEMMA OneFewer ==
  ASSUME NEW L, NEW x, OnePerPlace(L)
  PROVE  OnePerPlace(L \ {x})
BY DEF OnePerPlace

LEMMA OneMore ==
  ASSUME NEW L, L \subseteq Placed(Positions), NEW x \in Placed(Positions), \A y \in L : y.at < x.at, OnePerPlace(L)
  PROVE  OnePerPlace(L \cup {x})
<1>1. x.at \in Nat /\ \A y \in L : y.at \in Nat
  BY ItemIs
<1> QED
  BY <1>1 DEF OnePerPlace
-----------------------------------------------------------------------------
(* What is lost stays lost: a state with nothing lost had no state before with an event lost. *)

Losing(io) == "lost" \in DOMAIN io
Loses(io, new) == Losing(io) => Losing(new) /\ io.lost \subseteq new.lost

LEMMA LosesAgain == \A a, b, c : Loses(a, b) /\ Loses(b, c) => Loses(a, c)
BY DEF Loses

LEMMA CaptureLoses == \A io, ev : Loses(io, Capture(io, ev))
<1> TAKE io, ev
<1> DEFINE free == {i \in Cells : io.cap[i] = NoEvent}
           f == CHOOSE i \in free : \A j \in free : i <= j
           new == Capture(io, ev)
<1>1. new = [io EXCEPT !.lost = @ \cup {ev.key}] \/ new = [io EXCEPT !.cap[f] = ev]
  BY DEF Capture
<1> HIDE DEF new, f
<1>2. CASE new = [io EXCEPT !.lost = @ \cup {ev.key}]
  BY <1>2 DEF Loses, Losing, new
<1>3. CASE new = [io EXCEPT !.cap[f] = ev]
  BY <1>3 DEF Loses, Losing, new
<1> QED
  BY <1>1, <1>2, <1>3

LEMMA EmitLoses == \A io, u, code, state, ts : Loses(io, Emit(io, u, code, state, ts))
<1> TAKE io, u, code, state, ts
<1> DEFINE io1 == IF state /\ Kind[code] = "key" /\ ts > io.last.ts
                  THEN [io EXCEPT !.last = [pos |-> NoPos, ts |-> ts]] ELSE io
           ev == [t |-> "code", key |-> code, state |-> state, ts |-> ts]
           one == IF state THEN 1 ELSE -1
           new == Emit(io, u, code, state, ts)
<1>1. new = Capture(io1, ev) \/ new = [io1 EXCEPT !.out[code] = @ + one]
  BY DEF Emit
<1>2. io1 = io \/ io1 = [io EXCEPT !.last = [pos |-> NoPos, ts |-> ts]]
  OBVIOUS
<1> HIDE DEF io1, one, ev, new
<1>3. Loses(io, io1)
  BY <1>2 DEF Loses, Losing
<1>4. Loses(io1, new)
  <2>1. CASE new = Capture(io1, ev)
    BY <2>1, CaptureLoses
  <2>2. CASE new = [io1 EXCEPT !.out[code] = @ + one]
    BY <2>2 DEF Loses, Losing
  <2> QED
    BY <1>1, <2>1, <2>2
<1> QED
  BY <1>3, <1>4, LosesAgain DEF new

LEMMA SameLoses == \A io : Loses(io, io)
BY DEF Loses

LEMMA PressLoses == \A io, u, s, status : Loses(io, PressBinding(io, u, s, status))
<1> TAKE io, u, s, status
<1> DEFINE p == held[s].pos
           ts == held[s].ts
           unheld == IF Cfg(s).holdWhileUndecided /\ ~Cfg(s).linger
                     THEN Emit(io, u, Hold(p), FALSE, ts) ELSE io
           last == [unheld EXCEPT !.last = [pos |-> p, ts |-> ts]]
           new == PressBinding(io, u, s, status)
<1>1. \/ new = io
      \/ new = Emit(io, u, Hold(p), TRUE, ts)
      \/ new = Emit(last, u, Tap(p), TRUE, ts)
  BY DEF PressBinding
<1>2. unheld = io \/ unheld = Emit(io, u, Hold(p), FALSE, ts)
  OBVIOUS
<1> HIDE DEF p, ts, unheld, new
<1>3. Loses(io, unheld)
  BY <1>2, SameLoses, EmitLoses, Zenon
<1>4. Loses(unheld, last)
  BY DEF Loses, Losing
<1> HIDE DEF last
<1>5. Loses(io, last)
  BY <1>3, <1>4, LosesAgain
<1>6. Loses(io, io) /\ Loses(io, Emit(io, u, Hold(p), TRUE, ts))
      /\ Loses(last, Emit(last, u, Tap(p), TRUE, ts))
  BY SameLoses, EmitLoses, Zenon
<1>7. Loses(io, Emit(last, u, Tap(p), TRUE, ts))
  BY <1>5, <1>6, LosesAgain, Zenon
<1>8. Loses(io, new)
  BY <1>1, <1>6, <1>7, Zenon
<1> QED
  BY <1>8 DEF new

LEMMA ReleaseLoses == \A io, u, s, status : Loses(io, ReleaseBinding(io, u, s, status))
BY SameLoses, EmitLoses, Zenon DEF ReleaseBinding

LEMMA RetroLoses == \A p : Loses(IO, PressRetro(p))
<1> TAKE p
<1> DEFINE I == IO
<1>1. PICK io : RetroPresses(io, p)
  BY PressRetroIs
<1>2. MaxHeld \in Nat /\ io[0] = I /\ PressRetro(p) = io[MaxHeld]
  BY <1>1, Constants DEF RetroPresses
<1>3. \A s \in 1 .. MaxHeld : io[s] = io[s - 1] \/ io[s] = PressBinding(io[s - 1], undecided, s, "HOLD_INTERRUPT")
  BY <1>1 DEF RetroPresses
<1> HIDE DEF I
<1> DEFINE T == {n \in 0 .. MaxHeld : ~Loses(I, io[n])}
<1>4. T = {}
  <2> SUFFICES ASSUME T # {}
               PROVE  FALSE
    OBVIOUS
  <2>1. PICK n \in T : \A k \in T : n <= k
    <3>1. T \subseteq Nat
      OBVIOUS
    <3> HIDE DEF T
    <3> QED
      BY <3>1, Least
  <2>2. n # 0
    BY <1>2, <2>1, SameLoses
  <2>3. n \in 1 .. MaxHeld /\ n - 1 \in 0 .. MaxHeld /\ n - 1 \notin T
    BY <1>2, <2>1, <2>2
  <2>4. Loses(I, io[n - 1])
    BY <2>3
  <2>5. Loses(io[n - 1], io[n])
    BY <1>3, <2>3, SameLoses, PressLoses
  <2> QED
    BY <2>1, <2>4, <2>5, LosesAgain
<1>5. MaxHeld \in 0 .. MaxHeld
  BY <1>2
<1> QED
  BY <1>2, <1>4, <1>5 DEF I

LEMMA LostGrows ==
  ASSUME [Next]_vars, lost' = {}
  PROVE  lost = {}
<1> DEFINE I == IO
<1>1. Losing(I) /\ I.lost = lost
  BY DEF IO, Losing
<1>2. \A io : SetIO(io) => lost' = io.lost
  BY DEF SetIO
<1>3. ASSUME NEW io, SetIO(io), Loses(I, io)
      PROVE  lost = {}
  BY <1>1, <1>2, <1>3 DEF Loses
<1>4. ASSUME UNCHANGED lost
      PROVE  lost = {}
  BY <1>4
<1>5. CASE RaisePosition
  BY <1>3, <1>5, RetroLoses DEF RaisePosition
<1>6. CASE ListenPosition
  BY <1>3, <1>4, <1>6, CaptureLoses DEF ListenPosition
<1>7. CASE RaiseKeycode
  BY <1>3, <1>7, EmitLoses DEF RaiseKeycode
<1>8. CASE InvokePlain
  BY <1>3, <1>8, EmitLoses DEF InvokePlain
<1>9. CASE FinishRelease
  <2> DEFINE s == Head(stack).s
             retro == Silent(s, held[s].status)
             status == IF retro THEN "TAP" ELSE held[s].status
             io1 == IF retro THEN PressBinding(I, undecided, s, status) ELSE I
             io2 == ReleaseBinding(io1, undecided, s, status)
             io3 == IF Cfg(s).holdWhileUndecided /\ Cfg(s).linger
                    THEN Emit(io2, undecided, Hold(held[s].pos), FALSE, held[s].ts) ELSE io2
  <2>1. SetIO(io3)
    BY <1>9 DEF FinishRelease
  <2>2. Loses(I, io1)
    BY SameLoses, PressLoses
  <2> HIDE DEF io1, I
  <2>3. Loses(io1, io2)
    BY ReleaseLoses
  <2> HIDE DEF io2
  <2>4. Loses(io2, io3)
    BY SameLoses, EmitLoses
  <2> HIDE DEF io3
  <2>5. Loses(I, io3)
    BY <2>2, <2>3, <2>4, LosesAgain
  <2> QED
    BY <1>3, <2>1, <2>5 DEF I
<1>10. CASE DecideHoldTap
  <2>1. UNCHANGED lost \/ (\E io : SetIO(io) /\ Loses(I, io))
    BY <1>10, EmitLoses, PressLoses DEF DecideHoldTap
  <2> QED
    BY <1>3, <1>4, <2>1
<1>11. CASE InvokePressed \/ InvokeReleased \/ ScheduleTimer \/ ReleaseCaptured
  BY <1>4, <1>11 DEF InvokePressed, InvokeReleased, ScheduleTimer, ReleaseCaptured
<1>12. CASE Environment \/ (\E s \in Slots : TimerHandler(s)) \/ UNCHANGED vars
  BY <1>4, <1>12 DEF Environment, KeyDown, KeyUp, Tick, TimerHandler, vars
<1> QED
  BY <1>5, <1>6, <1>7, <1>8, <1>9, <1>10, <1>11, <1>12 DEF Next, Handler
-----------------------------------------------------------------------------
(* The key whose event is in progress *)

LEMMA ItemsTyped ==
  ASSUME Types, Gap, NEW x \in Items
  PROVE  x \in Placed(Positions)
<1>1. CASE \E i \in EventCells : x = Item(i, captured[i])
  BY <1>1, EventCellIs DEF Item, Placed
<1>2. CASE \E d \in EventFrames : x = Item(Place(d), Fr(d).ev)
  <2>1. PICK d \in EventFrames : x = Item(Place(d), Fr(d).ev)
    BY <1>2
  <2>2. d \in Levels /\ OnRelease(d) /\ Fr(d).ev.key \in Positions /\ Fr(d).ev.state \in BOOLEAN
        /\ d \in Nat /\ Height \in Nat /\ d <= Height /\ MaxCaptured \in Nat
    BY <2>1, EventFrameIs, FrameTypes, Constants DEF Levels
  <2>3. CASE d = 1
    <3>1. Place(d) \in 1 .. MaxCaptured + 1
      BY <2>2, <2>3 DEF Place
    <3> QED
      BY <2>1, <2>2, <3>1 DEF Item, Placed
  <2>4. CASE d # 1
    <3>1. IsRelease(d - 1) /\ d - 1 < Height
      BY <2>2, <2>4 DEF OnRelease
    <3>2. Fr(d - 1).s >= 2 /\ Fr(d - 1).s \in 1 .. MaxCaptured + 1
      BY <3>1, ReleaseCells DEF Gap, IsRelease
    <3>3. Place(d) \in 1 .. MaxCaptured + 1
      BY <2>2, <2>4, <3>2 DEF Place
    <3> QED
      BY <2>1, <2>2, <3>3 DEF Item, Placed
  <2> QED
    BY <2>3, <2>4
<1> QED
  BY <1>1, <1>2 DEF Items

LEMMA ItemsFinite ==
  ASSUME Types
  PROVE  IsFiniteSet(Items)
<1> DEFINE f == [i \in EventCells |-> Item(i, captured[i])]
           g == [d \in EventFrames |-> Item(Place(d), Fr(d).ev)]
<1>1. IsFiniteSet(EventCells) /\ IsFiniteSet(EventFrames)
  <2>1. IsFiniteSet(Cells) /\ IsFiniteSet(Levels)
    BY FrameTypes, Constants, FS_Interval DEF Cells, Levels
  <2> QED
    BY <2>1, FS_Subset DEF EventCells, EventFrames
<1>2. IsFiniteSet({f[i] : i \in EventCells}) /\ IsFiniteSet({g[d] : d \in EventFrames})
  <2>1. ASSUME NEW S, IsFiniteSet(S), NEW h, h = [x \in S |-> h[x]]
        PROVE  IsFiniteSet({h[x] : x \in S})
    <3>1. h \in Surjection(S, {h[x] : x \in S})
      BY <2>1 DEF Surjection
    <3> QED
      BY <2>1, <3>1, FS_Surjection
  <2>2. f = [i \in EventCells |-> f[i]] /\ g = [d \in EventFrames |-> g[d]]
    OBVIOUS
  <2> HIDE DEF f, g
  <2> QED
    BY <1>1, <2>1, <2>2
<1>3. Items = {f[i] : i \in EventCells} \cup {g[d] : d \in EventFrames}
  BY DEF Items
<1> QED
  BY <1>2, <1>3, FS_Union

\* The event of call n
Own(n) == Item(Place(n), Fr(n).ev)

LEMMA OwnIs ==
  ASSUME Types, Gap, NEW n \in EventFrames
  PROVE  /\ Own(n) \in Items /\ Own(n) \in Placed(Positions) /\ Own(n).at = Place(n)
         /\ Own(n).key = Fr(n).ev.key /\ Own(n).state = Fr(n).ev.state
<1>1. Own(n) \in Items
  BY DEF Own, Items
<1> QED
  BY <1>1, ItemsTyped DEF Own, Item

\* A key whose release is not finished has nothing in progress meanwhile.
LEMMA FinishElsewhere ==
  ASSUME Types, Rising, Gap, FinishInv, NEW n \in EventFrames, n = Height,
         NEW d \in Levels, Fr(d).op = "finish"
  PROVE  d < n /\ held[Fr(d).s].pos # Fr(n).ev.key
<1>1. n \in Levels /\ OnRelease(n) /\ Fr(n).op # "release" /\ Fr(n).op # "finish"
  BY EventFrameIs DEF EventOps
<1>2. d < n /\ OnRelease(d)
  BY <1>1, FrameTypes DEF Levels, FrameShape
<1>3. Place(n) < Place(d) /\ Place(d) \in 1 .. MaxCaptured + 1 /\ Place(n) \in 1 .. MaxCaptured + 1
  BY <1>1, <1>2, PlacesRise, PlaceIs
<1>4. Own(n) \in Items /\ Own(n).at = Place(n) /\ Own(n).key = Fr(n).ev.key
  BY OwnIs
<1>5. held[Fr(d).s].pos = Fr(n).ev.key => Place(d) < Place(n)
  BY <1>4 DEF FinishInv
<1>6. MaxCaptured \in Nat
  BY Constants
<1> QED
  BY <1>2, <1>3, <1>5, <1>6

LEMMA OwnSlot ==
  ASSUME Types, Rising, Gap, FinishInv, SlotsInv, NEW n \in EventFrames, n = Height,
         NEW s \in Slots, Used(s), held[s].pos = Fr(n).ev.key
  PROVE  held[s].pos \in seen /\ ~held[s].cancelled /\ ~Finishing(s)
<1>1. Own(n) \in Items /\ Own(n).key = Fr(n).ev.key
  BY OwnIs
<1>2. ~held[s].cancelled
  BY <1>1 DEF SlotsInv, CancelledDone
<1>3. ~Finishing(s)
  BY FinishElsewhere DEF Finishing
<1> QED
  BY <1>2, <1>3 DEF SlotsInv, SlotsReturn

\* The event in progress is the first of its key unless an earlier one is captured.
LEMMA FirstOfKey ==
  ASSUME Types, Rising, Gap, NEW n \in EventFrames, n = Height,
         \A i \in EventCells : Low(i) => captured[i].key # Fr(n).ev.key
  PROVE  /\ \A x \in Items : x.key = Fr(n).ev.key => Place(n) <= x.at
         /\ FirstOf(Items, Own(n))
<1>0. Own(n).at = Place(n) /\ Own(n).key = Fr(n).ev.key /\ Own(n) \in Placed(Positions)
  BY OwnIs
<1>1. ASSUME NEW x \in Items, x.key = Fr(n).ev.key
      PROVE  Place(n) <= x.at
  <2>1. x \in Placed(Positions) /\ (x.at < Place(n) => \E i \in EventCells : Low(i) /\ x = Item(i, captured[i]))
    BY ItemsAround
  <2>2. ~(x.at < Place(n))
    BY <1>1, <2>1 DEF Item
  <2> QED
    BY <1>0, <2>1, <2>2, ItemIs
<1> QED
  BY <1>0, <1>1 DEF FirstOf

\* Without an undecided hold-tap it is the first of all.
LEMMA FirstOfAll ==
  ASSUME Types, Rising, Gap, LowEmpty, undecided = 0, NEW n \in EventFrames, n = Height
  PROVE  /\ \A x \in Items : Own(n).at <= x.at
         /\ \A i \in EventCells : ~Low(i)
<1>0. Own(n).at = Place(n) /\ Own(n) \in Placed(Positions)
  BY OwnIs
<1>1. \A i \in EventCells : ~Low(i)
  BY EventCellIs DEF LowEmpty
<1>2. ASSUME NEW x \in Items
      PROVE  Own(n).at <= x.at
  <2>1. x \in Placed(Positions) /\ ~(x.at < Place(n))
    BY <1>1, ItemsAround
  <2> QED
    BY <1>0, <2>1, ItemIs
<1> QED
  BY <1>1, <1>2

\* A press in progress, the first of its key, is of a key without a slot.
LEMMA PressNotUsed ==
  ASSUME Types, Rising, Gap, FinishInv, SlotsInv, ItemsInv, NEW n \in EventFrames, n = Height,
         Fr(n).ev.state, FirstOf(Items, Own(n)), NEW s \in Slots, Used(s)
  PROVE  held[s].pos # Fr(n).ev.key
<1>1. Own(n) \in Items /\ Own(n).key = Fr(n).ev.key /\ Own(n).state = Fr(n).ev.state
  BY OwnIs
<1>2. Fr(n).ev.key \notin seen
  BY <1>1 DEF ItemsInv, Alternates
<1> QED
  BY <1>2, OwnSlot

\* An event that is captured is of a key without a slot.
LEMMA CapturedNotUsed ==
  ASSUME Types, Rising, Gap, FinishInv, SlotsInv, ItemsInv, NEW n \in EventFrames, n = Height,
         Fr(n).ev.state \/ HaveCapturedKeydown(Fr(n).ev.key), NEW s \in Slots, Used(s)
  PROVE  held[s].pos # Fr(n).ev.key
<1> SUFFICES ASSUME held[s].pos = Fr(n).ev.key
             PROVE  FALSE
  OBVIOUS
<1>1. \A i \in EventCells : Low(i) => captured[i].key # Fr(n).ev.key
  BY DEF SlotsInv, OthersCaptured
<1>2. FirstOf(Items, Own(n))
  BY <1>1, FirstOfKey
<1>3. ~Fr(n).ev.state
  BY <1>2, PressNotUsed
<1>4. PICK i \in Cells : /\ \A j \in 1 .. i : captured[j] # NoEvent
                         /\ captured[i].t = "pos" /\ captured[i].key = Fr(n).ev.key
  BY <1>3 DEF HaveCapturedKeydown
<1>5. i \in EventCells /\ i \in Nat /\ i >= 1
  BY <1>4, Constants DEF EventCells, Cells
<1>6. ~Low(i)
  BY <1>1, <1>4, <1>5
<1>7. n \in Levels /\ OnRelease(n) /\ Fr(n).op # "release"
  BY EventFrameIs
<1>8. Place(n) < i /\ Place(n) \in Nat /\ Place(n) >= 1
  <2>1. ~(i <= Place(n)) /\ Place(n) \in 1 .. MaxCaptured + 1
    BY <1>4, <1>6, <1>7, PlaceIs
  <2> QED
    BY <1>5, <2>1, Constants
<1>9. n > 1
  <2>1. n \in Nat /\ n >= 1 /\ i <= MaxCaptured /\ MaxCaptured \in Nat
    BY <1>4, <1>7, FrameTypes, Constants DEF Levels, Cells
  <2>2. n = 1 => Place(n) = MaxCaptured + 1
    BY <1>7, PlaceIs
  <2> QED
    BY <1>5, <1>8, <2>1, <2>2
<1>10. captured[Place(n)] = NoEvent
  BY <1>7, <1>9, PlaceIs DEF Full
<1> QED
  BY <1>4, <1>5, <1>8, <1>10
-----------------------------------------------------------------------------
(* What a handler leaves of the calls and of captured_events *)

\* The calls from n on are new ones, of operations in ops.
NewCalls(n, ops) ==
  /\ stack' \in Seq(Frames) /\ Height' \in Nat /\ Height' >= n - 1 /\ Kept(n)
  /\ \A d \in n .. Height' : Fr(d)'.op \in ops

LEMMA NewCallsAre ==
  ASSUME NEW n \in Nat, n >= 1
  PROVE  /\ Returned(n) => NewCalls(n, {})
         /\ \A f : Becomes(n, f) => NewCalls(n, {f.op})
         /\ \A f, g : Becomes2(n, f, g) => NewCalls(n, {f.op, g.op})
         /\ \A f, g, h : Becomes3(n, f, g, h) => NewCalls(n, {f.op, g.op, h.op})
<1>1. Returned(n) => NewCalls(n, {})
  BY DEF Returned, NewCalls
<1>2. ASSUME NEW f, Becomes(n, f)
      PROVE  NewCalls(n, {f.op})
  <2>1. Height' = n /\ \A d \in n .. Height' : d = n
    BY <1>2 DEF Becomes
  <2> QED
    BY <1>2, <2>1 DEF Becomes, NewCalls
<1>3. ASSUME NEW f, NEW g, Becomes2(n, f, g)
      PROVE  NewCalls(n, {f.op, g.op})
  <2>1. Height' = n + 1 /\ \A d \in n .. Height' : d = n \/ d = n + 1
    BY <1>3 DEF Becomes2
  <2> QED
    BY <1>3, <2>1 DEF Becomes2, NewCalls
<1>4. ASSUME NEW f, NEW g, NEW h, Becomes3(n, f, g, h)
      PROVE  NewCalls(n, {f.op, g.op, h.op})
  <2>1. Height' = n + 2 /\ \A d \in n .. Height' : d = n \/ d = n + 1 \/ d = n + 2
    BY <1>4 DEF Becomes3
  <2> QED
    BY <1>4, <2>1 DEF Becomes3, NewCalls
<1> QED
  BY <1>1, <1>2, <1>3, <1>4

LEMMA ShapeKept ==
  ASSUME Types, NEW n \in Levels, n = Height, NEW ops, NewCalls(n, ops)
  PROVE  \A d \in 1 .. n - 1 : FrameShape(d)' /\ d \in Levels' /\ d \in Levels
<1> SUFFICES ASSUME NEW d \in 1 .. n - 1
             PROVE  FrameShape(d)' /\ d \in Levels' /\ d \in Levels
  OBVIOUS
<1>1. n \in Nat /\ d \in Nat /\ d >= 1 /\ d # Height /\ d \in Levels /\ Height' >= n - 1 /\ Height' \in Nat
  BY FrameTypes DEF Levels, NewCalls
<1>2. FrameShape(d) /\ Fr(d)' = Fr(d) /\ d \in Levels'
  BY <1>1, FrameTypes DEF NewCalls, Kept, Levels
<1>3. d > 1 => d - 1 \in 1 .. n - 1 /\ d - 1 \in Levels /\ d - 1 \in Levels'
  BY <1>1 DEF Levels
<1>4. d > 1 => Fr(d - 1)' = Fr(d - 1)
  BY <1>3 DEF NewCalls, Kept
<1>5. OnRelease(d) => OnRelease(d)'
  BY <1>1, <1>3, <1>4 DEF OnRelease, IsRelease
<1>6. Fr(d).op = "decide" => DecideShape(d)'
  BY <1>1, <1>2, <1>4 DEF FrameShape, DecideShape, Returns
<1>7. FrameShape(d)'
  BY <1>1, <1>2, <1>5, <1>6 DEF FrameShape, EventOK
<1> QED
  BY <1>1, <1>2, <1>7

LEMMA ShapeNew ==
  ASSUME Types, NEW n \in Levels, n = Height, NEW ops, NewCalls(n, ops),
         \A d \in n .. Height' : FrameShape(d)'
  PROVE  Shape'
<1>1. \A d \in Levels' : d \in 1 .. n - 1 \/ d \in n .. Height'
  BY FrameTypes DEF Levels, NewCalls
<1> QED
  BY <1>1, ShapeKept DEF Shape

\* The replays are where they were.
SameReplays ==
  \A d : (IsRelease(d)' <=> IsRelease(d)) /\ (IsRelease(d) => Fr(d)'.s = Fr(d).s)

LEMMA ReplaysStay ==
  ASSUME Types, NEW n \in Levels, n = Height, Fr(n).op # "release",
         NEW ops, NewCalls(n, ops), "release" \notin ops
  PROVE  SameReplays
<1>1. n \in Nat /\ Height' \in Nat /\ Height' >= n - 1 /\ \A d \in 1 .. n - 1 : Fr(d)' = Fr(d)
  BY FrameTypes DEF NewCalls, Kept
<1>2. \A d : IsRelease(d) => d \in 1 .. n - 1
  BY <1>1 DEF IsRelease, Levels
<1>3. \A d : IsRelease(d)' => d \in 1 .. n - 1
  BY <1>1 DEF IsRelease, Levels, NewCalls
<1>4. \A d \in 1 .. n - 1 : d \in Levels /\ d \in Levels'
  BY <1>1 DEF Levels
<1> QED
  BY <1>1, <1>2, <1>3, <1>4 DEF SameReplays, IsRelease

LEMMA LowStays ==
  ASSUME SameReplays
  PROVE  \A i : Low(i)' <=> Low(i)
BY DEF SameReplays, Low, IsRelease

IOTypes == /\ captured \in [Cells -> Event] /\ CapturedOK
           /\ lastTapped \in [pos : HoldTaps \cup {NoPos}, ts : Int]
           /\ out \in [Codes -> Int] /\ lost \subseteq Positions \cup Codes
\* captured_events gathers, from what the handler emits or captures, m cells at most.
Collects(m) == /\ IOTypes' /\ Gathered(captured, captured') /\ Takes(captured, captured', m)
               /\ undecided = 0 => captured' = captured

LEMMA SetIOCollects ==
  ASSUME Types, NEW io, SetIO(io), NEW m, Emitted(IO, io, m), lost' = {},
         undecided = 0 => SameEvents(IO, io)
  PROVE  Collects(m)
<1>1. IOOK(io) /\ (io.lost = {} => Gathered(IO.cap, io.cap) /\ Takes(IO.cap, io.cap, m))
  BY DEF Emitted
<1>2. captured' = io.cap /\ lastTapped' = io.last /\ out' = io.out /\ lost' = io.lost
  BY DEF SetIO
<1>3. IO.cap = captured
  BY IOIs
<1>4. /\ io.cap \in [Cells -> Event] /\ io.last \in [pos : HoldTaps \cup {NoPos}, ts : Int]
      /\ io.out \in [Codes -> Int] /\ io.lost \subseteq Positions \cup Codes
      /\ \A i \in Cells : io.cap[i] # NoEvent => EventOK(io.cap[i])
  BY <1>1 DEF IOOK, IOs
<1>5. IOTypes'
  BY <1>2, <1>4 DEF IOTypes, CapturedOK, EventOK
<1>6. Gathered(captured, captured') /\ Takes(captured, captured', m)
  BY <1>1, <1>2, <1>3
<1>7. undecided = 0 => captured' = captured
  BY <1>2, <1>3 DEF SameEvents
<1> QED
  BY <1>5, <1>6, <1>7 DEF Collects

LEMMA UntouchedCollects ==
  ASSUME Types, UNCHANGED <<captured, lastTapped, out, lost>>
  PROVE  Collects(0)
<1>1. IOTypes'
  BY DEF Types, TypeOK, CapturedOK, IOTypes, EventOK
<1>2. Gathered(captured, captured') /\ captured' = captured
  BY DEF Gathered
<1>3. \A k \in Nat : k + 0 = k
  OBVIOUS
<1>4. Takes(captured, captured', 0)
  BY <1>2, <1>3 DEF Takes
<1> QED
  BY <1>1, <1>2, <1>4 DEF Collects

LEMMA FreeLess ==
  ASSUME NEW cap, NEW t \in Nat, NEW n \in Nat, NEW m \in Nat, m <= n, Free(cap, t, n)
  PROVE  Free(cap, t, m)
BY DEF Free

\* The innermost replay
LEMMA TopReleaseIs ==
  ASSUME Types, Rising, Gap, NEW n \in Levels, n = Height, OnRelease(n), Fr(n).op # "release", n > 1
  PROVE  TopRelease(n - 1) /\ n - 1 \in Levels /\ Fr(n - 1).s \in 1 .. MaxCaptured + 1
         /\ Fr(n - 1).s \in Nat
<1>1. IsRelease(n - 1) /\ n \in Nat
  BY FrameTypes, PlaceIs
<1>2. \A e \in (n - 1) + 1 .. Height : e = n
  BY <1>1
<1> QED
  BY <1>1, <1>2, ReleaseCells DEF TopRelease

\* The room there is while a hold-tap is undecided
LEMMA RoomBefore ==
  ASSUME Types, Rising, Gap, RoomLeft, NEW n \in Levels, n = Height, OnRelease(n),
         Fr(n).op # "release", n > 1, undecided # 0
  PROVE  /\ Free(captured, Fr(n - 1).s, Cardinality(Silents) + 1)
         /\ Fr(n).op \in EventOps \cup {"finish"} => Free(captured, Fr(n - 1).s, Cardinality(Silents) + 2)
         /\ Cardinality(Silents) \in Nat /\ IsFiniteSet(Silents)
<1>1. TopRelease(n - 1) /\ n - 1 \in Levels /\ Fr(n - 1).s \in Nat /\ n \in Nat
  BY TopReleaseIs, FrameTypes
<1>2. Cardinality(Silents) \in Nat /\ IsFiniteSet(Silents)
  BY Constants, FS_Subset, FS_CardinalityType DEF Silents
<1>3. Free(captured, Fr(n - 1).s, Cardinality(Silents) + (IF Carries(n - 1) THEN 2 ELSE 1))
  BY <1>1 DEF RoomLeft
<1>4. Fr(n).op \in EventOps \cup {"finish"} => Carries(n - 1)
  BY <1>1 DEF Carries
<1>5. Free(captured, Fr(n - 1).s, Cardinality(Silents) + 1)
  BY <1>1, <1>2, <1>3, FreeLess
<1> QED
  BY <1>2, <1>3, <1>4, <1>5

\* The room that has to be left: c is 1 when no event is in progress.
LEMMA RoomAfter ==
  ASSUME Types, Rising, Gap, NEW n \in Levels, n = Height, OnRelease(n), Fr(n).op # "release",
         NEW ops, NewCalls(n, ops), "release" \notin ops, NEW c \in {1, 2},
         c = 1 => ops \cap (EventOps \cup {"finish"}) = {},
         undecided' # 0 /\ n > 1 => Free(captured', Fr(n - 1).s, Cardinality(Silents') + c),
         Silents' \subseteq Slots
  PROVE  RoomLeft'
<1>1. SameReplays
  BY ReplaysStay
<1>2. n \in Nat /\ Height' \in Nat /\ Height' >= n - 1 /\ \A d : IsRelease(d) => d <= n - 1 /\ d \in Nat
  BY FrameTypes, PlaceIs, ReleaseCells DEF NewCalls
<1> SUFFICES ASSUME undecided' # 0, NEW d \in Levels', TopRelease(d)'
             PROVE  Free(captured', Fr(d)'.s, Cardinality(Silents') + (IF Carries(d)' THEN 2 ELSE 1))
  BY DEF RoomLeft
<1>3. IsRelease(d) /\ Fr(d)'.s = Fr(d).s /\ d <= n - 1
  BY <1>1, <1>2 DEF TopRelease, SameReplays
<1>4. n > 1 /\ d \in Nat /\ d >= 1
  BY <1>2, <1>3 DEF Levels
<1>5. d = n - 1
  <2>1. IsRelease(n - 1)'
    BY <1>1, <1>4, PlaceIs DEF SameReplays
  <2>2. d < n - 1 => n - 1 \in d + 1 .. Height'
    BY <1>2, <1>4
  <2> QED
    BY <1>2, <1>3, <1>4, <2>1, <2>2 DEF TopRelease, IsRelease
<1>6. Carries(d)' => c = 2
  <2> SUFFICES ASSUME Carries(d)', c = 1
               PROVE  FALSE
    OBVIOUS
  <2>1. PICK e \in d + 1 .. Height' : Fr(e)'.op \in EventOps \cup {"finish"}
    BY DEF Carries
  <2>2. e \in n .. Height'
    BY <1>2, <1>5
  <2> QED
    BY <2>1, <2>2 DEF NewCalls
<1>7. Free(captured', Fr(d)'.s, Cardinality(Silents') + c)
  BY <1>3, <1>4, <1>5
<1>8. Cardinality(Silents') \in Nat
  BY Constants, FS_Subset, FS_CardinalityType
<1>9. Fr(d)'.s \in Nat
  BY <1>3, ReleaseCells
<1>10. Free(captured', Fr(d)'.s, Cardinality(Silents') + 1)
  BY <1>7, <1>8, <1>9, FreeLess
<1> QED
  BY <1>6, <1>7, <1>10

\* Captured events stay, others are put in the first free cells.
Fills(cap, new) ==
  \A i \in Cells : /\ cap[i] # NoEvent => new[i] = cap[i]
                   /\ cap[i] = NoEvent /\ new[i] # NoEvent => \A j \in Cells : j < i => new[j] # NoEvent

\* The cells are sound after a handler that takes cells from the replay no more than there
\* is room before the place its event came from.
LEMMA CellsFill ==
  ASSUME Types, CellsInv, NEW n \in Levels, n = Height, Fr(n).op # "release",
         NEW ops, NewCalls(n, ops), "release" \notin ops, Fills(captured, captured'),
         undecided = 0 => captured' = captured, undecided' = 0 => undecided = 0,
         captured' = captured \/ (OnRelease(n) /\ (n > 1 => captured'[Place(n)] = NoEvent))
  PROVE  CellsInv'
<1>1. SameReplays
  BY ReplaysStay
<1>2. n \in Nat /\ Height' \in Nat /\ Height' >= n - 1
      /\ \A d : IsRelease(d) => d \in Levels /\ d < Height /\ d \in Nat /\ d \in Levels' /\ Fr(d).s \in Nat
                                /\ Fr(d).s \in 1 .. MaxCaptured + 1
  BY FrameTypes, ReleaseCells DEF NewCalls, Levels, IsRelease
<1>3. MaxCaptured \in Nat /\ Cells = 1 .. MaxCaptured
  BY Constants DEF Cells
<1>4. Rising'
  BY <1>1, <1>2 DEF CellsInv, Rising, SameReplays, IsRelease
<1>5. ASSUME NEW d, IsRelease(d)
      PROVE  Fr(d).s >= 2 /\ captured'[Fr(d).s - 1] = NoEvent
  <2>1. Fr(d).s >= 2 /\ captured[Fr(d).s - 1] = NoEvent
    BY <1>2, <1>5 DEF CellsInv, Gap, Full
  <2>2. CASE captured' = captured
    BY <2>1, <2>2
  <2>3. CASE OnRelease(n) /\ (n > 1 => captured'[Place(n)] = NoEvent)
    <3>1. d <= n - 1 /\ Place(n) < Fr(d).s
      BY <1>5, <2>3, PlaceIs DEF CellsInv
    <3>2. n > 1
      BY <1>2, <1>5, <3>1 DEF Levels
    <3>3. captured'[Place(n)] = NoEvent /\ Place(n) \in Cells
      BY <2>3, <3>2, PlaceIs DEF CellsInv
    <3>4. PICK i : i = Fr(d).s - 1
      OBVIOUS
    <3>5. i \in Cells /\ Place(n) <= i /\ captured[i] = NoEvent
      BY <1>2, <1>3, <1>5, <2>1, <3>1, <3>3, <3>4
    <3>6. captured'[i] = NoEvent
      BY <1>3, <3>3, <3>5 DEF Fills
    <3> QED
      BY <2>1, <3>4, <3>6
  <2> QED
    BY <2>1, <2>2, <2>3
<1>6. Gap'
  BY <1>1, <1>5 DEF Gap, Full, SameReplays, IsRelease
<1>7. Packed'
  <2> SUFFICES ASSUME NEW i \in Cells, NEW j \in Cells, i < j, captured'[i] = NoEvent, captured'[j] # NoEvent
               PROVE  \E d \in Levels' : IsRelease(d)' /\ i < Fr(d)'.s /\ Fr(d)'.s <= j
    BY DEF Packed, Full
  <2>1. captured[i] = NoEvent /\ captured[j] # NoEvent
    BY DEF Fills
  <2>2. PICK d \in Levels : IsRelease(d) /\ i < Fr(d).s /\ Fr(d).s <= j
    BY <2>1 DEF CellsInv, Packed, Full
  <2> QED
    BY <1>1, <1>2, <2>2 DEF SameReplays
<1>8. LowEmpty'
  <2> SUFFICES ASSUME undecided' = 0, NEW i \in Cells, Low(i)'
               PROVE  captured'[i] = NoEvent
    BY DEF LowEmpty, Full
  <2>1. undecided = 0 /\ Low(i) /\ captured' = captured
    BY <1>1, LowStays
  <2> QED
    BY <2>1 DEF CellsInv, LowEmpty, Full
<1> QED
  BY <1>4, <1>6, <1>7, <1>8 DEF CellsInv

LEMMA CellsStay ==
  ASSUME Types, CellsInv, NEW n \in Levels, n = Height, Fr(n).op # "release",
         NEW ops, NewCalls(n, ops), "release" \notin ops, NEW m, Collects(m),
         undecided' = 0 => undecided = 0,
         captured' = captured \/ (OnRelease(n) /\ (n > 1 => captured'[Place(n)] = NoEvent))
  PROVE  CellsInv'
<1>1. Fills(captured, captured') /\ (undecided = 0 => captured' = captured)
  BY DEF Collects, Gathered, Fills
<1> QED
  BY <1>1, CellsFill
-----------------------------------------------------------------------------
(* What a handler leaves of the events under way *)

LEMMA GatheredEvents ==
  ASSUME Types, NEW m, Collects(m)
  PROVE  EventCells' = EventCells /\ \A i \in EventCells : captured'[i] = captured[i]
<1>1. \A i \in Cells : captured[i].t = "pos" => captured[i] # NoEvent
  BY DEF NoEvent
<1>2. \A i \in Cells : /\ captured[i] # NoEvent => captured'[i] = captured[i]
                       /\ captured[i] = NoEvent /\ captured'[i] # NoEvent => captured'[i].t = "code"
  BY DEF Collects, Gathered
<1>3. NoEvent.t # "pos"
  BY DEF NoEvent
<1>4. \A i \in Cells : captured'[i].t = "pos" <=> captured[i].t = "pos"
  BY <1>1, <1>2, <1>3
<1> QED
  BY <1>1, <1>2, <1>4 DEF EventCells

LEMMA PlaceKept ==
  ASSUME Types, NEW n \in Levels, NEW ops, NewCalls(n, ops)
  PROVE  \A d \in 1 .. n : Place(d)' = Place(d)
<1> SUFFICES ASSUME NEW d \in 1 .. n
             PROVE  Place(d)' = Place(d)
  OBVIOUS
<1>1. n \in Nat /\ d \in Nat /\ (d # 1 => d - 1 \in 1 .. n - 1)
  BY FrameTypes DEF Levels
<1>2. d # 1 => Fr(d - 1)' = Fr(d - 1)
  BY <1>1 DEF NewCalls, Kept
<1> QED
  BY <1>2 DEF Place

\* An event frame at the top stays with its event, or there is none before and after.
LEMMA ItemsStay ==
  ASSUME Types, NEW n \in Levels, n = Height, NEW ops, NewCalls(n, ops), NEW m, Collects(m),
         \A d \in n .. Height' : d \in EventFrames' <=> d = n /\ n \in EventFrames,
         n \in EventFrames => n \in EventFrames' /\ Fr(n)'.ev = Fr(n).ev
  PROVE  Items' = Items
<1>1. n \in Nat /\ Height' \in Nat /\ Height' >= n - 1 /\ \A d \in 1 .. n - 1 : Fr(d)' = Fr(d)
  BY FrameTypes DEF NewCalls, Kept
<1>2. \A d \in 1 .. n - 1 : d \in EventFrames' <=> d \in EventFrames
  BY <1>1 DEF EventFrames, Levels
<1>3. \A d : d \in EventFrames => d \in 1 .. n - 1 \/ d = n
  BY <1>1 DEF EventFrames, Levels
<1>4. \A d : d \in EventFrames' => d \in 1 .. n - 1 \/ d \in n .. Height'
  BY <1>1 DEF EventFrames, Levels
<1>5. \A d : d \in EventFrames' <=> d \in EventFrames
  BY <1>1, <1>2, <1>3, <1>4
<1>6. \A d \in EventFrames : Fr(d)'.ev = Fr(d).ev /\ Place(d)' = Place(d)
  <2> TAKE d \in EventFrames
  <2>1. d \in 1 .. n /\ (d \in 1 .. n - 1 \/ d = n)
    BY <1>1, <1>3 DEF Levels
  <2> QED
    BY <1>1, <2>1, PlaceKept
<1>7. EventFrames' = EventFrames
  BY <1>5
<1>8. EventCells' = EventCells /\ \A i \in EventCells : captured'[i] = captured[i]
  BY GatheredEvents
<1> QED
  BY <1>6, <1>7, <1>8 DEF Items, Item

\* The event of call n is handled.
LEMMA ItemsHandled ==
  ASSUME Types, Rising, Gap, NEW n \in EventFrames, n = Height, NEW ops, NewCalls(n, ops),
         NEW m, Collects(m), ops \cap EventOps = {}
  PROVE  Items' = Items \ {Own(n)}
<1>1. n \in Nat /\ Height' \in Nat /\ Height' >= n - 1 /\ (\A d \in 1 .. n - 1 : Fr(d)' = Fr(d)) /\ n \in Levels
  BY FrameTypes, EventFrameIs DEF NewCalls, Kept
<1>2. \A d \in 1 .. n - 1 : d \in EventFrames' <=> d \in EventFrames
  BY <1>1 DEF EventFrames, Levels
<1>3. \A d : d \in EventFrames => d \in 1 .. n - 1 \/ d = n
  BY <1>1 DEF EventFrames, Levels
<1>4. \A d : d \in EventFrames' => d \in 1 .. n - 1
  BY <1>1 DEF EventFrames, Levels, NewCalls
<1>5. EventFrames' = EventFrames \ {n}
  BY <1>1, <1>2, <1>3, <1>4
<1>6. \A d \in 1 .. n - 1 : Fr(d)'.ev = Fr(d).ev /\ Place(d)' = Place(d)
  BY <1>1, PlaceKept
<1>7. EventCells' = EventCells /\ \A i \in EventCells : captured'[i] = captured[i]
  BY GatheredEvents
<1>8. Items' = {Item(i, captured[i]) : i \in EventCells}
                 \cup {Item(Place(d), Fr(d).ev) : d \in EventFrames \ {n}}
  BY <1>3, <1>5, <1>6, <1>7 DEF Items, Item
<1>9. Own(n).at = Place(n) /\ Place(n) \in 1 .. MaxCaptured + 1 /\ OnRelease(n) /\ Fr(n).op # "release"
  BY OwnIs, EventFrameIs, PlaceIs
<1>10. ASSUME NEW d \in EventFrames \ {n}
       PROVE  Item(Place(d), Fr(d).ev) # Own(n)
  <2>1. d \in Levels /\ d < n /\ OnRelease(d)
    BY <1>1, <1>3, EventFrameIs
  <2>2. Place(n) < Place(d) /\ Place(d) \in 1 .. MaxCaptured + 1
    BY <1>1, <1>9, <2>1, PlacesRise
  <2>3. Place(n) # Place(d)
    BY <1>9, <2>2, Constants
  <2> QED
    BY <1>9, <2>3 DEF Item
<1>11. ASSUME NEW i \in EventCells
       PROVE  Item(i, captured[i]) # Own(n)
  <2>1. i \in Cells /\ Full(i) /\ i \in Nat
    BY EventCellIs
  <2>2. i # Place(n)
    <3>1. n > 1 => ~Full(Place(n))
      BY <1>1, <1>9, PlaceIs
    <3>2. n = 1 => Place(n) = MaxCaptured + 1
      BY <1>1, <1>9, PlaceIs
    <3>3. n = 1 \/ n > 1
      BY <1>1 DEF Levels
    <3> QED
      BY <2>1, <3>1, <3>2, <3>3, Constants DEF Cells
  <2> QED
    BY <1>9, <2>2 DEF Item
<1>12. Items = {Item(i, captured[i]) : i \in EventCells}
                 \cup {Item(Place(d), Fr(d).ev) : d \in EventFrames \ {n}} \cup {Own(n)}
  BY DEF Items, Own
<1> QED
  BY <1>8, <1>10, <1>11, <1>12

LEMMA ItemsInvStay ==
  ASSUME ItemsInv, Items' = Items, UNCHANGED <<seen, down, typed>>
  PROVE  ItemsInv'
BY DEF ItemsInv

\* The keymap handles the event of call n.
LEMMA ItemsInvHandled ==
  ASSUME Types, Rising, Gap, ItemsInv, NEW n \in EventFrames, n = Height,
         FirstOf(Items, Own(n)), Fr(n).ev.state => \A x \in Items : Own(n).at <= x.at,
         KeymapSees(Fr(n).ev), Items' = Items \ {Own(n)}, UNCHANGED down
  PROVE  /\ ItemsInv'
         /\ Fr(n).ev.state => typed # <<>> /\ Head(typed) = Fr(n).ev.key
         /\ typed' \in Seq(Positions)
<1> DEFINE x == Own(n)
           L == Items
<1>1. /\ x \in L /\ x \in Placed(Positions) /\ x.key = Fr(n).ev.key /\ x.state = Fr(n).ev.state
      /\ x.state \in BOOLEAN
  BY OwnIs, EventFrameIs
<1>2. L \subseteq Placed(Positions) /\ IsFiniteSet(L)
  BY ItemsTyped, ItemsFinite
<1>3. typed \in Seq(Positions)
  BY DEF Types, TypeOK
<1>4. Handles(x, seen, seen')
  BY <1>1 DEF Handles, KeymapSees
<1>5. x.state <=> x.key \notin seen
  BY <1>1 DEF ItemsInv, Alternates
<1>6. OnePerPlace(L) /\ Alternates(Positions, L, seen, down) /\ Ordered(L, typed) /\ Even(L, seen, down)
      /\ FirstOf(L, x)
  BY DEF ItemsInv
<1>7. typed' = IF x.state /\ typed # <<>> THEN Tail(typed) ELSE typed
  BY <1>1 DEF KeymapSees
<1> HIDE DEF x, L
<1>8. OnePerPlace(L \ {x}) /\ Alternates(Positions, L \ {x}, seen', down) /\ Even(L \ {x}, seen', down)
  BY <1>1, <1>2, <1>4, <1>5, <1>6, OneFewer, HandledAlternates, HandledEven
<1>9. Ordered(L \ {x}, typed') /\ (x.state => typed # <<>> /\ Head(typed) = x.key) /\ typed' \in Seq(Positions)
  <2>1. CASE x.state
    <3>1. \A y \in L : x.at <= y.at
      BY <1>1, <2>1 DEF x, L
    <3>2. typed # <<>> /\ Head(typed) = x.key /\ Ordered(L \ {x}, Tail(typed))
      BY <1>1, <1>2, <1>3, <1>6, <2>1, <3>1, HandledPress
    <3>3. Tail(typed) \in Seq(Positions)
      BY <1>3, <3>2, HeadTailProperties
    <3> QED
      BY <1>7, <2>1, <3>2, <3>3
  <2>2. CASE ~x.state
    <3>1. Ordered(L \ {x}, typed)
      BY <1>1, <1>2, <1>3, <1>6, <2>2, HandledRelease
    <3> QED
      BY <1>3, <1>7, <2>2, <3>1
  <2> QED
    BY <2>1, <2>2
<1>10. Items' = L \ {x} /\ down' = down
  BY DEF L, x
<1> QED
  BY <1>1, <1>8, <1>9, <1>10 DEF ItemsInv
-----------------------------------------------------------------------------
(* What a handler leaves of the rest *)

\* The keys, their timers and their events are as they were, seen from the slots.
LEMMA SlotsStay ==
  ASSUME SlotsInv, undecided' = undecided, timer' = timer,
         \A s \in Slots : Used(s) => (held[s].pos \in seen' <=> held[s].pos \in seen),
         \A s \in Slots : /\ held'[s].pos = held[s].pos /\ held'[s].cancelled = held[s].cancelled
                          /\ held'[s].status = "UNDECIDED" <=> held[s].status = "UNDECIDED",
         \A s \in Slots : held[s].cancelled => \A x \in Items' : \E y \in Items : y.key = x.key,
         \A s \in Slots : Finishing(s) => Finishing(s)',
         \A i \in EventCells' : Low(i)' =>
           \/ i \in EventCells /\ Low(i) /\ captured'[i].key = captured[i].key
           \/ \A s \in Slots : Used(s) => captured'[i].key # held[s].pos
  PROVE  SlotsInv'
<1>1. UndecidedIsUnique'
  BY DEF SlotsInv, UndecidedIsUnique
<1>2. NoStaleTimer'
  BY DEF SlotsInv, NoStaleTimer
<1>3. OneSlotPerKey'
  BY DEF SlotsInv, OneSlotPerKey, Used
<1>4. SlotsReturn'
  BY DEF SlotsInv, SlotsReturn, Used
<1>5. CancelledDone'
  BY DEF SlotsInv, CancelledDone, Used
<1>6. OthersCaptured'
  BY DEF SlotsInv, OthersCaptured, Used
<1> QED
  BY <1>1, <1>2, <1>3, <1>4, <1>5, <1>6 DEF SlotsInv

\* The finish calls under way are below n.
LEMMA FinishBelow ==
  ASSUME Types, NEW n \in Levels, n = Height, Fr(n).op # "finish", NEW ops, NewCalls(n, ops),
         "finish" \notin ops
  PROVE  /\ \A d : (d \in Levels' /\ Fr(d)'.op = "finish") <=> (d \in Levels /\ Fr(d).op = "finish")
         /\ \A d \in Levels : Fr(d).op = "finish" => Fr(d)' = Fr(d) /\ Place(d)' = Place(d) /\ d < n
         /\ \A s : Finishing(s)' <=> Finishing(s)
<1>1. n \in Nat /\ Height' \in Nat /\ Height' >= n - 1 /\ \A d \in 1 .. n - 1 : Fr(d)' = Fr(d)
  BY FrameTypes DEF NewCalls, Kept
<1>2. \A d : d \in Levels /\ Fr(d).op = "finish" => d \in 1 .. n - 1
  BY <1>1 DEF Levels
<1>3. \A d : d \in Levels' /\ Fr(d)'.op = "finish" => d \in 1 .. n - 1
  BY <1>1 DEF Levels, NewCalls
<1>4. \A d \in 1 .. n - 1 : d \in Levels /\ d \in Levels' /\ d \in 1 .. n /\ d < n
  BY <1>1 DEF Levels
<1>5. \A d : (d \in Levels' /\ Fr(d)'.op = "finish") <=> (d \in Levels /\ Fr(d).op = "finish")
  BY <1>1, <1>2, <1>3, <1>4
<1>6. \A d \in Levels : Fr(d).op = "finish" => Fr(d)' = Fr(d) /\ Place(d)' = Place(d) /\ d < n
  BY <1>1, <1>2, <1>4, PlaceKept
<1>7. \A s : Finishing(s)' <=> Finishing(s)
  BY <1>5, <1>6 DEF Finishing
<1> QED
  BY <1>5, <1>6, <1>7

\* ... and stay what they were while their slots, timers and events do.
LEMMA FinishStay ==
  ASSUME Types, FinishInv, NEW n \in Levels, n = Height, Fr(n).op # "finish",
         NEW ops, NewCalls(n, ops), "finish" \notin ops,
         \A d \in Levels : Fr(d).op = "finish" =>
           /\ held'[Fr(d).s].pos = held[Fr(d).s].pos /\ timer'[Fr(d).s] = timer[Fr(d).s]
           /\ held[Fr(d).s].pos \in seen' => held[Fr(d).s].pos \in seen
           /\ ToDecide(d)' \/ Fr(d).s # undecided'
           /\ \A x \in Items' : x.key = held[Fr(d).s].pos =>
                                  \E y \in Items : y.key = x.key /\ y.at = x.at
  PROVE  FinishInv'
<1> SUFFICES ASSUME NEW d \in Levels', Fr(d)'.op = "finish"
             PROVE  /\ held'[Fr(d)'.s].pos # NoPos /\ held'[Fr(d)'.s].pos \notin seen'
                    /\ Fr(d)'.moment = "TIMER_EVENT" => d = 1 /\ timer'[Fr(d)'.s]
                    /\ Fr(d)'.moment # "TIMER_EVENT" => ~timer'[Fr(d)'.s]
                    /\ ~ToDecide(d)' => Fr(d)'.s # undecided'
                    /\ \A x \in Items' : x.key = held'[Fr(d)'.s].pos => Place(d)' < x.at
                    /\ \A e \in Levels' : Fr(e)'.op = "finish" /\ Fr(e)'.s = Fr(d)'.s => e = d
  BY DEF FinishInv, Used
<1>1. d \in Levels /\ Fr(d).op = "finish" /\ Fr(d)' = Fr(d) /\ Place(d)' = Place(d)
  BY FinishBelow
<1>2. PICK s : s = Fr(d).s /\ s = Fr(d)'.s
  BY <1>1
<1>3. /\ Used(s) /\ held[s].pos \notin seen
      /\ Fr(d).moment = "TIMER_EVENT" => d = 1 /\ timer[s]
      /\ Fr(d).moment # "TIMER_EVENT" => ~timer[s]
      /\ \A x \in Items : x.key = held[s].pos => Place(d) < x.at
      /\ \A e \in Levels : Fr(e).op = "finish" /\ Fr(e).s = s => e = d
  BY <1>1, <1>2 DEF FinishInv
<1>4. /\ held'[s].pos = held[s].pos /\ timer'[s] = timer[s]
      /\ held[s].pos \in seen' => held[s].pos \in seen
      /\ ToDecide(d)' \/ s # undecided'
      /\ \A x \in Items' : x.key = held[s].pos => \E y \in Items : y.key = x.key /\ y.at = x.at
  BY <1>1, <1>2
<1>5. \A e \in Levels' : Fr(e)'.op = "finish" => e \in Levels /\ Fr(e).op = "finish" /\ Fr(e)' = Fr(e)
  BY FinishBelow
<1>6. held'[s].pos # NoPos /\ held'[s].pos \notin seen'
  BY <1>3, <1>4 DEF Used
<1>7. \A x \in Items' : x.key = held'[s].pos => Place(d)' < x.at
  BY <1>1, <1>3, <1>4
<1>8. \A e \in Levels' : Fr(e)'.op = "finish" /\ Fr(e)'.s = s => e = d
  BY <1>3, <1>5
<1> QED
  BY <1>1, <1>2, <1>3, <1>4, <1>6, <1>7, <1>8

\* Under what is neither a decision nor a replay, no press is on its way to its decision.
LEMMA PressBelow ==
  ASSUME Types, PressInv, NEW n \in Levels, n = Height, Fr(n).op \notin {"decide", "release"},
         NEW d \in 1 .. n - 1
  PROVE  /\ d \in Levels /\ Fr(d).op # "schedule"
         /\ ~(Fr(d).op = "decide" /\ Fr(d).moment = "KEY_DOWN")
         /\ Fr(d).op = "decide" => Fr(d).moment = "KEY_UP"
<1>1. n \in Nat /\ d \in Nat /\ d # Height /\ d \in Levels /\ d + 1 \in Levels /\ d + 1 \in Nat
  BY FrameTypes DEF Levels
<1>2. ASSUME NEW e \in Levels, e # Height, Fr(e).op = "decide", Fr(e).moment = "KEY_DOWN"
      PROVE  FALSE
  <2>1. e + 1 = Height /\ Fr(e + 1).op \in {"decide", "release"}
    BY <1>2 DEF PressInv
  <2> QED
    BY <2>1
<1>3. Fr(d).op # "schedule"
  <2> SUFFICES ASSUME Fr(d).op = "schedule"
               PROVE  FALSE
    OBVIOUS
  <2>1. Fr(d + 1).op = "decide" /\ Fr(d + 1).moment = "KEY_DOWN"
    BY <1>1 DEF PressInv
  <2> QED
    BY <1>1, <1>2, <2>1
<1>4. Fr(d).op = "decide" => Fr(d).moment = "KEY_UP"
  <2>1. Fr(d).moment \in Moments
    BY <1>1, FrameTypes DEF Frames
  <2> QED
    BY <1>1, <1>2, <2>1, FrameTypes DEF FrameShape, DecideShape, Moments
<1> QED
  BY <1>1, <1>2, <1>3, <1>4

\* A decision at a release is about a slot that the finish below it has.
LEMMA KeyUpUsed ==
  ASSUME FinishInv, NEW d \in Levels, DecideShape(d), Fr(d).op = "decide", Fr(d).moment = "KEY_UP",
         Height \in Nat
  PROVE  Used(Fr(d).s)
<1>1. d - 1 \in Levels /\ Fr(d - 1).op = "finish" /\ Fr(d - 1).s = Fr(d).s
  BY DEF DecideShape, Returns, Levels
<1> QED
  BY <1>1 DEF FinishInv

LEMMA PressStay ==
  ASSUME Types, PressInv, NEW n \in Levels, n = Height, Fr(n).op \notin {"decide", "release"},
         NEW ops, NewCalls(n, ops), FinishInv', Shape',
         \A d \in n .. Height' :
           /\ Fr(d)'.op # "schedule" /\ ~(Fr(d)'.op = "decide" /\ Fr(d)'.moment = "KEY_DOWN")
           /\ Fr(d)'.op = "decide" => Used(Fr(d).s)'
  PROVE  PressInv'
<1>1. n \in Nat /\ Height' \in Nat /\ Height' >= n - 1 /\ \A d \in 1 .. n - 1 : Fr(d)' = Fr(d)
  BY FrameTypes DEF NewCalls, Kept
<1>2. ASSUME NEW d \in Levels'
      PROVE  /\ Fr(d)'.op # "schedule" /\ ~(Fr(d)'.op = "decide" /\ Fr(d)'.moment = "KEY_DOWN")
             /\ Fr(d)'.op = "decide" => Used(Fr(d).s)'
  <2>1. d \in 1 .. n - 1 \/ d \in n .. Height'
    BY <1>1 DEF Levels
  <2>2. CASE d \in 1 .. n - 1
    <3>1. /\ Fr(d)'.op # "schedule" /\ ~(Fr(d)'.op = "decide" /\ Fr(d)'.moment = "KEY_DOWN")
          /\ Fr(d)'.op = "decide" => Fr(d)'.moment = "KEY_UP"
      BY <1>1, <2>2, PressBelow
    <3>2. FrameShape(d)'
      BY DEF Shape
    <3>3. Fr(d)'.op = "decide" => Used(Fr(d).s)'
      <4> SUFFICES ASSUME Fr(d)'.op = "decide"
                   PROVE  Used(Fr(d).s)'
        OBVIOUS
      <4>1. DecideShape(d)' /\ Fr(d)'.moment = "KEY_UP"
        BY <3>1, <3>2 DEF FrameShape
      <4>2. d - 1 \in Levels' /\ Fr(d - 1)'.op = "finish" /\ Fr(d - 1)'.s = Fr(d)'.s
        BY <1>1, <4>1 DEF DecideShape, Returns, Levels
      <4> QED
        BY <4>2 DEF FinishInv
    <3> QED
      BY <3>1, <3>3
  <2>3. CASE d \in n .. Height'
    BY <2>3
  <2> QED
    BY <2>1, <2>2, <2>3
<1> QED
  BY <1>2 DEF PressInv

LEMMA InvokeNone ==
  ASSUME Types, NEW n \in Levels, n = Height, NEW ops, NewCalls(n, ops), "invoke" \notin ops
  PROVE  InvokeInv' /\ InvokeRoom' /\ \A d \in Levels' : Fr(d)'.op # "invoke"
<1>1. n \in Nat /\ Height' \in Nat /\ Height' >= n - 1 /\ \A d \in 1 .. n - 1 : Fr(d)' = Fr(d)
  BY FrameTypes DEF NewCalls, Kept
<1>2. ASSUME NEW d \in Levels'
      PROVE  Fr(d)'.op # "invoke"
  <2>1. CASE d \in 1 .. n - 1
    <3>1. d \in Levels /\ d # Height /\ Fr(d)' = Fr(d)
      BY <1>1, <2>1 DEF Levels
    <3>2. Fr(d).op # "invoke"
      BY <3>1, FrameTypes DEF FrameShape
    <3> QED
      BY <3>1, <3>2
  <2>2. CASE d \notin 1 .. n - 1
    <3>1. d \in n .. Height'
      BY <1>1, <2>2 DEF Levels
    <3> QED
      BY <3>1 DEF NewCalls
  <2> QED
    BY <2>1, <2>2
<1> QED
  BY <1>2 DEF InvokeInv, InvokeRoom

LEMMA ListenRoomStay ==
  ASSUME Types, ListenRoom, NEW n \in Levels, n = Height, NEW ops, NewCalls(n, ops),
         \A d \in n .. Height' : Fr(d)'.op = "listen" => d = n /\ (n > 1 => Fr(n - 1).s >= 3)
  PROVE  ListenRoom'
<1>1. n \in Nat /\ Height' \in Nat /\ Height' >= n - 1 /\ \A d \in 1 .. n - 1 : Fr(d)' = Fr(d)
  BY FrameTypes DEF NewCalls, Kept
<1> SUFFICES ASSUME NEW d \in Levels', Fr(d)'.op = "listen", d > 1
             PROVE  Fr(d - 1)'.s >= 3
  BY DEF ListenRoom
<1>2. CASE d \in 1 .. n - 1
  <2>1. d \in Levels /\ Fr(d)' = Fr(d) /\ d - 1 \in 1 .. n - 1 /\ Fr(d - 1)' = Fr(d - 1)
    BY <1>1, <1>2 DEF Levels
  <2> QED
    BY <2>1 DEF ListenRoom
<1>3. CASE d \notin 1 .. n - 1
  <2>1. d \in n .. Height'
    BY <1>1, <1>3 DEF Levels
  <2>2. d = n /\ Fr(n - 1).s >= 3 /\ n - 1 \in 1 .. n - 1
    BY <1>1, <2>1
  <2> QED
    BY <1>1, <2>2
<1> QED
  BY <1>2, <1>3

LEMMA OwnSilentStay ==
  ASSUME Types, NEW n \in Levels, n = Height, NEW ops, NewCalls(n, ops),
         \A d \in n .. Height' : d > 1 /\ Fr(d)'.op = "decide" => Fr(d - 1)'.op # "listen"
  PROVE  OwnSilent'
<1>1. n \in Nat /\ Height' \in Nat /\ Height' >= n - 1 /\ \A d \in 1 .. n - 1 : Fr(d)' = Fr(d)
  BY FrameTypes DEF NewCalls, Kept
<1>2. ASSUME NEW d \in Levels', d > 1, Fr(d)'.op = "decide", Fr(d - 1)'.op = "listen"
      PROVE  FALSE
  <2>1. CASE d \in 1 .. n - 1
    <3>1. d \in Levels /\ d # Height /\ Fr(d)' = Fr(d) /\ d - 1 \in 1 .. n - 1 /\ Fr(d - 1)' = Fr(d - 1)
      BY <1>1, <1>2, <2>1 DEF Levels
    <3>2. DecideShape(d) /\ Fr(d - 1).op = "listen" /\ Fr(d).moment \in Moments
      BY <1>2, <3>1, FrameTypes DEF FrameShape, Frames
    <3> QED
      BY <3>1, <3>2 DEF DecideShape, Returns, Moments
  <2>2. CASE d \notin 1 .. n - 1
    <3>1. d \in n .. Height'
      BY <1>1, <2>2 DEF Levels
    <3> QED
      BY <1>2, <3>1
  <2> QED
    BY <2>1, <2>2
<1> QED
  BY <1>2 DEF OwnSilent

\* The call whose event ended the silence stays the same one.
LEMMA EndsStay ==
  ASSUME Types, NEW n \in Levels, n = Height, NEW ops, NewCalls(n, ops),
         \/ Fr(n).op \notin EndOps /\ ops \cap EndOps = {}
         \/ /\ Fr(n).op \in EndOps /\ Height' >= n /\ Fr(n)'.op \in EndOps /\ KeyAt(n)' = KeyAt(n)
            /\ \A d \in n + 1 .. Height' : Fr(d)'.op \notin EndOps,
         \A d \in Levels : Fr(d).op = "finish" => held'[Fr(d).s].pos = held[Fr(d).s].pos,
         NEW s, held'[s].pos = held[s].pos, Ends(s)
  PROVE  Ends(s)'
<1>1. n \in Nat /\ Height' \in Nat /\ Height' >= n - 1 /\ \A d \in 1 .. n - 1 : Fr(d)' = Fr(d)
  BY FrameTypes DEF NewCalls, Kept
<1>2. PICK d \in Levels : TopEnd(d) /\ held[s].pos = KeyAt(d)
  BY DEF Ends
<1>3. d \in Nat /\ d >= 1 /\ d <= n
  BY <1>1 DEF Levels
<1>4. CASE Fr(n).op \notin EndOps /\ ops \cap EndOps = {}
  <2>1. d # n /\ d \in 1 .. n - 1 /\ d \in Levels' /\ Fr(d)' = Fr(d)
    BY <1>1, <1>2, <1>3, <1>4 DEF TopEnd, Levels
  <2>2. \A e \in d + 1 .. Height' : Fr(e)'.op \notin EndOps
    <3> TAKE e \in d + 1 .. Height'
    <3>1. e \in d + 1 .. n - 1 \/ e \in n .. Height'
      BY <1>1, <1>3, <2>1
    <3>2. e \in d + 1 .. n - 1 => e \in 1 .. n - 1 /\ e \in d + 1 .. Height
      BY <1>1, <1>3
    <3>3. e \in d + 1 .. n - 1 => Fr(e)'.op \notin EndOps
      BY <1>1, <1>2, <3>2 DEF TopEnd
    <3>4. e \in n .. Height' => Fr(e)'.op \notin EndOps
      BY <1>4 DEF NewCalls
    <3> QED
      BY <3>1, <3>3, <3>4
  <2>3. KeyAt(d)' = KeyAt(d)
    BY <2>1 DEF KeyAt
  <2> QED
    BY <1>2, <2>1, <2>2, <2>3 DEF Ends, TopEnd
<1>5. CASE /\ Fr(n).op \in EndOps /\ Height' >= n /\ Fr(n)'.op \in EndOps /\ KeyAt(n)' = KeyAt(n)
           /\ \A e \in n + 1 .. Height' : Fr(e)'.op \notin EndOps
  <2>1. d = n
    <3>1. d < n => n \in d + 1 .. Height
      BY <1>1, <1>3
    <3> QED
      BY <1>2, <1>3, <1>5, <3>1, <1>1 DEF TopEnd
  <2>2. n \in Levels'
    BY <1>1, <1>5 DEF Levels
  <2> QED
    BY <1>2, <1>5, <2>1, <2>2 DEF Ends, TopEnd
<1> QED
  BY <1>4, <1>5

LEMMA TopEnds ==
  ASSUME Types, NEW n \in Levels, n = Height, Fr(n).op \in EndOps, NEW s
  PROVE  Ends(s) <=> held[s].pos = KeyAt(n)
<1>1. n \in Nat /\ \A e \in n + 1 .. Height : FALSE
  BY FrameTypes
<1>2. \A d \in Levels : TopEnd(d) => d = n
  <2> TAKE d \in Levels
  <2>1. d \in Nat /\ d <= n /\ (d < n => n \in d + 1 .. Height)
    BY <1>1 DEF Levels
  <2> QED
    BY <1>1, <2>1 DEF TopEnd
<1>3. TopEnd(n)
  BY <1>1 DEF TopEnd
<1> QED
  BY <1>2, <1>3 DEF Ends
-----------------------------------------------------------------------------
(* RaisePosition *)

LEMMA EventOfTop ==
  ASSUME Types, NEW op \in EventOps, Running(op), Head(stack).ev.t = "pos"
  PROVE  /\ Height \in EventFrames /\ Fr(Height).ev = Head(stack).ev /\ Fr(Height).op = op
         /\ Head(stack).ev \in Event /\ EventOK(Head(stack).ev) /\ OnRelease(Height)
         /\ Height \in Levels /\ Height \in Nat /\ Height >= 1
         /\ stack \in Seq(Frames) /\ stack # <<>>
<1>1. Height \in Levels /\ Fr(Height) = Head(stack) /\ Fr(Height).op = op /\ FrameShape(Height)
      /\ stack \in Seq(Frames) /\ stack # <<>> /\ Height \in Nat
  BY Top
<1> QED
  BY <1>1 DEF EventFrames, FrameShape, EventOK, Levels

\* What update_hold_status_for_retro_tap and the listener make of the slots
LEMMA RaiseHeld ==
  ASSUME Types, RaisePosition
  PROVE  /\ \A s \in Slots :
              /\ held'[s].pos = held[s].pos /\ held'[s].cancelled = held[s].cancelled
              /\ held'[s].ts = held[s].ts
              /\ held'[s].status = IF s \in RetroSlots(Head(stack).ev.key)
                                   THEN "HOLD_INTERRUPT" ELSE held[s].status
         /\ held' \in [Slots -> [pos : HoldTaps \cup {NoPos}, status : Statuses, ts : Nat,
                                 first : Positions \cup {NoPos}, cancelled : BOOLEAN]]
<1> DEFINE ev == Head(stack).ev
           u == undecided
           H == [pos : HoldTaps \cup {NoPos}, status : Statuses, ts : Nat,
                 first : Positions \cup {NoPos}, cancelled : BOOLEAN]
           R == RetroSlots(ev.key)
           updated == [s \in Slots |-> IF s \in R
                                       THEN [held[s] EXCEPT !.status = "HOLD_INTERRUPT"]
                                       ELSE held[s]]
<1>1. held' = updated \/ (u # 0 /\ held' = [updated EXCEPT ![u].first = ev.key])
  BY DEF RaisePosition
<1>2. held \in [Slots -> H] /\ u \in 0 .. MaxHeld /\ (u # 0 => u \in Slots)
  BY Constants DEF Types, TypeOK, Slots
<1>3. ev.key \in Positions
  BY EventOfTop DEF RaisePosition, EventOps, EventOK
<1> HIDE DEF R, u, ev
<1>4. updated \in [Slots -> H]
  BY <1>2 DEF Statuses
<1>5. \A s \in Slots : /\ updated[s].pos = held[s].pos /\ updated[s].cancelled = held[s].cancelled
                       /\ updated[s].ts = held[s].ts
                       /\ updated[s].status = IF s \in R THEN "HOLD_INTERRUPT" ELSE held[s].status
  BY <1>2
<1> HIDE DEF updated
<1>6. CASE held' = updated
  BY <1>4, <1>5, <1>6 DEF R, ev
<1>7. CASE u # 0 /\ held' = [updated EXCEPT ![u].first = ev.key]
  <2>1. held' = [updated EXCEPT ![u] = [updated[u] EXCEPT !.first = ev.key]] /\ u \in Slots
    BY <1>2, <1>4, <1>7
  <2>2. held' \in [Slots -> H]
    BY <1>3, <1>4, <2>1
  <2>3. \A s \in Slots : /\ held'[s].pos = updated[s].pos /\ held'[s].cancelled = updated[s].cancelled
                         /\ held'[s].ts = updated[s].ts /\ held'[s].status = updated[s].status
    BY <1>4, <2>1
  <2> QED
    BY <1>5, <2>2, <2>3 DEF R, ev
<1> QED
  BY <1>1, <1>6, <1>7

LEMMA FramesAre ==
  /\ \A ev \in Event : /\ Raise(ev) \in Frames /\ Raise(ev).op = "raise" /\ Raise(ev).ev = ev
                       /\ Listen(ev) \in Frames /\ Listen(ev).op = "listen" /\ Listen(ev).ev = ev
                       /\ Invoke(ev) \in Frames /\ Invoke(ev).op = "invoke" /\ Invoke(ev).ev = ev
  /\ \A s \in Nat, m \in Moments, ev \in Event :
       /\ Decide(s, m, ev) \in Frames /\ Decide(s, m, ev).op = "decide" /\ Decide(s, m, ev).s = s
       /\ Decide(s, m, ev).moment = m
       /\ Finish(s, m) \in Frames /\ Finish(s, m).op = "finish" /\ Finish(s, m).s = s
       /\ Finish(s, m).moment = m
       /\ Schedule(s) \in Frames /\ Schedule(s).op = "schedule" /\ Schedule(s).s = s
       /\ Release(s) \in Frames /\ Release(s).op = "release" /\ Release(s).s = s
  /\ NoEvent \in Event
BY DEF Raise, Listen, Invoke, Decide, Finish, Schedule, Release, Frame, Frames, Moments, Event, NoEvent

LEMMA RaiseCalls ==
  ASSUME Types, RaisePosition, NEW n, n = Height, NEW ev, ev = Head(stack).ev, NEW u, u = undecided
  PROVE  /\ NewCalls(n, {"invoke", "listen", "decide"}) /\ Height' >= n /\ Fr(n)'.ev = ev
         /\ \/ Height' = n /\ Fr(n)' = Invoke(ev) /\ (u = 0 \/ held[u].pos = ev.key)
            \/ /\ u # 0 /\ held[u].pos # ev.key /\ Fr(n)' = Listen(ev)
               /\ Height' = n \/ (Height' = n + 1 /\ Fr(n + 1)' = Decide(u, "TIMER_EVENT", ev))
<1>1. /\ n \in Nat /\ n >= 1 /\ stack \in Seq(Frames) /\ stack # <<>> /\ ev \in Event /\ u \in Nat
  BY EventOfTop, Constants DEF RaisePosition, EventOps, Types, TypeOK
<1>2. /\ Invoke(ev) \in Frames /\ Invoke(ev).op = "invoke" /\ Invoke(ev).ev = ev
      /\ Listen(ev) \in Frames /\ Listen(ev).op = "listen" /\ Listen(ev).ev = ev
      /\ Decide(u, "TIMER_EVENT", ev) \in Frames /\ Decide(u, "TIMER_EVENT", ev).op = "decide"
  <2>1. Invoke(ev) \in Frames /\ Invoke(ev).op = "invoke" /\ Invoke(ev).ev = ev
    BY <1>1 DEF Invoke, Frame, Frames, Moments
  <2>2. Listen(ev) \in Frames /\ Listen(ev).op = "listen" /\ Listen(ev).ev = ev
    BY <1>1 DEF Listen, Frame, Frames, Moments
  <2>3. Decide(u, "TIMER_EVENT", ev) \in Frames /\ Decide(u, "TIMER_EVENT", ev).op = "decide"
    BY <1>1 DEF Decide, Frame, Frames, Moments
  <2> QED
    BY <2>1, <2>2, <2>3
<1>3. \/ Call(<<Invoke(ev)>>) /\ (u = 0 \/ held[u].pos = ev.key)
      \/ u # 0 /\ held[u].pos # ev.key /\ Call(<<Listen(ev)>>)
      \/ u # 0 /\ held[u].pos # ev.key /\ Call(<<Decide(u, "TIMER_EVENT", ev), Listen(ev)>>)
  BY DEF RaisePosition
<1>4. CASE Call(<<Invoke(ev)>>) /\ (u = 0 \/ held[u].pos = ev.key)
  <2>1. Becomes(n, Invoke(ev))
    BY <1>1, <1>2, <1>4, Calls1
  <2>2. NewCalls(n, {"invoke"})
    BY <1>1, <1>2, <2>1, NewCallsAre
  <2> QED
    BY <1>1, <1>2, <1>4, <2>1, <2>2 DEF Becomes, NewCalls
<1>5. CASE u # 0 /\ held[u].pos # ev.key /\ Call(<<Listen(ev)>>)
  <2>1. Becomes(n, Listen(ev))
    BY <1>1, <1>2, <1>5, Calls1
  <2>2. NewCalls(n, {"listen"})
    BY <1>1, <1>2, <2>1, NewCallsAre
  <2> QED
    BY <1>1, <1>2, <1>5, <2>1, <2>2 DEF Becomes, NewCalls
<1>6. CASE u # 0 /\ held[u].pos # ev.key /\ Call(<<Decide(u, "TIMER_EVENT", ev), Listen(ev)>>)
  <2>1. Becomes2(n, Decide(u, "TIMER_EVENT", ev), Listen(ev))
    BY <1>1, <1>2, <1>6, Calls2
  <2>2. NewCalls(n, {"decide", "listen"})
    BY <1>1, <1>2, <2>1, NewCallsAre
  <2> QED
    BY <1>1, <1>2, <1>6, <2>1, <2>2 DEF Becomes2, NewCalls
<1> QED
  BY <1>3, <1>4, <1>5, <1>6

\* The silent hold-taps that are left are of the key itself.
LEMMA RaiseSilents ==
  ASSUME Types, RaisePosition
  PROVE  /\ \A s \in Silents' : s \in Silents /\ held[s].pos = Head(stack).ev.key
         /\ Cardinality(Silents') + Cardinality(RetroSlots(Head(stack).ev.key)) = Cardinality(Silents)
         /\ Silents' \subseteq Slots
         /\ Cardinality(Silents') \in Nat /\ Cardinality(RetroSlots(Head(stack).ev.key)) \in Nat
<1> DEFINE p == Head(stack).ev.key
           R == RetroSlots(p)
<1>1. config' = config
  BY DEF RaisePosition
<1>2. \A s \in Slots : Used(s)' = Used(s) /\ Cfg(s)' = Cfg(s)
  BY <1>1, RaiseHeld DEF Used, Cfg
<1>3. \A s \in Slots : held'[s].status = IF s \in R THEN "HOLD_INTERRUPT" ELSE held[s].status
  BY RaiseHeld
<1>4. R \subseteq Silents
  BY DEF RetroSlots, Silents, Used
<1>5. Silents' = Silents \ R
  <2>1. \A s \in Slots : Silent(s, held[s].status)' <=> (Cfg(s).retroTap /\ held'[s].status = "HOLD_TIMER")
    BY <1>2 DEF Silent
  <2>2. \A s \in Slots : Silent(s, held[s].status) <=> (Cfg(s).retroTap /\ held[s].status = "HOLD_TIMER")
    BY DEF Silent
  <2> HIDE DEF R
  <2>3. \A s \in Slots : (Used(s)' /\ Silent(s, held[s].status)') <=> (s \notin R /\ Used(s) /\ Silent(s, held[s].status))
    BY <1>2, <1>3, <2>1, <2>2
  <2> QED
    BY <2>3 DEF Silents
<1>6. \A s \in Silents \ R : held[s].pos = p
  BY DEF RetroSlots, Silents, Used
<1>7. IsFiniteSet(Silents) /\ IsFiniteSet(R) /\ IsFiniteSet(Silents') /\ Silents \subseteq Slots
  BY <1>4, <1>5, Constants, FS_Subset DEF Silents
<1> HIDE DEF R
<1>8. Silents \cap R = R
  BY <1>4
<1>9. Cardinality(Silents') = Cardinality(Silents) - Cardinality(R)
  <2>1. PICK S : S = Silents
    OBVIOUS
  <2>2. Cardinality(S \ R) = Cardinality(S) - Cardinality(S \cap R)
    BY <1>7, <2>1, FS_Difference, Zenon
  <2> QED
    BY <1>5, <1>8, <2>1, <2>2
<1>10. Cardinality(Silents) \in Nat /\ Cardinality(R) \in Nat /\ Cardinality(Silents') \in Nat
  BY <1>7, FS_CardinalityType
<1> QED
  BY <1>5, <1>6, <1>7, <1>9, <1>10 DEF R

LEMMA TypesAfter ==
  ASSUME Types, IOTypes', stack' \in Seq(Frames), Shape',
         held' \in [Slots -> [pos : HoldTaps \cup {NoPos}, status : Statuses, ts : Nat,
                              first : Positions \cup {NoPos}, cancelled : BOOLEAN]],
         timer' \in [Slots -> BOOLEAN], undecided' \in 0 .. MaxHeld, seen' \subseteq Positions,
         typed' \in Seq(Positions), config' = config, now' \in 0 .. MaxTime,
         down' \subseteq Positions, presses' \in 0 .. MaxPresses
  PROVE  Types'
<1>1. CapturedOK'
  BY DEF IOTypes
<1>2. TypeOK'
  BY DEF IOTypes, Types, TypeOK, Frames
<1> QED
  BY <1>1, <1>2 DEF Types

LEMMA OnReleaseStays ==
  ASSUME Types, NEW n \in Levels, n = Height, NEW ops, NewCalls(n, ops), OnRelease(n)
  PROVE  OnRelease(n)' /\ (n > 1 => IsRelease(n - 1)')
<1>1. n \in Nat /\ n >= 1 /\ Height' \in Nat /\ Height' >= n - 1 /\ \A d \in 1 .. n - 1 : Fr(d)' = Fr(d)
  BY FrameTypes DEF NewCalls, Kept, Levels
<1>2. CASE n = 1
  BY <1>2 DEF OnRelease
<1>3. CASE n > 1
  <2>1. n - 1 \in 1 .. n - 1 /\ n - 1 \in Levels'
    BY <1>1, <1>3 DEF Levels
  <2>2. IsRelease(n - 1)
    BY <1>3 DEF OnRelease
  <2>3. Fr(n - 1)' = Fr(n - 1)
    BY <1>1, <2>1
  <2>4. IsRelease(n - 1)'
    BY <2>1, <2>2, <2>3 DEF IsRelease
  <2> QED
    BY <2>4 DEF OnRelease
<1> QED
  BY <1>1, <1>2, <1>3

LEMMA RaiseTypes ==
  ASSUME Types, RaisePosition, lost' = {}
  PROVE  /\ Types' /\ Shape'
         /\ Collects(Cardinality(RetroSlots(Head(stack).ev.key)))
<1> DEFINE ev == Head(stack).ev
           m == Cardinality(RetroSlots(ev.key))
<1>0. PICK n : n = Height
  OBVIOUS
<1>1. /\ n \in EventFrames /\ Fr(n).ev = ev /\ ev \in Event /\ EventOK(ev) /\ OnRelease(n)
      /\ n \in Levels /\ n \in Nat /\ n >= 1
  BY <1>0, EventOfTop DEF RaisePosition, EventOps
<1>2. ev.t = "pos" /\ SetIO(PressRetro(ev.key))
  BY DEF RaisePosition
<1>3. Collects(m)
  <2>1. PICK io : io = PressRetro(ev.key)
    OBVIOUS
  <2>2. Emitted(IO, io, m) /\ (undecided = 0 => SameEvents(IO, io))
    BY <2>1, RetroEmits
  <2>3. SetIO(io)
    BY <1>2, <2>1
  <2> HIDE DEF m
  <2> QED
    BY <2>2, <2>3, SetIOCollects
<1>4. /\ NewCalls(n, {"invoke", "listen", "decide"}) /\ Height' >= n /\ Fr(n)'.ev = ev
      /\ \/ Height' = n /\ Fr(n)' = Invoke(ev)
         \/ /\ undecided # 0 /\ Fr(n)' = Listen(ev)
            /\ Height' = n \/ (Height' = n + 1 /\ Fr(n + 1)' = Decide(undecided, "TIMER_EVENT", ev))
  <2>1. PICK u : u = undecided
    OBVIOUS
  <2>2. PICK e : e = ev
    OBVIOUS
  <2>3. /\ NewCalls(n, {"invoke", "listen", "decide"}) /\ Height' >= n /\ Fr(n)'.ev = e
        /\ \/ Height' = n /\ Fr(n)' = Invoke(e)
           \/ /\ u # 0 /\ Fr(n)' = Listen(e)
              /\ Height' = n \/ (Height' = n + 1 /\ Fr(n + 1)' = Decide(u, "TIMER_EVENT", e))
    BY <1>0, <2>1, <2>2, RaiseCalls
  <2> QED
    BY <2>1, <2>2, <2>3
<1> HIDE DEF ev
<1>5. OnRelease(n)'
  BY <1>0, <1>1, <1>4, OnReleaseStays
<1>6. Invoke(ev).op = "invoke" /\ Listen(ev).op = "listen"
  BY <1>1, FramesAre
<1>7. FrameShape(n)'
  BY <1>1, <1>2, <1>4, <1>5, <1>6 DEF FrameShape, EventOps
<1>8. ASSUME Height' = n + 1, Fr(n + 1)' = Decide(undecided, "TIMER_EVENT", ev), undecided # 0,
             Fr(n)' = Listen(ev)
      PROVE  FrameShape(n + 1)'
  <2>1. undecided \in Slots /\ undecided \in Nat
    BY <1>8, Constants DEF Types, TypeOK, Slots
  <2>2. Fr(n + 1)'.op = "decide" /\ Fr(n + 1)'.moment = "TIMER_EVENT" /\ Fr(n + 1)'.s = undecided
    BY <1>1, <1>8, <2>1, FramesAre DEF Moments
  <2>3. PICK k : k = n + 1
    OBVIOUS
  <2>4. k > 1 /\ k - 1 = n /\ Fr(k - 1)'.op = "listen" /\ k = Height'
    BY <1>1, <1>6, <1>8, <2>3
  <2>5. Fr(k)'.op = "decide" /\ Fr(k)'.moment = "TIMER_EVENT" /\ Fr(k)'.s \in Slots
    BY <2>1, <2>2, <2>3
  <2>6. DecideShape(k)'
    BY <2>4, <2>5 DEF DecideShape
  <2>7. FrameShape(k)'
    BY <2>5, <2>6 DEF FrameShape, EventOps
  <2> QED
    BY <2>3, <2>7
<1>9. \A d \in n .. Height' : FrameShape(d)'
  <2> TAKE d \in n .. Height'
  <2>1. d = n \/ (d = n + 1 /\ Height' = n + 1)
    BY <1>1, <1>4
  <2> QED
    BY <1>4, <1>7, <1>8, <2>1
<1>10. Shape'
  BY <1>0, <1>1, <1>4, <1>9, ShapeNew
<1>11. stack' \in Seq(Frames) /\ IOTypes'
  BY <1>3, <1>4 DEF NewCalls, Collects
<1>12. UNCHANGED <<config, now, undecided, timer, down, presses, seen, typed>>
  BY DEF RaisePosition
<1>13. Types'
  BY <1>10, <1>11, <1>12, RaiseHeld, TypesAfter DEF Types, TypeOK
<1> QED
  BY <1>3, <1>10, <1>13 DEF ev

\* The place the event came from stays free, with room for the event and the silent keycodes.
LEMMA RaiseRoom ==
  ASSUME Types, CellsInv, RoomInv, RaisePosition, lost' = {}, NEW n, n = Height
  PROVE  /\ undecided # 0 /\ n > 1 =>
              /\ Free(captured', Fr(n - 1).s, Cardinality(Silents') + 2)
              /\ captured'[Place(n)] = NoEvent
              /\ Fr(n - 1).s >= 3
         /\ CellsInv' /\ RoomLeft' /\ ListenRoom'
<1> DEFINE ev == Head(stack).ev
           m == Cardinality(RetroSlots(ev.key))
<1>1. n \in Levels /\ n \in Nat /\ n >= 1 /\ OnRelease(n) /\ Fr(n).op = "raise"
  BY EventOfTop DEF RaisePosition, EventOps
<1>2. Collects(m) /\ undecided' = undecided
  BY RaiseTypes DEF RaisePosition
<1>3. /\ NewCalls(n, {"invoke", "listen", "decide"}) /\ Height' >= n
      /\ \A d \in n .. Height' : Fr(d)'.op = "listen" => d = n /\ undecided # 0
  <2>1. PICK u : u = undecided
    OBVIOUS
  <2>2. PICK e : e = ev
    OBVIOUS
  <2>3. /\ NewCalls(n, {"invoke", "listen", "decide"}) /\ Height' >= n
        /\ \/ Height' = n /\ Fr(n)' = Invoke(e)
           \/ /\ u # 0 /\ Fr(n)' = Listen(e)
              /\ Height' = n \/ (Height' = n + 1 /\ Fr(n + 1)' = Decide(u, "TIMER_EVENT", e))
    BY <2>1, <2>2, RaiseCalls
  <2>4. e \in Event /\ u \in Nat
    BY <2>1, <2>2, EventOfTop, Constants DEF RaisePosition, EventOps, Types, TypeOK
  <2>5. Invoke(e).op = "invoke" /\ Decide(u, "TIMER_EVENT", e).op = "decide"
    BY <2>4, FramesAre DEF Moments
  <2>6. \A d \in n .. Height' : d = n \/ (d = n + 1 /\ Height' = n + 1)
    BY <1>1, <2>3
  <2> QED
    BY <1>1, <2>1, <2>3, <2>5, <2>6
<1>4. /\ Cardinality(Silents') \in Nat /\ m \in Nat /\ Silents' \subseteq Slots
      /\ Cardinality(Silents') + m = Cardinality(Silents)
  BY RaiseSilents
<1> HIDE DEF m
<1>5. ASSUME undecided # 0, n > 1
      PROVE  /\ Free(captured', Fr(n - 1).s, Cardinality(Silents') + 2)
             /\ captured'[Place(n)] = NoEvent /\ Fr(n - 1).s >= 3
  <2>1. Free(captured, Fr(n - 1).s, Cardinality(Silents) + 2)
    BY <1>1, <1>5, RoomBefore DEF CellsInv, RoomInv, EventOps
  <2>2. PICK t \in Nat, k \in Nat, c \in Nat :
          /\ t = Fr(n - 1).s /\ k = Cardinality(Silents') /\ c = Cardinality(Silents)
          /\ t \in 1 .. MaxCaptured + 1
    BY <1>1, <1>4, <1>5, TopReleaseIs DEF CellsInv
  <2>3. Free(captured, t, (k + 2) + m)
    BY <1>4, <2>1, <2>2
  <2>4. Free(captured', t, k + 2)
    BY <1>2, <2>2, <2>3 DEF Collects, Takes
  <2>5. t - (k + 2) >= 1 /\ captured'[t - 1] = NoEvent
    BY <2>2, <2>4 DEF Free
  <2>6. t >= 3 /\ Place(n) = t - 1
    BY <1>1, <1>5, <2>2, <2>5 DEF Place
  <2> QED
    BY <2>2, <2>4, <2>5, <2>6
<1>6. CellsInv'
  <2>1. captured' = captured \/ (OnRelease(n) /\ (n > 1 => captured'[Place(n)] = NoEvent))
    BY <1>1, <1>2, <1>5 DEF Collects
  <2> QED
    BY <1>1, <1>2, <1>3, <2>1, CellsStay
<1>7. RoomLeft'
  BY <1>1, <1>2, <1>3, <1>4, <1>5, RoomAfter DEF CellsInv
<1>8. ListenRoom'
  BY <1>1, <1>3, <1>5, ListenRoomStay DEF RoomInv
<1> QED
  BY <1>5, <1>6, <1>7, <1>8

LEMMA RaiseFirst ==
  ASSUME Types, CellsInv, FinishInv, SlotsInv, RaisePosition, NEW n, n = Height,
         Fr(n)'.op = "invoke"
  PROVE  /\ \A x \in Items : x.key = Fr(n).ev.key => Place(n) <= x.at
         /\ FirstOf(Items, Own(n)) /\ n \in EventFrames
         /\ undecided = 0 \/ \E u \in Slots : Used(u) /\ u = undecided /\ held[u].pos = Fr(n).ev.key
<1>1. PICK u : u = undecided
  OBVIOUS
<1>2. PICK e : e = Head(stack).ev
  OBVIOUS
<1>3. /\ n \in EventFrames /\ n \in Levels /\ n \in Nat /\ Fr(n).ev = e /\ e \in Event
      /\ u \in Nat /\ (u # 0 => u \in Slots) /\ Fr(n).ev.key \in Positions
  <2>1. n \in EventFrames /\ n \in Levels /\ n \in Nat /\ Fr(n).ev = e /\ e \in Event
    BY <1>2, EventOfTop DEF RaisePosition, EventOps
  <2>2. u \in Nat /\ (u # 0 => u \in Slots)
    BY <1>1, Constants DEF Types, TypeOK, Slots
  <2> QED
    BY <2>1, <2>2, EventFrameIs
<1>4. \/ u = 0 \/ held[u].pos = e.key
      \/ u # 0 /\ Fr(n)' = Listen(e)
  BY <1>1, <1>2, RaiseCalls
<1>5. u = 0 \/ held[u].pos = e.key
  BY <1>3, <1>4, FramesAre
<1>6. CASE u = 0
  <2>1. \A x \in Items : Own(n).at <= x.at
    BY <1>1, <1>3, <1>6, FirstOfAll DEF CellsInv
  <2>2. Own(n).at = Place(n)
    BY <1>3, OwnIs DEF CellsInv
  <2> QED
    BY <1>1, <1>3, <1>6, <2>1, <2>2 DEF FirstOf
<1>7. CASE u # 0 /\ held[u].pos = e.key
  <2>1. Used(u)
    BY <1>1, <1>3, <1>7 DEF SlotsInv, UndecidedIsUnique, Used
  <2>2. \A i \in EventCells : Low(i) => captured[i].key # Fr(n).ev.key
    BY <1>3, <1>7, <2>1 DEF SlotsInv, OthersCaptured
  <2>3. /\ \A x \in Items : x.key = Fr(n).ev.key => Place(n) <= x.at
        /\ FirstOf(Items, Own(n))
    BY <1>3, <2>2, FirstOfKey DEF CellsInv
  <2> QED
    BY <1>1, <1>3, <1>7, <2>1, <2>3
<1> QED
  BY <1>5, <1>6, <1>7

\* A press that goes on to the keymap while a hold-tap is undecided would be of its key.
LEMMA RaisedPress ==
  ASSUME Types, CellsInv, FinishInv, SlotsInv, ItemsInv, RaisePosition, NEW n, n = Height,
         Fr(n)'.op = "invoke", Fr(n)'.ev.state
  PROVE  Cardinality(Silents') = 0 /\ undecided = 0
<1>1. Fr(n)'.ev = Fr(n).ev /\ Fr(n).ev = Head(stack).ev /\ n \in EventFrames
  <2>1. PICK e : e = Head(stack).ev
    OBVIOUS
  <2>2. PICK u : u = undecided
    OBVIOUS
  <2>3. Fr(n)'.ev = e
    BY <2>1, <2>2, RaiseCalls
  <2> QED
    BY <2>1, <2>3, EventOfTop DEF RaisePosition, EventOps
<1>2. \A s \in Slots : Used(s) => held[s].pos # Fr(n).ev.key
  BY <1>1, RaiseFirst, PressNotUsed DEF CellsInv
<1>3. undecided = 0
  BY <1>2, RaiseFirst
<1>4. \A s \in Silents' : s \in Silents /\ held[s].pos = Fr(n).ev.key
  BY <1>1, RaiseSilents
<1>5. Silents' = {}
  BY <1>2, <1>4 DEF Silents
<1> QED
  BY <1>3, <1>5, FS_EmptySet

LEMMA RaiseKeeps ==
  ASSUME Core, RaisePosition, lost' = {}
  PROVE  Core'
<1> DEFINE ev == Head(stack).ev
           m == Cardinality(RetroSlots(ev.key))
           O == {"invoke", "listen", "decide"}
<1>0. PICK n : n = Height
  OBVIOUS
<1>c. /\ Types /\ Shape /\ CellsInv /\ Rising /\ Gap /\ ItemsInv /\ SlotsInv /\ FinishInv /\ PressInv
      /\ RoomInv /\ OwnSilent
  BY DEF Core, Types, CellsInv, CallInv, SilentInv
<1>u. UNCHANGED <<config, now, undecided, timer, down, presses, seen, typed>>
  BY DEF RaisePosition
<1>1. /\ n \in EventFrames /\ Fr(n).ev = ev /\ ev \in Event /\ EventOK(ev) /\ OnRelease(n)
      /\ n \in Levels /\ n \in Nat /\ n >= 1 /\ Fr(n).op = "raise"
  BY <1>0, <1>c, EventOfTop DEF RaisePosition, EventOps
<1>2. PICK u : u = undecided
  OBVIOUS
<1>3. PICK e : e = ev
  OBVIOUS
<1>4. /\ NewCalls(n, O) /\ Height' >= n /\ Fr(n)'.ev = e
      /\ \/ Height' = n /\ Fr(n)' = Invoke(e)
         \/ /\ u # 0 /\ held[u].pos # e.key /\ Fr(n)' = Listen(e)
            /\ Height' = n \/ (Height' = n + 1 /\ Fr(n + 1)' = Decide(u, "TIMER_EVENT", e))
  BY <1>0, <1>2, <1>3, <1>c, RaiseCalls
<1>5. /\ u \in Nat /\ (u # 0 => u \in Slots) /\ e \in Event
      /\ Invoke(e).op = "invoke" /\ Listen(e).op = "listen"
      /\ Decide(u, "TIMER_EVENT", e).op = "decide" /\ Decide(u, "TIMER_EVENT", e).s = u
      /\ Decide(u, "TIMER_EVENT", e).moment = "TIMER_EVENT"
  <2>1. u \in Nat /\ (u # 0 => u \in Slots) /\ e \in Event
    BY <1>1, <1>2, <1>3, <1>c, Constants DEF Types, TypeOK, Slots
  <2> QED
    BY <2>1, FramesAre DEF Moments
<1>6. Types' /\ Shape' /\ Collects(m)
  BY <1>c, RaiseTypes DEF Core
<1>7. CellsInv' /\ RoomLeft' /\ ListenRoom'
  BY <1>0, <1>c, RaiseRoom DEF Core
<1> HIDE DEF ev, m
<1>8. /\ \A d \in n .. Height' : \/ d = n /\ Fr(d)'.op \in {"invoke", "listen"}
                                 \/ d = n + 1 /\ u # 0 /\ Fr(d)' = Decide(u, "TIMER_EVENT", e)
      /\ n \in Levels'
  <2>1. \A d \in n .. Height' : d = n \/ (d = n + 1 /\ Height' = n + 1)
    BY <1>1, <1>4
  <2> QED
    BY <1>1, <1>4, <1>5, <2>1 DEF Levels, NewCalls
<1>9. \A d \in 1 .. n - 1 : d \in Levels /\ Fr(d)' = Fr(d)
  BY <1>1, <1>0, FrameTypes, <1>c, <1>4 DEF NewCalls, Kept, Levels
<1>10. \A d \in 1 .. n - 1 : Fr(d).op \notin {"invoke", "raise"}
  <2> TAKE d \in 1 .. n - 1
  <2>1. d \in Levels /\ d # n /\ d # Height
    BY <1>0, <1>1, <1>9
  <2> QED
    BY <2>1, <1>c DEF Shape, FrameShape
<1>i. Items' = Items
  <2>1. n \in EventFrames'
    BY <1>1, <1>3, <1>4, <1>5, <1>8 DEF EventFrames, EventOps
  <2>2. \A d \in n .. Height' : d \in EventFrames' <=> d = n /\ n \in EventFrames
    BY <1>1, <1>5, <1>8, <2>1 DEF EventFrames, EventOps
  <2>3. Fr(n)'.ev = Fr(n).ev
    BY <1>1, <1>3, <1>4
  <2> QED
    BY <1>0, <1>1, <1>4, <1>6, <1>c, <2>1, <2>2, <2>3, ItemsStay
<1>11. InvokeRoom' /\ InvokeInv'
  <2> SUFFICES ASSUME NEW d \in Levels', Fr(d)'.op = "invoke"
               PROVE  /\ d > 1 /\ Fr(d)'.ev.state => Fr(d - 1)'.s >= 2 + Cardinality(Silents')
                      /\ Fr(d)'.ev.state => undecided' = 0
                      /\ \A x \in Items' : x.key = Fr(d)'.ev.key => Place(d)' <= x.at
    BY DEF InvokeRoom, InvokeInv
  <2>1. d = n
    <3>1. d \in 1 .. n - 1 \/ d \in n .. Height'
      BY <1>1 DEF Levels
    <3> QED
      BY <1>5, <1>8, <1>9, <1>10, <3>1
  <2>2. Fr(n)'.op = "invoke" /\ Fr(n)'.ev = Fr(n).ev
    BY <1>1, <1>3, <1>4, <2>1
  <2>3. \A x \in Items : x.key = Fr(n).ev.key => Place(n) <= x.at
    BY <1>0, <1>c, <2>2, RaiseFirst
  <2>4. Fr(n)'.ev.state => Cardinality(Silents') = 0 /\ undecided = 0
    BY <1>0, <1>c, <2>2, RaisedPress
  <2>5. n > 1 => Fr(n - 1)'.s = Fr(n - 1).s /\ Fr(n - 1).s >= 2
    <3> SUFFICES ASSUME n > 1
                 PROVE  Fr(n - 1)'.s = Fr(n - 1).s /\ Fr(n - 1).s >= 2
      OBVIOUS
    <3>1. n - 1 \in 1 .. n - 1 /\ n - 1 < Height /\ IsRelease(n - 1)
      BY <1>0, <1>1 DEF OnRelease
    <3> QED
      BY <1>c, <1>9, <3>1 DEF Gap
  <2>6. Place(n)' = Place(n)
    BY <1>0, <1>1, <1>4, <1>c, PlaceKept
  <2>7. n > 1 /\ Fr(n)'.ev.state => Fr(n - 1)'.s >= 2 + Cardinality(Silents')
    BY <2>4, <2>5
  <2> QED
    BY <1>i, <1>u, <2>1, <2>2, <2>3, <2>4, <2>6, <2>7
<1>12. \A s \in Silents' : s \in Slots /\ s \in Silents /\ held'[s].pos = e.key /\ held[s].pos = e.key
  <2>1. \A s \in Silents' : s \in Silents /\ held[s].pos = e.key /\ s \in Slots
    BY <1>3, <1>c, RaiseSilents DEF Silents, ev
  <2> QED
    BY <2>1, <1>c, RaiseHeld
<1>13. OneSilent'
  <2>1. TopEnd(n)' /\ KeyAt(n)' = e.key
    <3>1. \A d \in n + 1 .. Height' : d \in n .. Height' /\ d # n
      BY <1>1
    <3>2. \A d \in n + 1 .. Height' : Fr(d)'.op \notin EndOps
      BY <1>5, <1>8, <3>1 DEF EndOps
    <3>3. Fr(n)'.op \in EndOps /\ Fr(n)'.op # "finish"
      BY <1>4, <1>5 DEF EndOps
    <3> QED
      BY <1>4, <3>2, <3>3 DEF TopEnd, KeyAt
  <2>2. \A s \in Silents' : Ends(s)'
    BY <1>8, <1>12, <2>1 DEF Ends
  <2>3. 1 \in Slots
    BY Constants DEF Slots
  <2> QED
    BY <2>2, <2>3 DEF OneSilent
<1>14. OwnSilent'
  <2> SUFFICES ASSUME NEW d \in Levels', d > 1, Fr(d)'.op = "decide", Fr(d - 1)'.op = "listen",
                      NEW s \in Silents'
               PROVE  held'[s].pos = Fr(d - 1)'.ev.key
    BY DEF OwnSilent
  <2>1. d \in 1 .. n - 1 \/ d \in n .. Height'
    BY <1>1 DEF Levels
  <2>2. CASE d \in 1 .. n - 1
    <3>1. d \in Levels /\ d - 1 \in 1 .. n - 1 /\ Fr(d)' = Fr(d) /\ Fr(d - 1)' = Fr(d - 1)
      BY <1>1, <1>9, <2>2
    <3>2. held[s].pos = Fr(d - 1).ev.key
      BY <1>12, <1>c, <3>1 DEF OwnSilent
    <3> QED
      BY <1>12, <3>1, <3>2
  <2>3. CASE d \in n .. Height'
    <3>1. d - 1 = n
      BY <1>1, <1>5, <1>8, <2>3
    <3> QED
      BY <1>4, <1>12, <3>1
  <2> QED
    BY <2>1, <2>2, <2>3
<1>15. ItemsInv'
  BY <1>c, <1>i, <1>u, ItemsInvStay
<1>16. \A s \in Slots : /\ held'[s].pos = held[s].pos /\ held'[s].cancelled = held[s].cancelled
                        /\ held'[s].status = "UNDECIDED" <=> held[s].status = "UNDECIDED"
  <2>1. \A s \in RetroSlots(ev.key) : held[s].status = "HOLD_TIMER"
    BY DEF RetroSlots, Silent
  <2> QED
    BY <1>c, <2>1, RaiseHeld DEF ev
<1>17. /\ \A s : Finishing(s)' <=> Finishing(s)
       /\ \A d \in Levels : Fr(d).op = "finish" => d < n /\ d \in Nat
  BY <1>0, <1>1, <1>4, <1>c, FinishBelow, FrameTypes
<1>18. SlotsInv'
  <2>1. \A i : Low(i)' <=> Low(i)
    <3>1. SameReplays
      BY <1>0, <1>1, <1>4, <1>c, ReplaysStay
    <3> QED
      BY <3>1, LowStays
  <2>2. EventCells' = EventCells /\ \A i \in EventCells : captured'[i] = captured[i]
    BY <1>6, <1>c, GatheredEvents
  <2> QED
    BY <1>16, <1>17, <1>c, <1>i, <1>u, <2>1, <2>2, SlotsStay
<1>19. FinishInv'
  <2>1. \A d \in Levels : Fr(d).op = "finish" =>
          /\ held'[Fr(d).s].pos = held[Fr(d).s].pos /\ Fr(d).s # undecided
    <3> SUFFICES ASSUME NEW d \in Levels, Fr(d).op = "finish"
                 PROVE  held'[Fr(d).s].pos = held[Fr(d).s].pos /\ Fr(d).s # undecided
      OBVIOUS
    <3>1. Fr(d).s \in Slots
      BY <1>c DEF Shape, FrameShape
    <3>2. d < n /\ n \in d + 1 .. Height
      BY <1>0, <1>1, <1>17
    <3>3. ~ToDecide(d)
      BY <1>1, <3>2 DEF ToDecide
    <3> QED
      BY <1>16, <1>c, <3>1, <3>3 DEF FinishInv
  <2> QED
    BY <1>0, <1>1, <1>4, <1>c, <1>i, <1>u, <2>1, FinishStay
<1>20. PressInv'
  <2>1. u # 0 => Used(u)'
    <3>1. u # 0 => u \in Slots /\ Used(u)
      BY <1>2, <1>5, <1>c DEF SlotsInv, UndecidedIsUnique, Used
    <3> QED
      BY <1>16, <3>1 DEF Used
  <2>2. \A d \in n .. Height' :
          /\ Fr(d)'.op # "schedule" /\ ~(Fr(d)'.op = "decide" /\ Fr(d)'.moment = "KEY_DOWN")
          /\ Fr(d)'.op = "decide" => Used(Fr(d).s)'
    BY <1>5, <1>8, <2>1
  <2> QED
    BY <1>0, <1>1, <1>4, <1>6, <1>19, <1>c, <2>2, PressStay
<1> QED
  BY <1>6, <1>7, <1>11, <1>13, <1>14, <1>15, <1>18, <1>19, <1>20
     DEF Core, RoomInv, SilentInv, CallInv
-----------------------------------------------------------------------------
(* ListenPosition *)

LEMMA AtMostOne ==
  ASSUME NEW S, NEW w, S \subseteq {w}
  PROVE  Cardinality(S) \in Nat /\ Cardinality(S) <= 1
<1>1. Cardinality({}) = 0 /\ Cardinality({w}) = 1
  BY FS_EmptySet, FS_Singleton
<1>2. S = {} \/ S = {w}
  OBVIOUS
<1> QED
  BY <1>1, <1>2

LEMMA SilentsAre == Silents \subseteq Slots /\ IsFiniteSet(Silents) /\ Cardinality(Silents) \in Nat
BY Constants, FS_Subset, FS_CardinalityType DEF Silents

LEMMA Greatest ==
  ASSUME NEW N \in Nat, NEW T, T \subseteq 1 .. N, T # {}
  PROVE  \E t \in T : \A k \in T : k <= t
<1> DEFINE D == {N - t : t \in T}
<1>1. D \subseteq Nat /\ D # {}
  <2>1. \A t \in T : N - t \in Nat
    OBVIOUS
  <2>2. PICK t \in T : TRUE
    OBVIOUS
  <2>3. N - t \in D
    OBVIOUS
  <2> QED
    BY <2>1, <2>3
<1>2. PICK x \in D : \A y \in D : x <= y
  BY <1>1, Least
<1>3. PICK t \in T : x = N - t
  OBVIOUS
<1>4. \A k \in T : N - k \in D
  OBVIOUS
<1>5. ASSUME NEW k \in T
      PROVE  k <= t
  <2>1. N - t <= N - k
    BY <1>2, <1>3, <1>4
  <2>2. t \in Nat /\ k \in Nat
    OBVIOUS
  <2> QED
    BY <2>1, <2>2
<1> QED
  BY <1>5

\* A release that is not captured behind its press has no event of its key before it: the
\* last one before it would be a press, which the scan for it comes to.
LEMMA ReleaseFirst ==
  ASSUME Types, CellsInv, ItemsInv, NEW n \in EventFrames, n = Height, ~Fr(n).ev.state,
         ~HaveCapturedKeydown(Fr(n).ev.key)
  PROVE  \A i \in EventCells : Low(i) => captured[i].key # Fr(n).ev.key
<1> DEFINE p == Fr(n).ev.key
           T == {i \in EventCells : Low(i) /\ captured[i].key = p}
<1>0. /\ n \in Levels /\ n \in Nat /\ OnRelease(n) /\ Fr(n).op # "release" /\ p \in Positions
      /\ Place(n) \in 1 .. MaxCaptured + 1 /\ \A i \in Cells : Low(i) <=> i <= Place(n)
      /\ (n > 1 => ~Full(Place(n))) /\ (n = 1 => Place(n) = MaxCaptured + 1) /\ n >= 1
      /\ Rising /\ Gap
  BY EventFrameIs, FrameTypes, PlaceIs DEF CellsInv, Levels
<1> SUFFICES ASSUME T # {}
             PROVE  FALSE
  OBVIOUS
<1>1. T \subseteq 1 .. MaxCaptured /\ MaxCaptured \in Nat /\ Cells = 1 .. MaxCaptured
  BY EventCellIs, Constants DEF Cells
<1>2. PICK j \in T : \A k \in T : k <= j
  BY <1>1, Greatest
<1>3. PICK y : y = Item(j, captured[j])
  OBVIOUS
<1>4. j \in EventCells /\ Full(j) /\ j \in Cells /\ j < Place(n) /\ j \in Nat /\ captured[j].key = p
      /\ captured[j].state \in BOOLEAN /\ captured[j].t = "pos"
  <2>1. j \in EventCells /\ Full(j) /\ j \in Cells /\ j \in Nat /\ j <= Place(n)
    BY <1>0, <1>2, EventCellIs
  <2>2. j # Place(n)
    BY <1>0, <1>1, <2>1
  <2> QED
    BY <1>0, <1>2, <2>1, <2>2, EventCellIs DEF EventCells
<1>5. y \in Items /\ y.at = j /\ y.key = p /\ y.state = captured[j].state
  BY <1>3, <1>4 DEF Items, Item
<1>6. Own(n) \in Items /\ Own(n).at = Place(n) /\ Own(n).key = p /\ Own(n).state = Fr(n).ev.state
  BY <1>0, OwnIs
<1>7. NextOf(Items, y, Own(n))
  <2> SUFFICES ASSUME NEW z \in Items, z.key = p, ~(Place(n) <= z.at)
               PROVE  z.at <= j
    BY <1>4, <1>5, <1>6 DEF NextOf
  <2>1. z \in Placed(Positions) /\ z.at \in Nat
    BY <1>0, ItemsTyped, ItemIs
  <2>2. z.at < Place(n)
    BY <1>0, <2>1
  <2>3. PICK i \in EventCells : Low(i) /\ z = Item(i, captured[i])
    BY <1>0, <2>2, ItemsAround
  <2>4. z.at = i /\ i \in T
    BY <2>3 DEF Item
  <2> QED
    BY <1>2, <2>4
<1>8. captured[j].state
  BY <1>4, <1>5, <1>6, <1>7 DEF ItemsInv, Alternates
<1>9. \A k \in 1 .. j : captured[k] # NoEvent
  <2> SUFFICES ASSUME NEW k \in 1 .. j, captured[k] = NoEvent
               PROVE  FALSE
    OBVIOUS
  <2>1. k \in Cells /\ k < j
    BY <1>1, <1>4 DEF Full
  <2>2. PICK d \in Levels : IsRelease(d) /\ k < Fr(d).s /\ Fr(d).s <= j
    BY <1>4, <2>1 DEF CellsInv, Packed, Full
  <2>3. Low(j)
    BY <1>2
  <2> QED
    BY <1>4, <2>2, <2>3, ReleaseCells DEF Low
<1>10. HaveCapturedKeydown(p)
  BY <1>4, <1>8, <1>9 DEF HaveCapturedKeydown
<1> QED
  BY <1>10

LEMMA ListenSplits ==
  ASSUME Types, ListenPosition, lost' = {}, NEW n, n = Height
  PROVE  /\ n \in EventFrames /\ Fr(n).ev = Head(stack).ev /\ Fr(n).op = "listen"
         /\ EventOK(Fr(n).ev) /\ OnRelease(n)
         /\ n \in Levels /\ n \in Nat /\ n >= 1 /\ stack \in Seq(Frames) /\ stack # <<>>
         /\ UNCHANGED <<config, now, undecided, held, timer, down, presses, seen, typed>>
         /\ \/ /\ undecided = 0 \/ (~Fr(n).ev.state /\ ~HaveCapturedKeydown(Fr(n).ev.key))
               /\ Becomes(n, Invoke(Fr(n).ev)) /\ UNCHANGED <<captured, lastTapped, out, lost>>
            \/ /\ undecided # 0 /\ (Fr(n).ev.state \/ HaveCapturedKeydown(Fr(n).ev.key))
               /\ SetIO(Capture(IO, Fr(n).ev))
               /\ \E m \in {"OTHER_KEY_DOWN", "OTHER_KEY_UP"} :
                     Becomes(n, Decide(undecided, m, Fr(n).ev))
<1> DEFINE ev == Head(stack).ev
<1>1. Height \in Levels /\ Fr(Height) = Head(stack) /\ Fr(Height).op = "listen"
      /\ stack \in Seq(Frames) /\ stack # <<>> /\ Height \in Nat /\ FrameShape(Height)
  BY Top DEF ListenPosition
<1>2. n \in EventFrames /\ EventOK(ev) /\ ev \in Event /\ OnRelease(n) /\ Fr(n).ev = ev /\ n >= 1
  BY <1>1 DEF FrameShape, EventFrames, EventOps, EventOK, Levels
<1>3. undecided \in Nat
  BY Constants DEF Types, TypeOK
<1>4. UNCHANGED <<config, now, undecided, held, timer, down, presses, seen>>
  BY DEF ListenPosition
<1>5. CASE undecided = 0 \/ (~ev.state /\ ~HaveCapturedKeydown(ev.key))
  <2>1. Call(<<Invoke(ev)>>) /\ UNCHANGED <<captured, lastTapped, out, lost, typed>>
    BY <1>5 DEF ListenPosition
  <2>2. Invoke(ev) \in Frames
    BY <1>2, FramesAre
  <2>3. Becomes(n, Invoke(ev))
    BY <1>1, <2>1, <2>2, Calls1
  <2> QED
    BY <1>1, <1>2, <1>4, <1>5, <2>1, <2>3
<1>6. CASE ~(undecided = 0 \/ (~ev.state /\ ~HaveCapturedKeydown(ev.key)))
  <2> DEFINE m == IF ev.state THEN "OTHER_KEY_DOWN" ELSE "OTHER_KEY_UP"
  <2>1. /\ SetIO(Capture(IO, ev)) /\ Call(<<Decide(undecided, m, ev)>>)
        /\ typed' = IF lost' # lost /\ ev.state
                    THEN SelectSeq(typed, LAMBDA p : p # ev.key) ELSE typed
    BY <1>6 DEF ListenPosition
  <2>2. lost = {}
    <3>1. Next
      BY DEF Next, Handler
    <3> QED
      BY <3>1, LostGrows
  <2>3. typed' = typed
    BY <2>1, <2>2
  <2>4. m \in {"OTHER_KEY_DOWN", "OTHER_KEY_UP"} /\ m \in Moments
    BY DEF Moments
  <2>5. Decide(undecided, m, ev) \in Frames
    BY <1>2, <1>3, <2>4, FramesAre
  <2>6. Becomes(n, Decide(undecided, m, ev))
    BY <1>1, <2>1, <2>5, Calls1
  <2> HIDE DEF m
  <2> QED
    BY <1>1, <1>2, <1>4, <1>6, <2>1, <2>3, <2>4, <2>6
<1> QED
  BY <1>5, <1>6

LEMMA ListenInvokes ==
  ASSUME Core, lost' = {}, NEW n \in EventFrames, n = Height, Fr(n).op = "listen", n >= 1,
         EventOK(Fr(n).ev), n \in Levels, n \in Nat, OnRelease(n),
         UNCHANGED <<config, now, undecided, held, timer, down, presses, seen, typed>>,
         undecided = 0 \/ (~Fr(n).ev.state /\ ~HaveCapturedKeydown(Fr(n).ev.key)),
         Becomes(n, Invoke(Fr(n).ev)), UNCHANGED <<captured, lastTapped, out, lost>>
  PROVE  Core'
<1>c. /\ Types /\ Shape /\ CellsInv /\ Rising /\ Gap /\ LowEmpty /\ ItemsInv /\ SlotsInv /\ FinishInv
      /\ PressInv /\ RoomLeft /\ ListenRoom /\ OneSilent /\ OwnSilent
  BY DEF Core, Types, CellsInv, CallInv, SilentInv, RoomInv
<1>1. PICK e : e = Fr(n).ev
  OBVIOUS
<1>2. /\ e \in Event /\ e.t = "pos" /\ Invoke(e) \in Frames /\ Invoke(e).op = "invoke" /\ Invoke(e).ev = e
      /\ e.key \in Positions /\ e.state \in BOOLEAN
  BY <1>1, <1>c, EventFrameIs, FramesAre
<1>3. NewCalls(n, {"invoke"}) /\ Height' = n /\ Fr(n)' = Invoke(e) /\ stack' \in Seq(Frames) /\ n \in Levels'
      /\ \A d \in 1 .. n - 1 : Fr(d)' = Fr(d) /\ d \in Levels
  BY <1>1, <1>2, NewCallsAre DEF Becomes, Levels, Kept
<1>4. Collects(0) /\ captured' = captured
  BY <1>c, UntouchedCollects
<1>5. OnRelease(n)'
  BY <1>3, <1>c, OnReleaseStays
<1>6. \A d \in n .. Height' : d = n
  BY <1>3
<1>7. Shape'
  <2>1. FrameShape(n)'
    BY <1>1, <1>2, <1>3, <1>5 DEF FrameShape, EventOps
  <2> QED
    BY <1>3, <1>6, <1>c, <2>1, ShapeNew
<1>8. Types'
  BY <1>3, <1>4, <1>7, <1>c, TypesAfter DEF Collects, Types, TypeOK
<1>9. CellsInv'
  BY <1>3, <1>4, <1>c, CellsStay
<1>10. Silents' = Silents
  BY DEF Silents, Used, Silent, Cfg
<1>11. RoomLeft'
  <2>1. undecided' # 0 /\ n > 1 => Free(captured', Fr(n - 1).s, Cardinality(Silents') + 2)
    BY <1>4, <1>10, <1>c, RoomBefore DEF EventOps
  <2> QED
    BY <1>3, <1>10, <1>c, <2>1, SilentsAre, RoomAfter
<1>12. ListenRoom'
  BY <1>2, <1>3, <1>6, <1>c, ListenRoomStay
<1>13. KeyAt(n) = e.key /\ Fr(n).op \in EndOps
  BY <1>1 DEF KeyAt, EndOps
<1>14. PICK w \in Slots : \A s \in Silents : s = w \/ held[s].pos = e.key
  <2>1. \A s : Ends(s) <=> held[s].pos = e.key
    BY <1>13, <1>c, TopEnds
  <2> QED
    BY <1>c, <2>1 DEF OneSilent
<1>15. OneSilent'
  <2>1. TopEnd(n)' /\ KeyAt(n)' = e.key
    BY <1>2, <1>3, <1>6 DEF TopEnd, KeyAt, EndOps
  <2>2. \A s : held[s].pos = e.key => Ends(s)'
    BY <1>3, <2>1 DEF Ends
  <2> QED
    BY <1>10, <1>14, <2>2 DEF OneSilent
<1>16. OwnSilent'
  BY <1>2, <1>3, <1>6, <1>c, OwnSilentStay
<1>17. Items' = Items
  <2>1. n \in EventFrames'
    BY <1>2, <1>3 DEF EventFrames, EventOps
  <2>2. \A d \in n .. Height' : d \in EventFrames' <=> d = n /\ n \in EventFrames
    BY <1>6, <2>1
  <2> QED
    BY <1>1, <1>2, <1>3, <1>4, <1>c, <2>1, <2>2, ItemsStay
<1>18. ItemsInv'
  BY <1>17, <1>c, ItemsInvStay
<1>19. SlotsInv'
  <2>1. \A i : Low(i)' <=> Low(i)
    BY <1>3, <1>c, ReplaysStay, LowStays
  <2>2. EventCells' = EventCells
    BY <1>4 DEF EventCells
  <2>3. \A s : Finishing(s)' <=> Finishing(s)
    BY <1>3, <1>c, FinishBelow
  <2> QED
    BY <1>4, <1>17, <1>c, <2>1, <2>2, <2>3, SlotsStay
<1>20. \A d \in Levels : Fr(d).op = "finish" => Fr(d).s # undecided /\ d < n
  <2> SUFFICES ASSUME NEW d \in Levels, Fr(d).op = "finish"
               PROVE  Fr(d).s # undecided /\ d < n
    OBVIOUS
  <2>1. d < n /\ n \in d + 1 .. Height
    BY <1>c, FinishElsewhere, FrameTypes
  <2>2. ~ToDecide(d)
    BY <2>1 DEF ToDecide
  <2> QED
    BY <1>c, <2>1, <2>2 DEF FinishInv
<1>21. FinishInv'
  BY <1>3, <1>17, <1>20, <1>c, FinishStay
<1>22. PressInv'
  BY <1>2, <1>3, <1>6, <1>7, <1>21, <1>c, PressStay
<1>23. \A x \in Items : x.key = e.key => Place(n) <= x.at
  <2>1. CASE undecided = 0
    <3>1. \A x \in Items : Own(n).at <= x.at
      BY <1>c, <2>1, FirstOfAll
    <3>2. Own(n).at = Place(n)
      BY <1>c, OwnIs
    <3> QED
      BY <3>1, <3>2
  <2>2. CASE ~Fr(n).ev.state /\ ~HaveCapturedKeydown(Fr(n).ev.key)
    <3>1. \A i \in EventCells : Low(i) => captured[i].key # Fr(n).ev.key
      BY <1>c, <2>2, ReleaseFirst
    <3> QED
      BY <1>1, <1>c, <3>1, FirstOfKey
  <2> QED
    BY <2>1, <2>2
<1>24. \A d \in Levels' : Fr(d)'.op = "invoke" => d = n
  <2> SUFFICES ASSUME NEW d \in Levels', Fr(d)'.op = "invoke", d # n
               PROVE  FALSE
    OBVIOUS
  <2>1. d \in 1 .. n - 1 /\ d # n
    BY <1>3 DEF Levels
  <2>2. d \in Levels /\ Fr(d).op = "invoke"
    BY <1>3, <2>1
  <2> QED
    BY <1>c, <2>1, <2>2 DEF Shape, FrameShape
<1>25. InvokeInv'
  <2>1. Place(n)' = Place(n)
    BY <1>3, <1>c, PlaceKept
  <2> QED
    BY <1>1, <1>2, <1>3, <1>17, <1>23, <1>24, <2>1 DEF InvokeInv
<1>26. InvokeRoom'
  <2> SUFFICES ASSUME n > 1, e.state
               PROVE  Fr(n - 1)'.s >= 2 + Cardinality(Silents)
    BY <1>2, <1>3, <1>10, <1>24 DEF InvokeRoom
  <2>1. FirstOf(Items, Own(n))
    BY <1>1, <1>c, FirstOfAll DEF FirstOf
  <2>2. \A s \in Slots : Used(s) => held[s].pos # e.key
    BY <1>1, <1>c, <2>1, PressNotUsed
  <2>3. Silents \subseteq {w}
    BY <1>14, <2>2 DEF Silents
  <2>4. Cardinality(Silents) \in Nat /\ Cardinality(Silents) <= 1
    BY <2>3, AtMostOne
  <2>5. Fr(n - 1).s >= 3 /\ Fr(n - 1)' = Fr(n - 1) /\ Fr(n - 1).s \in Nat
    <3>1. n - 1 \in 1 .. n - 1
      OBVIOUS
    <3>2. Fr(n - 1) \in Frames
      BY <1>3, <1>c, <3>1, FrameTypes
    <3> QED
      BY <1>3, <1>c, <3>1, <3>2 DEF ListenRoom, Frames
  <2> QED
    BY <2>4, <2>5
<1> QED
  BY <1>8, <1>9, <1>11, <1>12, <1>15, <1>16, <1>18, <1>19, <1>21, <1>22, <1>25, <1>26
     DEF Core, RoomInv, SilentInv, CallInv

\* The captured event takes the first free cell, before the cell it was replayed from.
LEMMA ListenCell ==
  ASSUME Types, CellsInv, RoomLeft, lost' = {}, NEW n \in EventFrames, n = Height, n \in Levels,
         n \in Nat, n >= 1, EventOK(Fr(n).ev), OnRelease(n), undecided # 0,
         SetIO(Capture(IO, Fr(n).ev))
  PROVE  \E f \in Cells :
           /\ captured[f] = NoEvent /\ captured' = [captured EXCEPT ![f] = Fr(n).ev]
           /\ f < Place(n) /\ IOTypes' /\ Fills(captured, captured') /\ Takes(captured, captured', 1)
           /\ n > 1 => /\ captured'[Place(n)] = NoEvent
                       /\ Free(captured', Fr(n - 1).s, Cardinality(Silents) + 1)
           /\ EventCells' = EventCells \cup {f}
           /\ \A i \in Cells : f <= i /\ Low(i) => i \notin EventCells
<1> DEFINE ev == Fr(n).ev
<1>1. PICK new : new = Capture(IO, ev)
  OBVIOUS
<1>2. /\ captured' = new.cap /\ lastTapped' = new.last /\ out' = new.out /\ lost' = new.lost
  BY <1>1 DEF SetIO
<1>3. IOOK(IO) /\ IO.cap = captured /\ IO.lost = lost /\ captured \in [Cells -> Event]
  BY IOIs DEF Types, TypeOK
<1>4. /\ IOOK(new)
      /\ \E f \in Cells : /\ captured[f] = NoEvent /\ \A i \in Cells : i < f => captured[i] # NoEvent
                          /\ new.cap = [captured EXCEPT ![f] = ev]
  <2>1. IOOK(new) /\ (new.lost = {} =>
              \E f \in Cells : /\ IO.cap[f] = NoEvent /\ \A i \in Cells : i < f => IO.cap[i] # NoEvent
                               /\ new.cap = [IO.cap EXCEPT ![f] = ev])
    BY <1>1, <1>3, Captures
  <2> QED
    BY <1>2, <1>3, <2>1
<1>5. PICK f \in Cells : /\ captured[f] = NoEvent /\ \A i \in Cells : i < f => captured[i] # NoEvent
                         /\ captured' = [captured EXCEPT ![f] = ev]
  BY <1>2, <1>4
<1>6. IOTypes'
  BY <1>2, <1>4 DEF IOTypes, IOOK, IOs, CapturedOK
<1>7. Takes(captured, captured', 1)
  BY <1>3, <1>5, CaptureTakes
<1>8. ev # NoEvent /\ ev.t = "pos"
  BY EventIsSome, EventFrameIs
<1>9. MaxCaptured \in Nat /\ Cells = 1 .. MaxCaptured /\ f \in Nat
  BY Constants DEF Cells
<1>10. Fills(captured, captured')
  BY <1>3, <1>5, <1>8, <1>9 DEF Fills
<1>11. EventCells' = EventCells \cup {f}
  BY <1>3, <1>5, <1>8 DEF EventCells
<1>12. /\ n > 1 => /\ Fr(n - 1).s \in Nat /\ Place(n) = Fr(n - 1).s - 1 /\ f < Place(n) /\ Place(n) \in Cells
                   /\ captured'[Place(n)] = NoEvent
                   /\ Free(captured', Fr(n - 1).s, Cardinality(Silents) + 1)
  <2> SUFFICES ASSUME n > 1
               PROVE  /\ Fr(n - 1).s \in Nat /\ Place(n) = Fr(n - 1).s - 1 /\ f < Place(n)
                      /\ Place(n) \in Cells /\ captured'[Place(n)] = NoEvent
                      /\ Free(captured', Fr(n - 1).s, Cardinality(Silents) + 1)
    OBVIOUS
  <2>1. Free(captured, Fr(n - 1).s, Cardinality(Silents) + 2) /\ Cardinality(Silents) \in Nat
    BY EventFrameIs, RoomBefore DEF CellsInv
  <2>2. PICK t \in 1 .. MaxCaptured + 1, c \in Nat :
          t = Fr(n - 1).s /\ c = Cardinality(Silents) /\ t \in Nat
    <3>1. Fr(n - 1).s \in 1 .. MaxCaptured + 1 /\ Fr(n - 1).s \in Nat
      BY EventFrameIs, TopReleaseIs DEF CellsInv
    <3> QED
      BY <2>1, <3>1
  <2>3. Free(captured, t, c + 2)
    BY <2>1, <2>2
  <2>4. t - 2 >= 1 /\ captured[t - 2] = NoEvent /\ t - 2 \in Cells
    <3>1. t - (c + 2) >= 1 /\ \A i \in (t - (c + 2)) .. (t - 1) : captured[i] = NoEvent
      BY <2>3 DEF Free
    <3>2. t - 2 >= 1 /\ t - 2 \in (t - (c + 2)) .. (t - 1) /\ t - 2 \in 1 .. MaxCaptured
      BY <1>9, <2>2, <3>1
    <3> QED
      BY <1>9, <3>1, <3>2
  <2>5. f <= t - 2
    BY <1>5, <1>9, <2>2, <2>4
  <2>6. Free(captured', t, c + 1)
    <3>1. Free(captured, t, (c + 1) + 1)
      BY <2>2, <2>3
    <3> QED
      BY <1>7, <2>2, <3>1 DEF Takes
  <2>7. captured'[t - 1] = NoEvent
    BY <2>2, <2>6 DEF Free
  <2>8. Place(n) = t - 1
    BY <2>2 DEF Place
  <2>9. f < Place(n) /\ Place(n) \in Cells
    BY <1>9, <2>2, <2>4, <2>5, <2>8
  <2>10. Free(captured', Fr(n - 1).s, Cardinality(Silents) + 1)
    BY <2>2, <2>6
  <2> QED
    BY <2>2, <2>7, <2>8, <2>9, <2>10
<1>13. f < Place(n)
  <2>1. n = 1 => Place(n) = MaxCaptured + 1
    BY DEF Place
  <2> QED
    BY <1>9, <1>12, <2>1
<1>14. \A i \in Cells : f <= i /\ Low(i) => i \notin EventCells
  <2> SUFFICES ASSUME NEW i \in EventCells, f <= i, Low(i)
               PROVE  FALSE
    OBVIOUS
  <2>1. Full(i) /\ i \in Cells /\ i \in Nat
    BY EventCellIs
  <2>2. f < i
    BY <1>5, <1>9, <2>1 DEF Full
  <2>3. PICK d \in Levels : IsRelease(d) /\ f < Fr(d).s /\ Fr(d).s <= i
    BY <1>5, <2>1, <2>2 DEF CellsInv, Packed, Full
  <2>4. i < Fr(d).s /\ Fr(d).s \in Nat
    BY <2>3, ReleaseCells DEF Low
  <2> QED
    BY <2>1, <2>3, <2>4
<1> QED
  BY <1>5, <1>6, <1>7, <1>10, <1>11, <1>12, <1>13, <1>14

LEMMA ListenMoves ==
  ASSUME Types, Rising, Gap, NEW n \in EventFrames, n = Height, NEW f \in Cells, NEW ops,
         NewCalls(n, ops), ops \cap EventOps = {}, captured[f] = NoEvent,
         captured' = [captured EXCEPT ![f] = Fr(n).ev], EventCells' = EventCells \cup {f},
         f < Place(n), \A i \in Cells : f <= i /\ Low(i) => i \notin EventCells
  PROVE  Items' = Moves(Items, Own(n), f) /\ CanMove(Items, Own(n), f)
<1>0. n \in Nat /\ n >= 1 /\ n \in Levels /\ OnRelease(n) /\ Fr(n).op # "release"
  BY EventFrameIs, FrameTypes DEF Levels
<1>1. /\ Height' \in Nat /\ Height' >= n - 1 /\ (\A d \in 1 .. n - 1 : Fr(d)' = Fr(d))
      /\ captured \in [Cells -> Event]
  BY DEF NewCalls, Kept, Types, TypeOK
<1>2. \A d \in 1 .. n - 1 : d \in EventFrames' <=> d \in EventFrames
  BY <1>0, <1>1 DEF EventFrames, Levels
<1>3. \A d : d \in EventFrames => d \in 1 .. n - 1 \/ d = n
  BY <1>0, <1>1 DEF EventFrames, Levels
<1>4. \A d : d \in EventFrames' => d \in 1 .. n - 1
  BY <1>0, <1>1 DEF EventFrames, Levels, NewCalls
<1>5. EventFrames' = EventFrames \ {n}
  BY <1>0, <1>1, <1>2, <1>3, <1>4
<1>6. \A d \in 1 .. n - 1 : Fr(d)'.ev = Fr(d).ev /\ Place(d)' = Place(d)
  BY <1>0, <1>1, PlaceKept
<1>7. f \notin EventCells /\ (\A i \in EventCells : captured'[i] = captured[i]) /\ captured'[f] = Fr(n).ev
  BY <1>1 DEF EventCells, NoEvent
<1>8. Items' = {Item(i, captured[i]) : i \in EventCells} \cup {Item(f, Fr(n).ev)}
                 \cup {Item(Place(d), Fr(d).ev) : d \in EventFrames \ {n}}
  <2>1. {Item(i, captured'[i]) : i \in EventCells'}
           = {Item(i, captured[i]) : i \in EventCells} \cup {Item(f, Fr(n).ev)}
    BY <1>7
  <2>2. {Item(Place(d)', Fr(d)'.ev) : d \in EventFrames'}
           = {Item(Place(d), Fr(d).ev) : d \in EventFrames \ {n}}
    BY <1>3, <1>5, <1>6
  <2>3. Items' = {Item(i, captured'[i]) : i \in EventCells'} \cup {Item(Place(d)', Fr(d)'.ev) : d \in EventFrames'}
    BY DEF Items, Item
  <2> QED
    BY <2>1, <2>2, <2>3
<1>9. /\ Own(n).at = Place(n) /\ Place(n) \in 1 .. MaxCaptured + 1 /\ Own(n) \in Items
      /\ Own(n).key = Fr(n).ev.key /\ Own(n).state = Fr(n).ev.state
  BY <1>0, OwnIs, PlaceIs
<1>10. ASSUME NEW d \in EventFrames \ {n}
       PROVE  Item(Place(d), Fr(d).ev) # Own(n)
  <2>1. d \in Levels /\ d < n /\ OnRelease(d)
    BY <1>0, <1>3, EventFrameIs
  <2>2. Place(n) < Place(d) /\ Place(d) \in 1 .. MaxCaptured + 1
    BY <1>0, <1>9, <2>1, PlacesRise
  <2>3. Place(n) # Place(d)
    BY <1>9, <2>2, Constants
  <2> QED
    BY <1>9, <2>3 DEF Item
<1>11. ASSUME NEW i \in EventCells
       PROVE  Item(i, captured[i]) # Own(n)
  <2>1. i \in Cells /\ Full(i) /\ i \in Nat
    BY EventCellIs
  <2>2. i # Place(n)
    <3>1. n > 1 => ~Full(Place(n))
      BY <1>0, <1>9, PlaceIs
    <3>2. n = 1 => Place(n) = MaxCaptured + 1
      BY <1>0, <1>9, PlaceIs
    <3>3. n = 1 \/ n > 1
      BY <1>0 DEF Levels
    <3> QED
      BY <2>1, <3>1, <3>2, <3>3, Constants DEF Cells
  <2> QED
    BY <1>9, <2>2 DEF Item
<1>12. Items = {Item(i, captured[i]) : i \in EventCells}
                 \cup {Item(Place(d), Fr(d).ev) : d \in EventFrames \ {n}} \cup {Own(n)}
  BY DEF Items, Own
<1>13. Item(f, Fr(n).ev) = [at |-> f, key |-> Own(n).key, state |-> Own(n).state]
  BY <1>9 DEF Item
<1>14. Items' = Moves(Items, Own(n), f)
  BY <1>8, <1>10, <1>11, <1>12, <1>13 DEF Moves
<1>15. \A y \in Items : ~(f <= y.at /\ y.at < Place(n))
  <2> SUFFICES ASSUME NEW y \in Items, f <= y.at, y.at < Place(n)
               PROVE  FALSE
    OBVIOUS
  <2>1. PICK i \in EventCells : Low(i) /\ y = Item(i, captured[i])
    BY ItemsAround
  <2>2. y.at = i /\ i \in Cells
    BY <2>1, EventCellIs DEF Item
  <2> QED
    BY <2>1, <2>2
<1>16. f \in 1 .. MaxCaptured + 1
  BY Constants DEF Cells
<1> QED
  BY <1>9, <1>14, <1>15, <1>16 DEF CanMove

LEMMA ListenCaptures ==
  ASSUME Core, lost' = {}, NEW n \in EventFrames, n = Height, Fr(n).op = "listen", n >= 1,
         EventOK(Fr(n).ev), n \in Levels, n \in Nat, OnRelease(n),
         UNCHANGED <<config, now, undecided, held, timer, down, presses, seen, typed>>,
         undecided # 0, Fr(n).ev.state \/ HaveCapturedKeydown(Fr(n).ev.key),
         SetIO(Capture(IO, Fr(n).ev)), NEW m \in {"OTHER_KEY_DOWN", "OTHER_KEY_UP"},
         Becomes(n, Decide(undecided, m, Fr(n).ev))
  PROVE  Core'
<1>c. /\ Types /\ Shape /\ CellsInv /\ Rising /\ Gap /\ ItemsInv /\ SlotsInv /\ FinishInv
      /\ PressInv /\ RoomLeft /\ ListenRoom /\ OneSilent /\ OwnSilent
  BY DEF Core, Types, CellsInv, CallInv, SilentInv, RoomInv
<1>1. PICK e : e = Fr(n).ev
  OBVIOUS
<1>2. PICK u : u = undecided
  OBVIOUS
<1>3. /\ u \in Slots /\ u \in Nat /\ e \in Event /\ Used(u)
      /\ Decide(u, m, e) \in Frames /\ Decide(u, m, e).op = "decide"
      /\ Decide(u, m, e).s = u /\ Decide(u, m, e).moment = m
  <2>1. u \in Slots /\ u \in Nat /\ e \in Event /\ m \in Moments
    <3>1. u \in Slots /\ u \in Nat
      BY <1>2, <1>c, Constants DEF Types, TypeOK, Slots
    <3>2. e \in Event /\ m \in Moments
      BY <1>1, <1>c, EventFrameIs DEF Moments
    <3> QED
      BY <3>1, <3>2
  <2>2. Used(u)
    BY <1>2, <1>c, <2>1 DEF SlotsInv, UndecidedIsUnique, Used
  <2>3. /\ Decide(u, m, e) \in Frames /\ Decide(u, m, e).op = "decide"
        /\ Decide(u, m, e).s = u /\ Decide(u, m, e).moment = m
    BY <2>1 DEF Decide, Frame, Frames
  <2> QED
    BY <2>1, <2>2, <2>3
<1>4. NewCalls(n, {"decide"}) /\ Height' = n /\ Fr(n)' = Decide(u, m, e) /\ stack' \in Seq(Frames) /\ n \in Levels'
      /\ \A d \in 1 .. n - 1 : Fr(d)' = Fr(d) /\ d \in Levels
  BY <1>1, <1>2, <1>3, NewCallsAre DEF Becomes, Levels, Kept
<1>5. PICK f \in Cells :
           /\ captured[f] = NoEvent /\ captured' = [captured EXCEPT ![f] = Fr(n).ev]
           /\ f < Place(n) /\ IOTypes' /\ Fills(captured, captured') /\ Takes(captured, captured', 1)
           /\ n > 1 => /\ captured'[Place(n)] = NoEvent
                       /\ Free(captured', Fr(n - 1).s, Cardinality(Silents) + 1)
           /\ EventCells' = EventCells \cup {f}
           /\ \A i \in Cells : f <= i /\ Low(i) => i \notin EventCells
  BY <1>c, ListenCell
<1>6. OnRelease(n)' /\ \A d \in n .. Height' : d = n
  BY <1>4, <1>c, OnReleaseStays
<1>7. Shape'
  <2>1. DecideShape(n)'
    BY <1>3, <1>4, <1>6 DEF DecideShape
  <2>2. FrameShape(n)'
    BY <1>3, <1>4, <2>1 DEF FrameShape, EventOps
  <2> QED
    BY <1>4, <1>6, <1>c, <2>2, ShapeNew
<1>8. Types'
  BY <1>4, <1>5, <1>7, <1>c, TypesAfter DEF Types, TypeOK
<1>9. CellsInv'
  BY <1>4, <1>5, <1>c, CellsFill
<1>10. Silents' = Silents
  BY DEF Silents, Used, Silent, Cfg
<1>11. RoomLeft'
  <2>1. undecided' # 0 /\ n > 1 => Free(captured', Fr(n - 1).s, Cardinality(Silents') + 1)
    BY <1>5, <1>10
  <2> QED
    BY <1>4, <1>10, <1>c, <2>1, SilentsAre, RoomAfter DEF EventOps
<1>12. ListenRoom'
  BY <1>3, <1>4, <1>6, <1>c, ListenRoomStay
<1>13. InvokeInv' /\ InvokeRoom'
  BY <1>4, <1>c, InvokeNone
<1>14. \A s \in Slots : Used(s) => held[s].pos # e.key
  BY <1>1, <1>c, CapturedNotUsed
<1>15. OneSilent'
  <2>1. \A s : Ends(s) <=> held[s].pos = e.key
    <3>1. KeyAt(n) = e.key /\ Fr(n).op \in EndOps
      BY <1>1 DEF KeyAt, EndOps
    <3> QED
      BY <1>c, <3>1, TopEnds
  <2>2. PICK w \in Slots : \A s \in Silents : s = w \/ held[s].pos = e.key
    BY <1>c, <2>1 DEF OneSilent
  <2>3. \A s \in Silents : s = w
    BY <1>14, <2>2 DEF Silents
  <2> QED
    BY <1>10, <2>3 DEF OneSilent
<1>16. OwnSilent'
  <2>1. n > 1 => Fr(n - 1)'.op # "listen"
    BY <1>6, <1>4, <1>c, OnReleaseStays DEF IsRelease
  <2> QED
    BY <1>4, <1>6, <1>c, <2>1, OwnSilentStay
<1>17. Items' = Moves(Items, Own(n), f) /\ CanMove(Items, Own(n), f)
  BY <1>4, <1>5, <1>c, ListenMoves DEF EventOps
<1>18. Items \subseteq Placed(Positions) /\ IsFiniteSet(Items) /\ typed \in Seq(Positions)
  BY <1>c, ItemsTyped, ItemsFinite DEF Types, TypeOK
<1>19. ItemsInv'
  <2>1. PICK L : L = Items
    OBVIOUS
  <2>2. PICK x : x = Own(n)
    OBVIOUS
  <2>3. PICK M : M = Moves(L, x, f)
    OBVIOUS
  <2>4. OnePerPlace(L) /\ Alternates(Positions, L, seen, down) /\ Ordered(L, typed) /\ Even(L, seen, down)
    BY <1>c, <2>1 DEF ItemsInv
  <2>5. OnePerPlace(M) /\ \E g : Renames(g, L, M)
    BY <1>17, <1>18, <2>1, <2>2, <2>3, <2>4, MoveRenames
  <2>6. Alternates(Positions, M, seen, down)
    BY <2>4, <2>5, RenamedAlternates
  <2>7. Ordered(M, typed)
    BY <1>17, <1>18, <2>1, <2>2, <2>3, <2>4, MovedOrdered
  <2>8. Even(M, seen, down)
    BY <1>17, <1>18, <2>1, <2>2, <2>3, <2>4, MovedEven
  <2>9. Items' = M
    BY <1>17, <2>1, <2>2, <2>3
  <2> QED
    BY <2>5, <2>6, <2>7, <2>8, <2>9 DEF ItemsInv
<1>20. \A x \in Items' : \/ x \in Items
                         \/ x.key = e.key /\ Own(n) \in Items /\ Own(n).key = e.key
  <2>1. Own(n) \in Items /\ Own(n).key = e.key
    BY <1>1, <1>c, OwnIs
  <2> QED
    BY <1>17, <2>1 DEF Moves
<1>21. SlotsInv'
  <2>1. \A i : Low(i)' <=> Low(i)
    BY <1>4, <1>c, ReplaysStay, LowStays
  <2>2. \A s : Finishing(s)' <=> Finishing(s)
    BY <1>4, <1>c, FinishBelow
  <2>3. \A x \in Items' : \E y \in Items : y.key = x.key
    BY <1>20
  <2>4. captured'[f] = e /\ \A i \in EventCells : i # f => captured'[i] = captured[i]
    <3>1. captured \in [Cells -> Event]
      BY <1>c DEF Types, TypeOK
    <3>2. EventCells \subseteq Cells
      BY DEF EventCells
    <3> QED
      BY <1>1, <1>5, <3>1, <3>2
  <2>5. \A i \in EventCells' : Low(i)' =>
           \/ i \in EventCells /\ Low(i) /\ captured'[i].key = captured[i].key
           \/ \A s \in Slots : Used(s) => captured'[i].key # held[s].pos
    <3> TAKE i \in EventCells'
    <3>1. i = f \/ (i \in EventCells /\ i # f)
      BY <1>5
    <3> QED
      BY <1>14, <2>1, <2>4, <3>1
  <2> QED
    BY <1>c, <2>2, <2>3, <2>5, SlotsStay
<1>22. \A d \in Levels : Fr(d).op = "finish" => Fr(d).s # undecided /\ held[Fr(d).s].pos # e.key
  <2> SUFFICES ASSUME NEW d \in Levels, Fr(d).op = "finish"
               PROVE  Fr(d).s # undecided /\ held[Fr(d).s].pos # e.key
    OBVIOUS
  <2>1. d < n /\ n \in d + 1 .. Height /\ held[Fr(d).s].pos # e.key
    BY <1>1, <1>c, FinishElsewhere, FrameTypes
  <2>2. ~ToDecide(d)
    BY <2>1 DEF ToDecide
  <2> QED
    BY <1>c, <2>1, <2>2 DEF FinishInv
<1>23. FinishInv'
  <2>1. \A d \in Levels : Fr(d).op = "finish" =>
          \A x \in Items' : x.key = held[Fr(d).s].pos => x \in Items
    BY <1>20, <1>22
  <2> QED
    BY <1>4, <1>22, <1>c, <2>1, FinishStay
<1>24. PressInv'
  <2>1. Used(u)'
    BY <1>3 DEF Used
  <2> QED
    BY <1>3, <1>4, <1>6, <1>7, <1>23, <1>c, <2>1, PressStay
<1> QED
  BY <1>8, <1>9, <1>11, <1>12, <1>13, <1>15, <1>16, <1>19, <1>21, <1>23, <1>24
     DEF Core, RoomInv, SilentInv, CallInv

LEMMA ListenKeeps ==
  ASSUME Core, ListenPosition, lost' = {}
  PROVE  Core'
<1>1. PICK n : n = Height
  OBVIOUS
<1>2. Types
  BY DEF Core
<1>3. /\ n \in EventFrames /\ Fr(n).ev = Head(stack).ev /\ Fr(n).op = "listen"
      /\ EventOK(Fr(n).ev) /\ OnRelease(n) /\ n \in Levels /\ n \in Nat /\ n >= 1
      /\ UNCHANGED <<config, now, undecided, held, timer, down, presses, seen, typed>>
      /\ \/ /\ undecided = 0 \/ (~Fr(n).ev.state /\ ~HaveCapturedKeydown(Fr(n).ev.key))
            /\ Becomes(n, Invoke(Fr(n).ev)) /\ UNCHANGED <<captured, lastTapped, out, lost>>
         \/ /\ undecided # 0 /\ (Fr(n).ev.state \/ HaveCapturedKeydown(Fr(n).ev.key))
            /\ SetIO(Capture(IO, Fr(n).ev))
            /\ \E m \in {"OTHER_KEY_DOWN", "OTHER_KEY_UP"} :
                  Becomes(n, Decide(undecided, m, Fr(n).ev))
  BY <1>1, <1>2, ListenSplits
<1> QED
  BY <1>1, <1>3, ListenInvokes, ListenCaptures
-----------------------------------------------------------------------------
(* RaiseKeycode and the returns of the bindings *)

\* A call returns that no slot has to do with; it took one cell at most.
LEMMA ReturnKeeps ==
  ASSUME Core, lost' = {}, NEW n \in Levels, n = Height, OnRelease(n), Returned(n), Collects(1),
         \/ Fr(n).op = "raise"
         \/ Fr(n).op = "invoke" /\ \A s \in Slots : Used(s) => held[s].pos # Fr(n).ev.key,
         UNCHANGED <<config, now, undecided, held, timer, down, presses>>,
         \A s \in Slots : Used(s) => (held[s].pos \in seen' <=> held[s].pos \in seen),
         seen' \subseteq Positions, typed' \in Seq(Positions), ItemsInv', Items' \subseteq Items
  PROVE  Core'
<1>c. /\ Types /\ Shape /\ CellsInv /\ Rising /\ Gap /\ ItemsInv /\ SlotsInv /\ FinishInv
      /\ PressInv /\ RoomLeft /\ ListenRoom /\ OneSilent /\ OwnSilent
  BY DEF Core, Types, CellsInv, CallInv, SilentInv, RoomInv
<1>1. /\ NewCalls(n, {}) /\ Height' = n - 1 /\ stack' \in Seq(Frames) /\ n \in Nat /\ n >= 1
      /\ Fr(n).op # "release"
  BY <1>c, FrameTypes, NewCallsAre DEF Returned, Levels
<1>2. \A d \in n .. Height' : FALSE
  BY <1>1
<1>3. Shape'
  BY <1>1, <1>2, <1>c, ShapeNew
<1>4. Types'
  BY <1>1, <1>3, <1>c, TypesAfter DEF Collects, Types, TypeOK
<1>5. Silents' = Silents
  BY DEF Silents, Used, Silent, Cfg
<1>6. n > 1 /\ undecided # 0 => /\ Free(captured', Fr(n - 1).s, Cardinality(Silents) + 1)
                                /\ captured'[Place(n)] = NoEvent
  <2> SUFFICES ASSUME n > 1, undecided # 0
               PROVE  /\ Free(captured', Fr(n - 1).s, Cardinality(Silents) + 1)
                      /\ captured'[Place(n)] = NoEvent
    OBVIOUS
  <2>1. Free(captured, Fr(n - 1).s, Cardinality(Silents) + 2)
    BY <1>1, <1>c, RoomBefore DEF EventOps
  <2>2. PICK t \in 1 .. MaxCaptured + 1, c \in Nat :
          t = Fr(n - 1).s /\ c = Cardinality(Silents) /\ t \in Nat
    BY <1>1, <1>c, SilentsAre, TopReleaseIs
  <2>3. Free(captured, t, (c + 1) + 1)
    BY <2>1, <2>2
  <2>4. Free(captured', t, c + 1)
    BY <2>2, <2>3 DEF Collects, Takes
  <2>5. captured'[t - 1] = NoEvent /\ Place(n) = t - 1
    BY <2>2, <2>4 DEF Free, Place
  <2> QED
    BY <2>2, <2>4, <2>5
<1>7. CellsInv'
  <2>1. captured' = captured \/ (OnRelease(n) /\ (n > 1 => captured'[Place(n)] = NoEvent))
    BY <1>6 DEF Collects
  <2> QED
    BY <1>1, <1>c, <2>1, CellsStay
<1>8. RoomLeft'
  <2>1. undecided' # 0 /\ n > 1 => Free(captured', Fr(n - 1).s, Cardinality(Silents') + 1)
    BY <1>5, <1>6
  <2> QED
    BY <1>1, <1>5, <1>c, <2>1, SilentsAre, RoomAfter
<1>9. ListenRoom' /\ InvokeInv' /\ InvokeRoom' /\ OwnSilent'
  BY <1>1, <1>2, <1>c, ListenRoomStay, InvokeNone, OwnSilentStay
<1>10. ASSUME undecided' # 0 \/ \E d \in Levels' : Fr(d)'.op \in {"listen", "invoke"}
       PROVE  \E w \in Slots : \A s \in Silents' : s = w \/ Ends(s)'
  <2>1. undecided # 0 \/ \E d \in Levels : Fr(d).op \in {"listen", "invoke"}
    BY <1>1, <1>10 DEF Levels, NewCalls, Kept
  <2>2. PICK w \in Slots : \A s \in Silents : s = w \/ Ends(s)
    BY <1>c, <2>1 DEF OneSilent
  <2>3. CASE Fr(n).op = "raise"
    <3>1. ASSUME NEW s \in Silents, Ends(s)
          PROVE  Ends(s)'
      <4>1. Fr(n).op \notin EndOps /\ {} \cap EndOps = {}
        BY <2>3 DEF EndOps
      <4> QED
        BY <1>1, <1>c, <3>1, <4>1, EndsStay
    <3> QED
      BY <1>5, <2>2, <3>1
  <2>4. CASE Fr(n).op = "invoke" /\ \A s \in Slots : Used(s) => held[s].pos # Fr(n).ev.key
    <3>1. \A s : Ends(s) <=> held[s].pos = Fr(n).ev.key
      <4>1. KeyAt(n) = Fr(n).ev.key /\ Fr(n).op \in EndOps
        BY <2>4 DEF KeyAt, EndOps
      <4> QED
        BY <1>c, <4>1, TopEnds
    <3>2. \A s \in Silents : s = w
      BY <2>2, <2>4, <3>1 DEF Silents
    <3> QED
      BY <1>5, <3>2
  <2> QED
    BY <2>3, <2>4
<1>11. OneSilent'
  BY <1>10 DEF OneSilent
<1>12. SlotsInv'
  <2>1. \A i : Low(i)' <=> Low(i)
    BY <1>1, <1>c, ReplaysStay, LowStays
  <2>2. EventCells' = EventCells /\ \A i \in EventCells : captured'[i] = captured[i]
    BY <1>c, GatheredEvents
  <2>3. \A s : Finishing(s)' <=> Finishing(s)
    BY <1>1, <1>c, FinishBelow
  <2> QED
    BY <1>c, <2>1, <2>2, <2>3, SlotsStay
<1>13. \A d \in Levels : Fr(d).op = "finish" =>
          /\ Fr(d).s # undecided
          /\ held[Fr(d).s].pos \in seen' => held[Fr(d).s].pos \in seen
  <2> SUFFICES ASSUME NEW d \in Levels, Fr(d).op = "finish"
               PROVE  /\ Fr(d).s # undecided
                      /\ held[Fr(d).s].pos \in seen' => held[Fr(d).s].pos \in seen
    OBVIOUS
  <2>1. d < n /\ d \in Nat
    BY <1>1, <1>c, FinishBelow, FrameTypes
  <2>2. n \in d + 1 .. Height
    BY <1>1, <2>1
  <2>3. ~ToDecide(d)
    BY <2>2 DEF ToDecide
  <2>4. Fr(d).s \in Slots
    BY <1>c DEF Shape, FrameShape
  <2> QED
    BY <1>c, <2>3, <2>4 DEF FinishInv
<1>14. FinishInv'
  <2>1. Fr(n).op # "finish"
    OBVIOUS
  <2> QED
    BY <1>1, <1>13, <1>c, <2>1, FinishStay
<1>15. PressInv'
  <2>1. Fr(n).op \notin {"decide", "release"}
    OBVIOUS
  <2> QED
    BY <1>1, <1>2, <1>3, <1>14, <1>c, <2>1, PressStay
<1> QED
  BY <1>4, <1>7, <1>8, <1>9, <1>11, <1>12, <1>14, <1>15
     DEF Core, RoomInv, SilentInv, CallInv

\* A keycode goes on, or is captured.
LEMMA EmitCollects ==
  ASSUME Types, NEW u, u = undecided, NEW code \in Codes, NEW state \in BOOLEAN, NEW ts \in Nat,
         SetIO(Emit(IO, u, code, state, ts)), lost' = {}
  PROVE  Collects(1)
<1>1. PICK io : io = Emit(IO, u, code, state, ts)
  OBVIOUS
<1>2. Emitted(IO, io, 1) /\ (Passes(u) => SameEvents(IO, io))
  BY <1>1, IOIs, Emits
<1>3. u = 0 => SameEvents(IO, io)
  BY <1>2 DEF Passes
<1> QED
  BY <1>1, <1>2, <1>3, SetIOCollects

LEMMA RaiseKeycodeKeeps ==
  ASSUME Core, RaiseKeycode, lost' = {}
  PROVE  Core'
<1>1. PICK n : n = Height
  OBVIOUS
<1>2. PICK e : e = Head(stack).ev
  OBVIOUS
<1>c. Types /\ ItemsInv
  BY DEF Core
<1>3. /\ n \in Levels /\ n \in Nat /\ Fr(n).ev = e /\ Fr(n).op = "raise" /\ FrameShape(n)
      /\ stack \in Seq(Frames) /\ stack # <<>>
  BY <1>1, <1>2, <1>c, Top DEF RaiseKeycode
<1>4. e.t = "code" /\ OnRelease(n) /\ EventOK(e)
  BY <1>2, <1>3 DEF RaiseKeycode, FrameShape, EventOps
<1>5. e.key \in Codes /\ e.state \in BOOLEAN /\ e.ts \in Nat
  BY <1>4 DEF EventOK, Event
<1>6. Collects(1)
  <2>1. PICK u : u = undecided
    OBVIOUS
  <2>2. SetIO(Emit(IO, u, e.key, e.state, e.ts))
    BY <1>2, <2>1 DEF RaiseKeycode
  <2> QED
    BY <1>5, <1>c, <2>1, <2>2, EmitCollects
<1>7. Returned(n)
  BY <1>1, <1>3, Calls0 DEF RaiseKeycode
<1>8. UNCHANGED <<config, now, undecided, held, timer, down, presses, seen, typed>>
  BY DEF RaiseKeycode
<1>9. Items' = Items
  <2>1. NewCalls(n, {}) /\ Height' = n - 1 /\ n >= 1
    BY <1>3, <1>7, NewCallsAre DEF Returned, Levels
  <2>2. n \notin EventFrames /\ \A d \in n .. Height' : FALSE
    BY <1>3, <1>4, <2>1 DEF EventFrames
  <2> QED
    BY <1>1, <1>3, <1>6, <1>c, <2>1, <2>2, ItemsStay
<1>10. ItemsInv'
  BY <1>8, <1>9, <1>c, ItemsInvStay
<1>11. seen' \subseteq Positions /\ typed' \in Seq(Positions)
  BY <1>8, <1>c DEF Types, TypeOK
<1> QED
  BY <1>1, <1>3, <1>4, <1>6, <1>7, <1>8, <1>9, <1>10, <1>11, ReturnKeeps
-----------------------------------------------------------------------------
(* The bindings *)

\* What the keymap is about to handle is the first event of its key, a press of all keys.
LEMMA InvokeFirst ==
  ASSUME Core, NEW n \in EventFrames, n = Height, Fr(n).op = "invoke"
  PROVE  /\ FirstOf(Items, Own(n))
         /\ Fr(n).ev.state => undecided = 0 /\ \A x \in Items : Own(n).at <= x.at
<1>1. /\ Own(n) \in Items /\ Own(n).at = Place(n) /\ Own(n).key = Fr(n).ev.key /\ n \in Levels
      /\ Types /\ Rising /\ Gap /\ LowEmpty
  BY OwnIs, EventFrameIs DEF Core, CellsInv
<1>2. FirstOf(Items, Own(n)) /\ (Fr(n).ev.state => undecided = 0)
  BY <1>1 DEF Core, CallInv, InvokeInv, FirstOf
<1>3. Fr(n).ev.state => \A x \in Items : Own(n).at <= x.at
  BY <1>1, <1>2, FirstOfAll
<1> QED
  BY <1>2, <1>3

\* The binding returns with the event handled.
LEMMA BindingReturns ==
  ASSUME Core, lost' = {}, NEW n \in EventFrames, n = Height, Fr(n).op = "invoke", Returned(n),
         Collects(1), KeymapSees(Fr(n).ev), \A s \in Slots : Used(s) => held[s].pos # Fr(n).ev.key,
         UNCHANGED <<config, now, undecided, held, timer, down, presses>>
  PROVE  Core'
<1>c. Types /\ ItemsInv /\ Rising /\ Gap
  BY DEF Core, CellsInv
<1>1. n \in Levels /\ OnRelease(n) /\ n \in Nat /\ n >= 1
  BY <1>c, EventFrameIs, FrameTypes DEF Levels
<1>2. NewCalls(n, {})
  BY <1>1, NewCallsAre
<1>3. Items' = Items \ {Own(n)}
  BY <1>1, <1>2, <1>c, ItemsHandled
<1>4. /\ FirstOf(Items, Own(n))
      /\ Fr(n).ev.state => undecided = 0 /\ \A x \in Items : Own(n).at <= x.at
  BY InvokeFirst
<1>5. ItemsInv' /\ typed' \in Seq(Positions)
  BY <1>3, <1>4, <1>c, ItemsInvHandled
<1>6. seen' \subseteq Positions
  BY <1>c, EventFrameIs DEF KeymapSees, Types, TypeOK
<1>7. \A s \in Slots : Used(s) => (held[s].pos \in seen' <=> held[s].pos \in seen)
  BY DEF KeymapSees
<1> QED
  BY <1>1, <1>3, <1>5, <1>6, <1>7, ReturnKeeps

LEMMA InvokePlainKeeps ==
  ASSUME Core, InvokePlain, lost' = {}
  PROVE  Core'
<1>1. PICK n : n = Height
  OBVIOUS
<1>2. PICK e : e = Head(stack).ev
  OBVIOUS
<1>c. Types
  BY DEF Core
<1>3. /\ n \in Levels /\ n \in Nat /\ Fr(n).ev = e /\ Fr(n).op = "invoke" /\ FrameShape(n)
      /\ stack \in Seq(Frames) /\ stack # <<>>
  BY <1>1, <1>2, <1>c, Top DEF InvokePlain
<1>4. n \in EventFrames /\ e.key \in Plain /\ e.state \in BOOLEAN /\ e.ts \in Nat /\ Key(e.key) \in Codes
  BY <1>2, <1>3, CodesAre DEF InvokePlain, FrameShape, EventOps, EventFrames, EventOK, Event
<1>5. Collects(1)
  <2>1. PICK u : u = undecided
    OBVIOUS
  <2>2. SetIO(Emit(IO, u, Key(e.key), e.state, e.ts))
    BY <1>2, <2>1 DEF InvokePlain
  <2>3. PICK code : code = Key(e.key)
    OBVIOUS
  <2> QED
    BY <1>4, <1>c, <2>1, <2>2, <2>3, EmitCollects
<1>6. Returned(n) /\ KeymapSees(Fr(n).ev)
  BY <1>1, <1>2, <1>3, Calls0 DEF InvokePlain
<1>7. UNCHANGED <<config, now, undecided, held, timer, down, presses>>
  BY DEF InvokePlain
<1>8. \A s \in Slots : Used(s) => held[s].pos # Fr(n).ev.key
  <2>1. \A s \in Slots : Used(s) => held[s].pos \in HoldTaps
    BY <1>c, SlotIs DEF Types
  <2> QED
    BY <1>3, <1>4, <2>1, ConstantsAssumption
<1> QED
  BY <1>1, <1>3, <1>4, <1>5, <1>6, <1>7, <1>8, BindingReturns

LEMMA UntouchedCollectsOne ==
  ASSUME Types, UNCHANGED <<captured, lastTapped, out, lost>>
  PROVE  Collects(1)
<1>1. Collects(0) /\ captured' = captured
  BY UntouchedCollects
<1>2. Takes(captured, captured, 1)
  <2> SUFFICES ASSUME NEW t \in 1 .. MaxCaptured + 1, NEW k \in Nat, Free(captured, t, k + 1)
               PROVE  Free(captured, t, k)
    BY DEF Takes
  <2>1. t \in Nat /\ k + 1 \in Nat /\ k <= k + 1
    BY Constants
  <2> QED
    BY <2>1, FreeLess
<1> QED
  BY <1>1, <1>2 DEF Collects

LEMMA LeastFree ==
  ASSUME NEW T, T \subseteq Slots, T # {}, NEW s, s = CHOOSE x \in T : \A y \in T : x <= y
  PROVE  s \in T
<1>1. \E x \in T : \A y \in T : x <= y
  BY Constants, Least
<1> QED
  BY <1>1

LEMMA CallsInTwo ==
  ASSUME NEW f \in Frames, NEW g \in Frames, NEW h \in Frames
  PROVE  <<f>> \o <<g, h>> = <<f, g, h>> /\ <<>> \o <<g, h>> = <<g, h>>
<1>1. PICK a : a = <<f>> /\ a \in Seq(Frames) /\ Len(a) = 1 /\ a[1] = f
  <2> DEFINE q == <<f>>
  <2>1. q \in Seq(Frames) /\ Len(q) = 1 /\ q[1] = f
    OBVIOUS
  <2> QED
    BY <2>1
<1>2. PICK b : b = <<g, h>> /\ b \in Seq(Frames) /\ Len(b) = 2 /\ b[1] = g /\ b[2] = h
  <2> DEFINE q == <<g, h>>
  <2>1. q \in Seq(Frames) /\ Len(q) = 2 /\ q[1] = g /\ q[2] = h
    OBVIOUS
  <2> QED
    BY <2>1
<1>3. PICK c : c = <<f, g, h>> /\ c \in Seq(Frames) /\ Len(c) = 3 /\ c[1] = f /\ c[2] = g /\ c[3] = h
  <2> DEFINE q == <<f, g, h>>
  <2>1. q \in Seq(Frames) /\ Len(q) = 3 /\ q[1] = f /\ q[2] = g /\ q[3] = h
    OBVIOUS
  <2> QED
    BY <2>1
<1>4. PICK ab : ab = a \o b
  OBVIOUS
<1>5. /\ ab \in Seq(Frames) /\ Len(ab) = Len(a) + Len(b)
      /\ \A i \in 1 .. Len(a) + Len(b) : ab[i] = IF i <= Len(a) THEN a[i] ELSE b[i - Len(a)]
  <2>1. a \in Seq(Frames) /\ b \in Seq(Frames)
    BY <1>1, <1>2
  <2>2. /\ a \o b \in Seq(Frames) /\ Len(a \o b) = Len(a) + Len(b)
        /\ \A i \in 1 .. Len(a) + Len(b) : (a \o b)[i] = IF i <= Len(a) THEN a[i] ELSE b[i - Len(a)]
    BY <2>1, ConcatProperties, Zenon
  <2> QED
    BY <1>4, <2>2
<1>6. Len(ab) = 3 /\ ab[1] = f /\ ab[2] = g /\ ab[3] = h
  BY <1>1, <1>2, <1>5
<1>7. ab = c
  <2>1. \A i \in 1 .. Len(ab) : ab[i] = c[i]
    <3>1. \A i \in 1 .. 3 : i = 1 \/ i = 2 \/ i = 3
      OBVIOUS
    <3> QED
      BY <1>3, <1>6, <3>1
  <2>2. Len(ab) = Len(c)
    BY <1>3, <1>6
  <2> QED
    BY <1>3, <1>5, <2>1, <2>2, SeqEqual, Zenon
<1>8. <<>> \o b = b
  BY <1>2, ConcatEmptySeq, Zenon
<1> QED
  BY <1>1, <1>2, <1>3, <1>4, <1>7, <1>8

\* What a pressed hold-tap does: it has no slot, or store_hold_tap finds one.
LEMMA PressedSplits ==
  ASSUME Types, InvokePressed, NEW n, n = Height, NEW e, e = Head(stack).ev
  PROVE  /\ n \in EventFrames /\ Fr(n).ev = e /\ Fr(n).op = "invoke" /\ n \in Levels /\ n \in Nat
         /\ OnRelease(n) /\ n >= 1
         /\ e.key \in HoldTaps /\ e.state = TRUE /\ e \in Event /\ e.t = "pos" /\ KeymapSees(e)
         /\ UNCHANGED <<config, now, timer, captured, lastTapped, down, presses, out, lost>>
         /\ \/ Returned(n) /\ UNCHANGED <<held, undecided>>
            \/ /\ undecided = 0
               /\ \E s \in Slots :
                    /\ ~Used(s) /\ undecided' = s
                    /\ held' = [held EXCEPT ![s] = [pos |-> e.key, status |-> "UNDECIDED",
                                  ts |-> e.ts, first |-> NoPos, cancelled |-> held[s].cancelled]]
                    /\ \/ Becomes2(n, Decide(s, "KEY_DOWN", e), Schedule(s))
                       \/ /\ Becomes3(n, Decide(s, "QUICK_TAP", e), Decide(s, "KEY_DOWN", e), Schedule(s))
                          /\ IsQuickTap(e.key, e.ts)
<1>1. /\ n \in Levels /\ n \in Nat /\ Fr(n).ev = e /\ Fr(n).op = "invoke" /\ FrameShape(n)
      /\ stack \in Seq(Frames) /\ stack # <<>>
  BY Top DEF InvokePressed
<1>2. /\ n \in EventFrames /\ OnRelease(n) /\ n >= 1 /\ e.key \in HoldTaps /\ e.state = TRUE /\ e \in Event /\ e.t = "pos"
  BY <1>1 DEF InvokePressed, FrameShape, EventOps, EventFrames, EventOK, Event, Levels
<1>3. KeymapSees(e) /\ UNCHANGED <<config, now, timer, captured, lastTapped, down, presses, out, lost>>
  BY DEF InvokePressed
<1> DEFINE free == {s \in Slots : held[s].pos = NoPos}
<1>4. \/ Call(<<>>) /\ UNCHANGED <<held, undecided>>
      \/ /\ undecided = 0 /\ free # {}
         /\ \E s : /\ s = CHOOSE x \in free : \A y \in free : x <= y
                   /\ held' = [held EXCEPT ![s] = [pos |-> e.key, status |-> "UNDECIDED",
                                  ts |-> e.ts, first |-> NoPos, cancelled |-> @.cancelled]]
                   /\ undecided' = s
                   /\ Call((IF IsQuickTap(e.key, e.ts) THEN <<Decide(s, "QUICK_TAP", e)>> ELSE <<>>)
                              \o <<Decide(s, "KEY_DOWN", e), Schedule(s)>>)
  BY DEF InvokePressed
<1>5. CASE Call(<<>>) /\ UNCHANGED <<held, undecided>>
  <2>1. Returned(n)
    BY <1>1, <1>5, Calls0
  <2> QED
    BY <1>1, <1>2, <1>3, <1>5, <2>1
<1>6. ASSUME undecided = 0, free # {}, NEW s,
             s = CHOOSE x \in free : \A y \in free : x <= y,
             held' = [held EXCEPT ![s] = [pos |-> e.key, status |-> "UNDECIDED",
                         ts |-> e.ts, first |-> NoPos, cancelled |-> @.cancelled]],
             undecided' = s,
             Call((IF IsQuickTap(e.key, e.ts) THEN <<Decide(s, "QUICK_TAP", e)>> ELSE <<>>)
                     \o <<Decide(s, "KEY_DOWN", e), Schedule(s)>>)
      PROVE  /\ s \in Slots /\ ~Used(s)
             /\ \/ Becomes2(n, Decide(s, "KEY_DOWN", e), Schedule(s))
                \/ /\ Becomes3(n, Decide(s, "QUICK_TAP", e), Decide(s, "KEY_DOWN", e), Schedule(s))
                   /\ IsQuickTap(e.key, e.ts)
  <2>1. s \in free
    BY <1>6, LeastFree
  <2>2. s \in Slots /\ ~Used(s) /\ s \in Nat
    BY <2>1, Constants DEF Used
  <2>3. PICK f \in Frames : f = Decide(s, "QUICK_TAP", e)
    BY <1>2, <2>2, FramesAre DEF Moments
  <2>4. PICK g \in Frames : g = Decide(s, "KEY_DOWN", e)
    BY <1>2, <2>2, FramesAre DEF Moments
  <2>5. PICK h \in Frames : h = Schedule(s)
    BY <1>2, <2>2, FramesAre DEF Moments
  <2>6. Call((IF IsQuickTap(e.key, e.ts) THEN <<f>> ELSE <<>>) \o <<g, h>>)
    BY <1>6, <2>3, <2>4, <2>5
  <2>7. <<f>> \o <<g, h>> = <<f, g, h>> /\ <<>> \o <<g, h>> = <<g, h>>
    BY CallsInTwo
  <2>8. (Call(<<f, g, h>>) /\ IsQuickTap(e.key, e.ts)) \/ Call(<<g, h>>)
    BY <2>6, <2>7
  <2>9. (Becomes3(n, f, g, h) /\ IsQuickTap(e.key, e.ts)) \/ Becomes2(n, g, h)
    BY <1>1, <2>8, Calls2, Calls3
  <2> QED
    BY <2>2, <2>3, <2>4, <2>5, <2>9
<1> QED
  BY <1>1, <1>2, <1>3, <1>4, <1>5, <1>6

\* Below a press and below a release stay the calls that were there.
LEMMA PressKeeps ==
  ASSUME Types, PressInv, NEW n \in Levels, n = Height, Fr(n).op \notin {"decide", "release"},
         NEW ops, NewCalls(n, ops), NEW d \in 1 .. n - 1,
         Fr(d).op = "decide" => held'[Fr(d).s].pos = held[Fr(d).s].pos
  PROVE  /\ Fr(d)'.op # "schedule" /\ ~(Fr(d)'.op = "decide" /\ Fr(d)'.moment = "KEY_DOWN")
         /\ Fr(d)'.op = "decide" => Used(Fr(d).s)'
<1>1. Fr(d)' = Fr(d)
  BY DEF NewCalls, Kept
<1>2. /\ d \in Levels /\ Fr(d).op # "schedule"
      /\ ~(Fr(d).op = "decide" /\ Fr(d).moment = "KEY_DOWN")
  BY PressBelow
<1> QED
  BY <1>1, <1>2 DEF PressInv, Used

\* While nothing is undecided a press has all the cells before it for its hold-tap.
LEMMA PressHasRoom ==
  ASSUME Core, NEW n \in EventFrames, n = Height, Fr(n).op = "invoke", Fr(n).ev.state, undecided = 0
  PROVE  /\ n > 1 => Free(captured, Fr(n - 1).s, Cardinality(Silents) + 1)
         /\ captured[1] = NoEvent
<1>c. Types /\ Rising /\ Gap /\ LowEmpty /\ InvokeRoom
  BY DEF Core, CellsInv, RoomInv
<1>1. /\ n \in Levels /\ n \in Nat /\ n >= 1 /\ OnRelease(n) /\ Fr(n).op # "release"
      /\ MaxCaptured \in Nat /\ MaxCaptured >= 1 /\ Cells = 1 .. MaxCaptured
  BY <1>c, EventFrameIs, FrameTypes, Constants DEF Levels, Cells
<1>2. /\ Place(n) \in 1 .. MaxCaptured + 1
      /\ \A i \in Cells : Low(i) <=> i <= Place(n)
  BY <1>1, <1>c, PlaceIs
<1>3. \A i \in Cells : i <= Place(n) => captured[i] = NoEvent
  BY <1>2, <1>c DEF LowEmpty, Full
<1>4. captured[1] = NoEvent
  BY <1>1, <1>2, <1>3
<1>5. ASSUME n > 1
      PROVE  Free(captured, Fr(n - 1).s, Cardinality(Silents) + 1)
  <2>1. PICK t \in 1 .. MaxCaptured + 1, c \in Nat :
          t = Fr(n - 1).s /\ c = Cardinality(Silents) /\ t \in Nat
    BY <1>1, <1>5, <1>c, SilentsAre, TopReleaseIs
  <2>2. t >= 2 + c
    BY <1>1, <1>5, <1>c, <2>1 DEF InvokeRoom
  <2>3. Place(n) = t - 1
    BY <1>1, <1>5, <2>1 DEF Place
  <2>4. t - (c + 1) >= 1 /\ \A i \in t - (c + 1) .. t - 1 : i \in Cells /\ i <= Place(n)
    BY <1>1, <2>1, <2>2, <2>3
  <2>5. Free(captured, t, c + 1)
    BY <1>3, <2>4 DEF Free
  <2> QED
    BY <2>1, <2>5
<1> QED
  BY <1>4, <1>5

\* store_hold_tap and what on_hold_tap_binding_pressed has still to do
LEMMA StoreKeeps ==
  ASSUME Core, lost' = {}, NEW n \in EventFrames, n = Height, NEW e \in Event, Fr(n).ev = e,
         Fr(n).op = "invoke", e.key \in HoldTaps, e.state = TRUE, e.t = "pos", KeymapSees(e),
         UNCHANGED <<config, now, timer, captured, lastTapped, down, presses, out, lost>>,
         undecided = 0, NEW s \in Slots, ~Used(s), undecided' = s,
         held' = [held EXCEPT ![s] = [pos |-> e.key, status |-> "UNDECIDED",
                                      ts |-> e.ts, first |-> NoPos, cancelled |-> held[s].cancelled]],
         \/ Becomes2(n, Decide(s, "KEY_DOWN", e), Schedule(s))
         \/ Becomes3(n, Decide(s, "QUICK_TAP", e), Decide(s, "KEY_DOWN", e), Schedule(s))
  PROVE  Core'
<1>c. /\ Types /\ Shape /\ CellsInv /\ Rising /\ Gap /\ LowEmpty /\ ItemsInv /\ SlotsInv /\ FinishInv
      /\ PressInv /\ RoomLeft /\ ListenRoom /\ OneSilent /\ OwnSilent
  BY DEF Core, Types, CellsInv, CallInv, SilentInv, RoomInv
<1>1. /\ n \in Levels /\ n \in Nat /\ n >= 1 /\ OnRelease(n) /\ e.key \in Positions
  BY <1>c, EventFrameIs, FrameTypes DEF Levels
<1>2. /\ s \in Nat /\ s # 0
      /\ Decide(s, "KEY_DOWN", e).op = "decide" /\ Decide(s, "KEY_DOWN", e).s = s
      /\ Decide(s, "KEY_DOWN", e).moment = "KEY_DOWN"
      /\ Decide(s, "QUICK_TAP", e).op = "decide" /\ Decide(s, "QUICK_TAP", e).s = s
      /\ Decide(s, "QUICK_TAP", e).moment = "QUICK_TAP"
      /\ Schedule(s).op = "schedule" /\ Schedule(s).s = s
  BY Constants, FramesAre DEF Moments
<1>3. NewCalls(n, {"decide", "schedule"})
  <2>1. ASSUME Becomes2(n, Decide(s, "KEY_DOWN", e), Schedule(s))
        PROVE  NewCalls(n, {"decide", "schedule"})
    BY <1>1, <1>2, <2>1, NewCallsAre
  <2>2. ASSUME Becomes3(n, Decide(s, "QUICK_TAP", e), Decide(s, "KEY_DOWN", e), Schedule(s))
        PROVE  NewCalls(n, {"decide", "decide", "schedule"})
    BY <1>1, <1>2, <2>2, NewCallsAre
  <2>3. {"decide", "decide", "schedule"} = {"decide", "schedule"}
    OBVIOUS
  <2> QED
    BY <2>1, <2>2, <2>3
<1>4. /\ Fr(n)'.op = "schedule" /\ Fr(n)'.s = s
      /\ Fr(n + 1)'.op = "decide" /\ Fr(n + 1)'.s = s /\ Fr(n + 1)'.moment = "KEY_DOWN"
      /\ \/ Height' = n + 1
         \/ Height' = n + 2 /\ Fr(n + 2)'.op = "decide" /\ Fr(n + 2)'.s = s /\ Fr(n + 2)'.moment = "QUICK_TAP"
      /\ stack' \in Seq(Frames)
  BY <1>2 DEF Becomes2, Becomes3
<1>5. \A d \in n .. Height' : d = n \/ d = n + 1 \/ (d = n + 2 /\ Height' = n + 2)
  BY <1>1, <1>4
<1>6. Collects(0) /\ captured' = captured
  BY <1>c, UntouchedCollects
<1>7. OnRelease(n)'
  BY <1>3, <1>c, <1>1, OnReleaseStays
<1>8. \A d \in n .. Height' : FrameShape(d)'
  <2> TAKE d \in n .. Height'
  <2>1. d = n => FrameShape(d)'
    BY <1>4, <1>7 DEF FrameShape, EventOps
  <2>2. ASSUME d = n + 1
        PROVE  FrameShape(d)'
    <3>1. Fr(d)'.op = "decide" /\ Fr(d)'.s = s /\ Fr(d)'.moment = "KEY_DOWN" /\ d > 1 /\ d - 1 = n
      BY <1>1, <1>4, <2>2
    <3>2. Fr(d - 1)'.op = "schedule" /\ Fr(d - 1)'.s = s
      BY <1>4, <3>1
    <3>3. DecideShape(d)'
      BY <3>1, <3>2 DEF DecideShape, Returns
    <3> QED
      BY <3>1, <3>3 DEF FrameShape, EventOps
  <2>3. ASSUME d = n + 2, Height' = n + 2
        PROVE  FrameShape(d)'
    <3>1. /\ Fr(d)'.op = "decide" /\ Fr(d)'.s = s /\ Fr(d)'.moment = "QUICK_TAP" /\ d > 1 /\ d - 1 = n + 1
          /\ d = Height'
      BY <1>1, <1>4, <2>3
    <3>2. Fr(d - 1)'.op = "decide" /\ Fr(d - 1)'.s = s /\ Fr(d - 1)'.moment = "KEY_DOWN"
      BY <1>4, <3>1
    <3>3. DecideShape(d)'
      BY <3>1, <3>2 DEF DecideShape, Returns
    <3> QED
      BY <3>1, <3>3 DEF FrameShape, EventOps
  <2> QED
    BY <1>5, <2>1, <2>2, <2>3
<1>9. Shape'
  BY <1>1, <1>3, <1>8, <1>c, ShapeNew
<1>10. FirstOf(Items, Own(n)) /\ \A x \in Items : Own(n).at <= x.at
  BY InvokeFirst
<1>11. \A x \in Slots : Used(x) => held[x].pos # e.key
  BY <1>c, <1>10, PressNotUsed
<1>12. Items' = Items \ {Own(n)}
  BY <1>1, <1>3, <1>6, <1>c, ItemsHandled DEF EventOps
<1>13. ItemsInv' /\ typed' \in Seq(Positions)
  BY <1>10, <1>12, <1>c, ItemsInvHandled
<1>14. seen' = seen \cup {e.key} /\ seen' \subseteq Positions
  BY <1>1, <1>c DEF KeymapSees, Types, TypeOK
<1>15. /\ held' \in [Slots -> [pos : HoldTaps \cup {NoPos}, status : Statuses, ts : Nat,
                              first : Positions \cup {NoPos}, cancelled : BOOLEAN]]
       /\ held'[s].pos = e.key /\ held'[s].status = "UNDECIDED" /\ held'[s].cancelled = held[s].cancelled
       /\ \A x \in Slots : x # s => held'[x] = held[x]
  <2>1. held \in [Slots -> [pos : HoldTaps \cup {NoPos}, status : Statuses, ts : Nat,
                           first : Positions \cup {NoPos}, cancelled : BOOLEAN]]
    BY <1>c DEF Types, TypeOK
  <2>2. e.ts \in Nat /\ held[s].cancelled \in BOOLEAN /\ "UNDECIDED" \in Statuses
    BY <2>1 DEF Event, Statuses
  <2> QED
    BY <2>1, <2>2
<1>16. Types'
  <2>1. undecided' \in 0 .. MaxHeld
    BY DEF Slots
  <2> QED
    BY <1>4, <1>6, <1>9, <1>13, <1>14, <1>15, <1>c, <2>1, TypesAfter DEF Collects, Types, TypeOK
<1>17. CellsInv'
  BY <1>1, <1>2, <1>3, <1>6, <1>c, CellsStay
<1>18. NoPos \notin Positions /\ HoldTaps \subseteq Positions /\ held[s].pos = NoPos
  BY ConstantsAssumption DEF Positions, Used
<1>19. \A x \in Slots : Used(x) => x # s /\ Used(x)' /\ held'[x] = held[x]
  BY <1>15 DEF Used
<1>20. Used(s)'
  BY <1>15, <1>18 DEF Used
<1>21. Silents' = Silents
  <2> SUFFICES ASSUME NEW x \in Slots
               PROVE  (Used(x)' /\ Silent(x, held[x].status)') <=> (Used(x) /\ Silent(x, held[x].status))
    BY DEF Silents
  <2>1. x = s => ~Silent(x, held[x].status)' /\ ~Used(x)
    BY <1>15 DEF Silent
  <2>2. x # s => held'[x] = held[x]
    BY <1>15
  <2> QED
    BY <2>1, <2>2 DEF Used, Silent, Cfg
<1>22. RoomLeft'
  <2>1. undecided' # 0 /\ n > 1 => Free(captured', Fr(n - 1).s, Cardinality(Silents') + 1)
    BY <1>6, <1>21, PressHasRoom
  <2> QED
    BY <1>1, <1>3, <1>21, <1>c, <2>1, SilentsAre, RoomAfter DEF EventOps
<1>23. ListenRoom' /\ InvokeInv' /\ InvokeRoom'
  <2>1. \A d \in n .. Height' : Fr(d)'.op # "listen"
    BY <1>4, <1>5
  <2> QED
    BY <1>1, <1>3, <1>c, <2>1, ListenRoomStay, InvokeNone
<1>24. OwnSilent'
  <2>1. \A d \in n .. Height' : d > 1 /\ Fr(d)'.op = "decide" => Fr(d - 1)'.op # "listen"
    <3> TAKE d \in n .. Height'
    <3>1. PICK k : k = d - 1
      OBVIOUS
    <3>2. d = n \/ k = n \/ k = n + 1
      BY <1>1, <1>5, <3>1
    <3>3. Fr(d)'.op = "decide" => Fr(k)'.op # "listen"
      BY <1>4, <3>2
    <3> QED
      BY <3>1, <3>3
  <2> QED
    BY <1>1, <1>3, <1>c, <2>1, OwnSilentStay
<1>25. OneSilent'
  <2>1. KeyAt(n) = e.key /\ Fr(n).op \in EndOps
    BY DEF KeyAt, EndOps
  <2>2. \A x : Ends(x) <=> held[x].pos = e.key
    BY <1>1, <1>c, <2>1, TopEnds
  <2>3. \E w \in Slots : \A x \in Silents : x = w \/ Ends(x)
    BY <1>1, <1>c DEF OneSilent
  <2>4. \E w \in Slots : \A x \in Silents : x = w
    BY <1>11, <2>2, <2>3 DEF Silents
  <2> QED
    BY <1>21, <2>4 DEF OneSilent
<1>26. SlotsInv'
  <2>1. UndecidedIsUnique'
    <3> SUFFICES ASSUME NEW x \in Slots
                 PROVE  x = undecided' <=> (held'[x].pos # NoPos /\ held'[x].status = "UNDECIDED")
      BY DEF UndecidedIsUnique
    <3>1. x = s => x = undecided' /\ held'[x].pos # NoPos /\ held'[x].status = "UNDECIDED"
      BY <1>15, <1>20 DEF Used
    <3>2. x # s => ~(held[x].pos # NoPos /\ held[x].status = "UNDECIDED")
      BY <1>c, Constants DEF SlotsInv, UndecidedIsUnique
    <3> QED
      BY <1>15, <3>1, <3>2
  <2>2. NoStaleTimer'
    <3>1. \A x \in Slots : timer[x] => Used(x)
      BY <1>c DEF SlotsInv, NoStaleTimer, Used
    <3>2. \A x \in Slots : timer'[x] => Used(x)'
      BY <1>19, <3>1
    <3> QED
      BY <3>2 DEF NoStaleTimer, Used
  <2>3. OneSlotPerKey'
    <3> SUFFICES ASSUME NEW x \in Slots, NEW y \in Slots, Used(x)', held'[x].pos = held'[y].pos
                 PROVE  x = y
      BY DEF OneSlotPerKey
    <3>1. x # s => Used(x)
      BY <1>15 DEF Used
    <3>2. y # s => Used(y)
      BY <1>15 DEF Used
    <3> QED
      BY <1>11, <1>15, <1>c, <3>1, <3>2 DEF SlotsInv, OneSlotPerKey
  <2>4. SlotsReturn'
    <3> SUFFICES ASSUME NEW x \in Slots, Used(x)'
                 PROVE  held'[x].pos \in seen' \/ held'[x].cancelled \/ Finishing(x)'
      BY DEF SlotsReturn
    <3>1. CASE x = s
      BY <1>14, <1>15, <3>1
    <3>2. CASE x # s
      <4>1. held'[x] = held[x] /\ Used(x)
        BY <1>15, <3>2 DEF Used
      <4>2. held[x].pos \in seen \/ held[x].cancelled \/ Finishing(x)
        BY <1>c, <4>1 DEF SlotsInv, SlotsReturn
      <4>3. Finishing(x)' <=> Finishing(x)
        BY <1>1, <1>3, <1>c, FinishBelow
      <4> QED
        BY <1>14, <4>1, <4>2, <4>3
    <3> QED
      BY <3>1, <3>2
  <2>5. CancelledDone'
    <3> SUFFICES ASSUME NEW x \in Slots, held'[x].cancelled
                 PROVE  /\ Used(x)' /\ timer'[x] /\ x # undecided' /\ held'[x].pos \notin seen'
                        /\ \A y \in Items' : y.key # held'[x].pos
      BY DEF CancelledDone
    <3>1. held[x].cancelled
      BY <1>15
    <3>2. Used(x) /\ timer[x] /\ held[x].pos \notin seen /\ \A y \in Items : y.key # held[x].pos
      BY <1>c, <3>1 DEF SlotsInv, CancelledDone
    <3> QED
      BY <1>11, <1>12, <1>14, <1>19, <3>2
  <2>6. OthersCaptured'
    <3>1. \A i : Low(i)' <=> Low(i)
      BY <1>1, <1>3, <1>c, ReplaysStay, LowStays
    <3>2. EventCells' = EventCells /\ EventCells \subseteq Cells
      BY <1>6 DEF EventCells
    <3>3. \A i \in EventCells : Full(i)
      BY <1>c, EventCellIs
    <3>4. \A i \in EventCells : ~Low(i)
      BY <1>c, <3>2, <3>3 DEF LowEmpty
    <3> QED
      BY <3>1, <3>2, <3>4 DEF OthersCaptured
  <2> QED
    BY <2>1, <2>2, <2>3, <2>4, <2>5, <2>6 DEF SlotsInv
<1>27. FinishInv'
  <2>1. \A d \in Levels : Fr(d).op = "finish" =>
          /\ held'[Fr(d).s].pos = held[Fr(d).s].pos /\ Fr(d).s # s
          /\ held[Fr(d).s].pos \in seen' => held[Fr(d).s].pos \in seen
    <3> SUFFICES ASSUME NEW d \in Levels, Fr(d).op = "finish"
                 PROVE  /\ held'[Fr(d).s].pos = held[Fr(d).s].pos /\ Fr(d).s # s
                        /\ held[Fr(d).s].pos \in seen' => held[Fr(d).s].pos \in seen
      OBVIOUS
    <3>1. Fr(d).s \in Slots /\ Used(Fr(d).s)
      BY <1>c DEF Shape, FrameShape, FinishInv
    <3> QED
      BY <1>11, <1>14, <1>19, <3>1
  <2> QED
    BY <1>1, <1>3, <1>12, <1>c, <2>1, FinishStay
<1>28. PressInv'
  <2>1. \A d \in 1 .. n - 1 :
          /\ Fr(d)'.op # "schedule" /\ ~(Fr(d)'.op = "decide" /\ Fr(d)'.moment = "KEY_DOWN")
          /\ Fr(d)'.op = "decide" => Used(Fr(d).s)'
    <3> TAKE d \in 1 .. n - 1
    <3>1. Fr(d).op = "decide" => held'[Fr(d).s].pos = held[Fr(d).s].pos
      <4>1. d \in Levels
        BY <1>1 DEF Levels
      <4>2. Fr(d).op = "decide" => Used(Fr(d).s) /\ Fr(d).s \in Slots
        BY <1>c, <4>1 DEF Shape, FrameShape, DecideShape, PressInv
      <4> QED
        BY <1>19, <4>2
    <3> QED
      BY <1>1, <1>3, <1>c, <3>1, PressKeeps
  <2>2. \A d \in Levels' : d \in 1 .. n - 1 \/ d \in n .. Height'
    BY <1>1 DEF Levels
  <2>3. captured'[1] = NoEvent
    BY <1>6, PressHasRoom
  <2>4. Fr(n)'.op = "schedule" /\ Fr(n + 1)'.op = "decide" /\ Fr(n + 1)'.moment = "KEY_DOWN"
    BY <1>4
  <2>5. /\ \A d \in n .. Height' : Used(Fr(d).s)'
        /\ \A d \in n .. Height' : Fr(d)'.op = "schedule" => d = n /\ held'[Fr(d)'.s].pos \in seen'
        /\ \A d \in n .. Height' : Fr(d)'.op = "decide" /\ Fr(d)'.moment = "KEY_DOWN" => d = n + 1
    BY <1>4, <1>5, <1>14, <1>15, <1>20
  <2>6. \/ n + 1 = Height'
        \/ /\ n + 1 + 1 = Height' /\ Fr(n + 1 + 1)'.op = "decide"
           /\ Fr(n + 1 + 1)'.moment = "QUICK_TAP"
    <3>1. n + 2 = n + 1 + 1
      BY <1>1
    <3> QED
      BY <1>4, <3>1
  <2>7. ASSUME NEW d \in n .. Height'
        PROVE  /\ Fr(d)'.op = "schedule" =>
                    d = Height' \/ (Fr(d + 1)'.op = "decide" /\ Fr(d + 1)'.moment = "KEY_DOWN")
               /\ Fr(d)'.op = "decide" /\ Fr(d)'.moment = "KEY_DOWN" =>
                    /\ captured'[1] = NoEvent
                    /\ \/ d = Height'
                       \/ d + 1 = Height' /\ Fr(d + 1)'.op = "decide" /\ Fr(d + 1)'.moment = "QUICK_TAP"
                       \/ d + 1 = Height' /\ Fr(d + 1)'.op = "release" /\ Fr(d + 1)'.s = 1
               /\ Fr(d)'.op \in {"schedule", "decide"} => Used(Fr(d).s)'
               /\ Fr(d)'.op = "schedule" => held'[Fr(d)'.s].pos \in seen'
    BY <2>3, <2>4, <2>5, <2>6
  <2> QED
    BY <2>1, <2>2, <2>7 DEF PressInv
<1> QED
  BY <1>13, <1>16, <1>17, <1>22, <1>23, <1>24, <1>25, <1>26, <1>27, <1>28
     DEF Core, RoomInv, SilentInv, CallInv

LEMMA InvokePressedKeeps ==
  ASSUME Core, InvokePressed, lost' = {}
  PROVE  Core'
<1>1. PICK n : n = Height
  OBVIOUS
<1>2. PICK e : e = Head(stack).ev
  OBVIOUS
<1>c. Types
  BY DEF Core
<1>3. /\ n \in EventFrames /\ Fr(n).ev = e /\ Fr(n).op = "invoke"
      /\ e.key \in HoldTaps /\ e.state = TRUE /\ e \in Event /\ e.t = "pos" /\ KeymapSees(e)
      /\ UNCHANGED <<config, now, timer, captured, lastTapped, down, presses, out, lost>>
      /\ \/ Returned(n) /\ UNCHANGED <<held, undecided>>
         \/ /\ undecided = 0
            /\ \E s \in Slots :
                 /\ ~Used(s) /\ undecided' = s
                 /\ held' = [held EXCEPT ![s] = [pos |-> e.key, status |-> "UNDECIDED",
                               ts |-> e.ts, first |-> NoPos, cancelled |-> held[s].cancelled]]
                 /\ \/ Becomes2(n, Decide(s, "KEY_DOWN", e), Schedule(s))
                    \/ Becomes3(n, Decide(s, "QUICK_TAP", e), Decide(s, "KEY_DOWN", e), Schedule(s))
  BY <1>1, <1>2, <1>c, PressedSplits
<1>4. CASE Returned(n) /\ UNCHANGED <<held, undecided>>
  <2>1. FirstOf(Items, Own(n))
    BY <1>1, <1>3, InvokeFirst
  <2>2. \A s \in Slots : Used(s) => held[s].pos # Fr(n).ev.key
    BY <1>1, <1>3, <2>1, PressNotUsed DEF Core, CellsInv, CallInv
  <2>3. Collects(1)
    BY <1>3, <1>c, UntouchedCollectsOne
  <2>4. UNCHANGED <<config, now, undecided, held, timer, down, presses>>
    BY <1>3, <1>4
  <2> QED
    BY <1>1, <1>3, <1>4, <2>2, <2>3, <2>4, BindingReturns
<1>5. CASE ~(Returned(n) /\ UNCHANGED <<held, undecided>>)
  <2>1. PICK s \in Slots :
          /\ undecided = 0 /\ ~Used(s) /\ undecided' = s
          /\ held' = [held EXCEPT ![s] = [pos |-> e.key, status |-> "UNDECIDED",
                        ts |-> e.ts, first |-> NoPos, cancelled |-> held[s].cancelled]]
          /\ \/ Becomes2(n, Decide(s, "KEY_DOWN", e), Schedule(s))
             \/ Becomes3(n, Decide(s, "QUICK_TAP", e), Decide(s, "KEY_DOWN", e), Schedule(s))
    BY <1>3, <1>5
  <2> QED
    BY <1>1, <1>3, <2>1, StoreKeeps
<1> QED
  BY <1>4, <1>5

\* What a released hold-tap does: it has no slot, or its release has still to be finished.
LEMMA ReleasedSplits ==
  ASSUME Types, InvokeReleased, NEW n, n = Height, NEW e, e = Head(stack).ev
  PROVE  /\ n \in EventFrames /\ Fr(n).ev = e /\ Fr(n).op = "invoke" /\ n \in Levels /\ n \in Nat
         /\ OnRelease(n) /\ n >= 1
         /\ e.key \in HoldTaps /\ ~e.state /\ e \in Event /\ e.t = "pos" /\ KeymapSees(e)
         /\ UNCHANGED <<config, now, undecided, held, captured, lastTapped, down, presses, out, lost>>
         /\ \/ Returned(n) /\ UNCHANGED timer /\ \A s \in Slots : held[s].pos # e.key
            \/ \E s \in Slots, p \in BOOLEAN :
                 /\ held[s].pos = e.key /\ (p => n = 1)
                 /\ timer' = [timer EXCEPT ![s] = p]
                 /\ LET m == IF p THEN "TIMER_EVENT" ELSE "KEY_UP"
                    IN \/ Becomes2(n, Decide(s, "KEY_UP", e), Finish(s, m))
                       \/ Becomes3(n, Decide(s, "TIMER_EVENT", e), Decide(s, "KEY_UP", e), Finish(s, m))
<1>1. /\ n \in Levels /\ n \in Nat /\ Fr(n).ev = e /\ Fr(n).op = "invoke" /\ FrameShape(n)
      /\ stack \in Seq(Frames) /\ stack # <<>>
  BY Top DEF InvokeReleased
<1>2. /\ n \in EventFrames /\ OnRelease(n) /\ n >= 1 /\ e.key \in HoldTaps /\ ~e.state /\ e \in Event /\ e.t = "pos"
  BY <1>1 DEF InvokeReleased, FrameShape, EventOps, EventFrames, EventOK, Event, Levels
<1>3. KeymapSees(e) /\ UNCHANGED <<config, now, undecided, held, captured, lastTapped, down, presses, out, lost>>
  BY DEF InvokeReleased
<1> DEFINE found == {s \in Slots : held[s].pos = e.key}
<1>4. \/ Call(<<>>) /\ UNCHANGED timer /\ found = {}
      \/ /\ found # {}
         /\ \E s : /\ s = CHOOSE x \in found : \A y \in found : x <= y
                   /\ \E p \in CancelInProgress(s) :
                        /\ timer' = [timer EXCEPT ![s] = p]
                        /\ Call((IF Late(s, e.ts) THEN <<Decide(s, "TIMER_EVENT", e)>> ELSE <<>>)
                                 \o <<Decide(s, "KEY_UP", e),
                                      Finish(s, IF p THEN "TIMER_EVENT" ELSE "KEY_UP")>>)
  BY DEF InvokeReleased
<1>5. CASE Call(<<>>) /\ UNCHANGED timer /\ found = {}
  <2>1. Returned(n)
    BY <1>1, <1>5, Calls0
  <2> QED
    BY <1>1, <1>2, <1>3, <1>5, <2>1
<1>6. ASSUME found # {}, NEW s, s = CHOOSE x \in found : \A y \in found : x <= y,
             NEW p \in CancelInProgress(s),
             timer' = [timer EXCEPT ![s] = p],
             Call((IF Late(s, e.ts) THEN <<Decide(s, "TIMER_EVENT", e)>> ELSE <<>>)
                     \o <<Decide(s, "KEY_UP", e), Finish(s, IF p THEN "TIMER_EVENT" ELSE "KEY_UP")>>)
      PROVE  /\ s \in Slots /\ p \in BOOLEAN
             /\ held[s].pos = e.key /\ (p => n = 1)
             /\ LET m == IF p THEN "TIMER_EVENT" ELSE "KEY_UP"
                IN \/ Becomes2(n, Decide(s, "KEY_UP", e), Finish(s, m))
                   \/ Becomes3(n, Decide(s, "TIMER_EVENT", e), Decide(s, "KEY_UP", e), Finish(s, m))
  <2> DEFINE m == IF p THEN "TIMER_EVENT" ELSE "KEY_UP"
  <2>1. s \in found
    BY <1>6, LeastFree
  <2>2. s \in Slots /\ held[s].pos = e.key /\ s \in Nat /\ m \in Moments
    BY <2>1, Constants DEF Moments
  <2>3. p \in BOOLEAN /\ (p => n = 1)
    BY <1>6 DEF CancelInProgress, Height
  <2>4. PICK f \in Frames : f = Decide(s, "TIMER_EVENT", e)
    BY <1>2, <2>2, FramesAre DEF Moments
  <2>5. PICK g \in Frames : g = Decide(s, "KEY_UP", e)
    BY <1>2, <2>2, FramesAre DEF Moments
  <2>6. PICK h \in Frames : h = Finish(s, m)
    BY <1>2, <2>2, FramesAre
  <2>7. Call((IF Late(s, e.ts) THEN <<f>> ELSE <<>>) \o <<g, h>>)
    BY <1>6, <2>4, <2>5, <2>6
  <2>8. <<f>> \o <<g, h>> = <<f, g, h>> /\ <<>> \o <<g, h>> = <<g, h>>
    BY CallsInTwo
  <2>9. Call(<<f, g, h>>) \/ Call(<<g, h>>)
    BY <2>7, <2>8
  <2>10. Becomes3(n, f, g, h) \/ Becomes2(n, g, h)
    BY <1>1, <2>9, Calls2, Calls3
  <2> QED
    BY <2>2, <2>3, <2>4, <2>5, <2>6, <2>10
<1>7. ASSUME ~(Call(<<>>) /\ UNCHANGED timer /\ found = {})
      PROVE  \E s \in Slots, p \in BOOLEAN :
                 /\ held[s].pos = e.key /\ (p => n = 1)
                 /\ timer' = [timer EXCEPT ![s] = p]
                 /\ LET m == IF p THEN "TIMER_EVENT" ELSE "KEY_UP"
                    IN \/ Becomes2(n, Decide(s, "KEY_UP", e), Finish(s, m))
                       \/ Becomes3(n, Decide(s, "TIMER_EVENT", e), Decide(s, "KEY_UP", e), Finish(s, m))
  BY <1>4, <1>6, <1>7
<1> QED
  BY <1>1, <1>2, <1>3, <1>5, <1>7

\* on_hold_tap_binding_released up to its decisions, for a key that has a slot
LEMMA ReleasedKeeps ==
  ASSUME Core, lost' = {}, NEW n \in EventFrames, n = Height, NEW e \in Event, Fr(n).ev = e,
         Fr(n).op = "invoke", e.key \in HoldTaps, ~e.state, e.t = "pos", KeymapSees(e),
         UNCHANGED <<config, now, undecided, held, captured, lastTapped, down, presses, out, lost>>,
         NEW s \in Slots, NEW p \in BOOLEAN, held[s].pos = e.key, p => n = 1,
         timer' = [timer EXCEPT ![s] = p], NEW m, m = IF p THEN "TIMER_EVENT" ELSE "KEY_UP",
         \/ Becomes2(n, Decide(s, "KEY_UP", e), Finish(s, m))
         \/ Becomes3(n, Decide(s, "TIMER_EVENT", e), Decide(s, "KEY_UP", e), Finish(s, m))
  PROVE  Core'
<1>c. /\ Types /\ Shape /\ CellsInv /\ Rising /\ Gap /\ LowEmpty /\ ItemsInv /\ SlotsInv /\ FinishInv
      /\ PressInv /\ RoomLeft /\ ListenRoom /\ OneSilent /\ OwnSilent
  BY DEF Core, Types, CellsInv, CallInv, SilentInv, RoomInv
<1>1. /\ n \in Levels /\ n \in Nat /\ n >= 1 /\ OnRelease(n) /\ e.key \in Positions
  BY <1>c, EventFrameIs, FrameTypes DEF Levels
<1>2. /\ s \in Nat /\ m \in {"TIMER_EVENT", "KEY_UP"} /\ (m = "TIMER_EVENT" <=> p = TRUE)
      /\ Decide(s, "KEY_UP", e).op = "decide" /\ Decide(s, "KEY_UP", e).s = s
      /\ Decide(s, "KEY_UP", e).moment = "KEY_UP"
      /\ Decide(s, "TIMER_EVENT", e).op = "decide" /\ Decide(s, "TIMER_EVENT", e).s = s
      /\ Decide(s, "TIMER_EVENT", e).moment = "TIMER_EVENT"
      /\ Finish(s, m).op = "finish" /\ Finish(s, m).s = s /\ Finish(s, m).moment = m
  BY Constants, FramesAre DEF Moments
<1>3. NewCalls(n, {"decide", "finish"})
  <2>1. ASSUME Becomes2(n, Decide(s, "KEY_UP", e), Finish(s, m))
        PROVE  NewCalls(n, {"decide", "finish"})
    BY <1>1, <1>2, <2>1, NewCallsAre
  <2>2. ASSUME Becomes3(n, Decide(s, "TIMER_EVENT", e), Decide(s, "KEY_UP", e), Finish(s, m))
        PROVE  NewCalls(n, {"decide", "decide", "finish"})
    BY <1>1, <1>2, <2>2, NewCallsAre
  <2>3. {"decide", "decide", "finish"} = {"decide", "finish"}
    OBVIOUS
  <2> QED
    BY <2>1, <2>2, <2>3
<1>4. /\ Fr(n)'.op = "finish" /\ Fr(n)'.s = s /\ Fr(n)'.moment = m
      /\ Fr(n + 1)'.op = "decide" /\ Fr(n + 1)'.s = s /\ Fr(n + 1)'.moment = "KEY_UP"
      /\ \/ Height' = n + 1
         \/ Height' = n + 2 /\ Fr(n + 2)'.op = "decide" /\ Fr(n + 2)'.s = s /\ Fr(n + 2)'.moment = "TIMER_EVENT"
      /\ stack' \in Seq(Frames)
  BY <1>2 DEF Becomes2, Becomes3
<1>5. /\ \A d \in n .. Height' : d = n \/ d = n + 1 \/ (d = n + 2 /\ Height' = n + 2)
      /\ \A d \in n + 1 .. Height' : d = n + 1 \/ (d = n + 2 /\ Height' = n + 2)
      /\ \A d \in Levels' : d \in 1 .. n - 1 \/ d \in n .. Height'
      /\ n \in Levels' /\ n < Height'
  BY <1>1, <1>4 DEF Levels
<1>6. Collects(0) /\ captured' = captured
  BY <1>c, UntouchedCollects
<1>7. OnRelease(n)' /\ Height' \in Nat /\ \A d \in 1 .. n - 1 : Fr(d)' = Fr(d) /\ d \in Levels
  <2>1. OnRelease(n)'
    BY <1>3, <1>c, <1>1, OnReleaseStays
  <2> QED
    BY <1>1, <1>3, <2>1 DEF NewCalls, Kept, Levels
<1>8. \A d \in n .. Height' : FrameShape(d)'
  <2> TAKE d \in n .. Height'
  <2>1. d = n => FrameShape(d)'
    BY <1>4, <1>7 DEF FrameShape, EventOps
  <2>2. ASSUME d = n + 1
        PROVE  FrameShape(d)'
    <3>1. Fr(d)'.op = "decide" /\ Fr(d)'.s = s /\ Fr(d)'.moment = "KEY_UP" /\ d > 1 /\ d - 1 = n
      BY <1>1, <1>4, <2>2
    <3>2. Fr(d - 1)'.op = "finish" /\ Fr(d - 1)'.s = s
      BY <1>4, <3>1
    <3>3. DecideShape(d)'
      BY <3>1, <3>2 DEF DecideShape, Returns
    <3> QED
      BY <3>1, <3>3 DEF FrameShape, EventOps
  <2>3. ASSUME d = n + 2, Height' = n + 2
        PROVE  FrameShape(d)'
    <3>1. /\ Fr(d)'.op = "decide" /\ Fr(d)'.s = s /\ Fr(d)'.moment = "TIMER_EVENT" /\ d > 1 /\ d - 1 = n + 1
          /\ d = Height'
      BY <1>1, <1>4, <2>3
    <3>2. Fr(d - 1)'.op = "decide" /\ Fr(d - 1)'.s = s /\ Fr(d - 1)'.moment = "KEY_UP"
      BY <1>4, <3>1
    <3>3. DecideShape(d)'
      BY <3>1, <3>2 DEF DecideShape, Returns
    <3> QED
      BY <3>1, <3>3 DEF FrameShape, EventOps
  <2> QED
    BY <1>5, <2>1, <2>2, <2>3
<1>9. Shape'
  BY <1>1, <1>3, <1>8, <1>c, ShapeNew
<1>10. FirstOf(Items, Own(n))
  BY InvokeFirst
<1>11. Items' = Items \ {Own(n)}
  BY <1>1, <1>3, <1>6, <1>c, ItemsHandled DEF EventOps
<1>12. ItemsInv' /\ typed' \in Seq(Positions)
  BY <1>10, <1>11, <1>c, ItemsInvHandled
<1>13. seen' = seen \ {e.key} /\ seen' \subseteq Positions
  BY <1>1, <1>c DEF KeymapSees, Types, TypeOK
<1>14. timer' \in [Slots -> BOOLEAN] /\ timer'[s] = p /\ \A x \in Slots : x # s => timer'[x] = timer[x]
  <2>1. timer \in [Slots -> BOOLEAN]
    BY <1>c DEF Types, TypeOK
  <2> QED
    BY <2>1
<1>15. Used(s) /\ Used(s)'
  <2>1. NoPos \notin Positions
    BY ConstantsAssumption
  <2> QED
    BY <1>1, <2>1 DEF Used
<1>16. ~held[s].cancelled /\ ~Finishing(s)
  BY <1>c, <1>15, OwnSlot
<1>17. \A x \in Slots : Used(x) /\ x # s => held[x].pos # e.key
  BY <1>c DEF SlotsInv, OneSlotPerKey
<1>18. Types'
  BY <1>4, <1>6, <1>9, <1>12, <1>13, <1>14, <1>c, TypesAfter DEF Collects, Types, TypeOK
<1>19. CellsInv'
  BY <1>1, <1>3, <1>6, <1>c, CellsStay
<1>20. Silents' = Silents
  BY DEF Silents, Used, Silent, Cfg
<1>21. RoomLeft'
  <2>1. undecided' # 0 /\ n > 1 => Free(captured', Fr(n - 1).s, Cardinality(Silents') + 2)
    BY <1>1, <1>6, <1>20, <1>c, RoomBefore DEF EventOps
  <2> QED
    BY <1>1, <1>3, <1>20, <1>c, <2>1, SilentsAre, RoomAfter
<1>22. ListenRoom' /\ InvokeInv' /\ InvokeRoom'
  <2>1. \A d \in n .. Height' : Fr(d)'.op # "listen"
    BY <1>4, <1>5
  <2> QED
    BY <1>1, <1>3, <1>c, <2>1, ListenRoomStay, InvokeNone
<1>23. OwnSilent'
  <2>1. \A d \in n .. Height' : d > 1 /\ Fr(d)'.op = "decide" => Fr(d - 1)'.op # "listen"
    <3> TAKE d \in n .. Height'
    <3>1. PICK k : k = d - 1
      OBVIOUS
    <3>2. d = n \/ k = n \/ k = n + 1
      BY <1>1, <1>5, <3>1
    <3>3. Fr(d)'.op = "decide" => Fr(k)'.op # "listen"
      BY <1>4, <3>2
    <3> QED
      BY <3>1, <3>3
  <2> QED
    BY <1>1, <1>3, <1>c, <2>1, OwnSilentStay
<1>24. OneSilent'
  <2>1. PICK w \in Slots : \A x \in Silents : x = w \/ Ends(x)
    BY <1>1, <1>c DEF OneSilent
  <2>2. KeyAt(n)' = KeyAt(n) /\ Fr(n).op \in EndOps /\ Fr(n)'.op \in EndOps
    BY <1>4 DEF KeyAt, EndOps
  <2>3. \A d \in n + 1 .. Height' : Fr(d)'.op \notin EndOps
    BY <1>4, <1>5 DEF EndOps
  <2>4. \A x : Ends(x) => Ends(x)'
    BY <1>1, <1>3, <1>5, <1>c, <2>2, <2>3, EndsStay
  <2> QED
    BY <1>20, <2>1, <2>4 DEF OneSilent
<1>25. \A x : Finishing(x) => Finishing(x)'
  <2> SUFFICES ASSUME NEW x, NEW d \in Levels, Fr(d).op = "finish", Fr(d).s = x
               PROVE  Finishing(x)'
    BY DEF Finishing
  <2>1. d # n
    BY <1>c
  <2>2. d \in 1 .. n - 1 /\ d \in Levels'
    BY <1>1, <1>5, <1>7, <2>1 DEF Levels
  <2> QED
    BY <1>7, <2>2 DEF Finishing
<1>26. Finishing(s)'
  BY <1>4, <1>5 DEF Finishing
<1>27. SlotsInv'
  <2>1. UndecidedIsUnique' /\ OneSlotPerKey'
    BY <1>c DEF SlotsInv, UndecidedIsUnique, OneSlotPerKey, Used
  <2>2. NoStaleTimer'
    BY <1>14, <1>15, <1>c DEF SlotsInv, NoStaleTimer, Used
  <2>3. SlotsReturn'
    <3> SUFFICES ASSUME NEW x \in Slots, Used(x)
                 PROVE  held[x].pos \in seen' \/ held[x].cancelled \/ Finishing(x)'
      BY DEF SlotsReturn, Used
    <3>1. held[x].pos \in seen \/ held[x].cancelled \/ Finishing(x)
      BY <1>c DEF SlotsInv, SlotsReturn
    <3> QED
      BY <1>13, <1>17, <1>25, <1>26, <3>1
  <2>4. CancelledDone'
    <3> SUFFICES ASSUME NEW x \in Slots, held[x].cancelled
                 PROVE  /\ Used(x) /\ timer'[x] /\ x # undecided /\ held[x].pos \notin seen'
                        /\ \A y \in Items' : y.key # held[x].pos
      BY DEF CancelledDone, Used
    <3> QED
      BY <1>11, <1>13, <1>14, <1>16, <1>c DEF SlotsInv, CancelledDone
  <2>5. OthersCaptured'
    <3>1. \A i : Low(i)' <=> Low(i)
      BY <1>1, <1>3, <1>c, ReplaysStay, LowStays
    <3>2. EventCells' = EventCells
      BY <1>6 DEF EventCells
    <3> QED
      BY <1>6, <1>c, <3>1, <3>2 DEF SlotsInv, OthersCaptured, Used
  <2> QED
    BY <2>1, <2>2, <2>3, <2>4, <2>5 DEF SlotsInv
<1>28. ASSUME NEW d \in 1 .. n - 1, Fr(d).op = "finish"
       PROVE  /\ Fr(d).s \in Slots /\ Fr(d).s # s /\ Fr(d).s # undecided
              /\ Place(d)' = Place(d) /\ d \in Levels
  <2>1. d \in Levels /\ d < n /\ n \in d + 1 .. Height
    BY <1>1, <1>7
  <2>2. Fr(d).s \in Slots
    BY <1>c, <1>28, <2>1 DEF Shape, FrameShape
  <2>3. Fr(d).s # s
    BY <1>16, <1>28, <2>1 DEF Finishing
  <2>4. ~ToDecide(d)
    BY <2>1 DEF ToDecide
  <2>5. d \in 1 .. n
    BY <1>1
  <2>6. Place(d)' = Place(d)
    BY <1>1, <1>3, <1>c, <2>5, PlaceKept
  <2> QED
    BY <1>28, <1>c, <2>1, <2>2, <2>3, <2>4, <2>6 DEF FinishInv
<1>29. \A d \in Levels' : Fr(d)'.op = "finish" => d = n \/ (d \in 1 .. n - 1 /\ Fr(d)' = Fr(d))
  BY <1>4, <1>5, <1>7
<1>30. FinishInv'
  <2> SUFFICES ASSUME NEW d \in Levels', Fr(d)'.op = "finish"
               PROVE  /\ Used(Fr(d).s)' /\ held[Fr(d)'.s].pos \notin seen'
                      /\ Fr(d)'.moment = "TIMER_EVENT" => d = 1 /\ timer'[Fr(d)'.s]
                      /\ Fr(d)'.moment # "TIMER_EVENT" => ~timer'[Fr(d)'.s]
                      /\ ~ToDecide(d)' => Fr(d)'.s # undecided
                      /\ \A x \in Items' : x.key = held[Fr(d)'.s].pos => Place(d)' < x.at
                      /\ \A k \in Levels' : Fr(k)'.op = "finish" /\ Fr(k)'.s = Fr(d)'.s => k = d
    BY DEF FinishInv
  <2>1. CASE d = n
    <3>1. ToDecide(n)'
      BY <1>4, <1>5 DEF ToDecide
    <3>2. \A x \in Items' : x.key = e.key => Place(n) < x.at
      <4> SUFFICES ASSUME NEW x \in Items', x.key = e.key
                   PROVE  Place(n) < x.at
        OBVIOUS
      <4>1. x \in Items /\ x # Own(n) /\ Own(n) \in Items /\ Own(n).at = Place(n) /\ Own(n).key = e.key
        BY <1>11, <1>c, OwnIs
      <4>2. Place(n) <= x.at /\ x.at # Place(n)
        BY <1>10, <1>c, <4>1 DEF FirstOf, ItemsInv, OnePerPlace
      <4>3. x.at \in Nat /\ Place(n) \in Nat
        BY <1>c, <4>1, ItemsTyped, ItemIs
      <4> QED
        BY <4>2, <4>3
    <3>3. Place(n)' = Place(n)
      BY <1>1, <1>3, <1>c, PlaceKept
    <3>4. \A k \in Levels' : Fr(k)'.op = "finish" /\ Fr(k)'.s = s => k = n
      BY <1>28, <1>29
    <3> QED
      BY <1>2, <1>4, <1>13, <1>14, <1>15, <2>1, <3>1, <3>2, <3>3, <3>4
  <2>2. CASE d \in 1 .. n - 1 /\ Fr(d)' = Fr(d)
    <3>1. Fr(d).op = "finish"
      BY <2>2
    <3>2. /\ Fr(d).s \in Slots /\ Fr(d).s # s /\ Fr(d).s # undecided
          /\ Place(d)' = Place(d) /\ d \in Levels
      BY <1>28, <2>2, <3>1
    <3>3. /\ Used(Fr(d).s) /\ held[Fr(d).s].pos \notin seen
          /\ Fr(d).moment = "TIMER_EVENT" => d = 1 /\ timer[Fr(d).s]
          /\ Fr(d).moment # "TIMER_EVENT" => ~timer[Fr(d).s]
          /\ \A x \in Items : x.key = held[Fr(d).s].pos => Place(d) < x.at
          /\ \A k \in Levels : Fr(k).op = "finish" /\ Fr(k).s = Fr(d).s => k = d
      BY <1>c, <3>1, <3>2 DEF FinishInv
    <3>4. Used(Fr(d).s)'
      BY <2>2, <3>3 DEF Used
    <3>5. \A k \in Levels' : Fr(k)'.op = "finish" /\ Fr(k)'.s = Fr(d)'.s => k = d
      <4> SUFFICES ASSUME NEW k \in Levels', Fr(k)'.op = "finish", Fr(k)'.s = Fr(d)'.s
                   PROVE  k = d
        OBVIOUS
      <4>1. k # n
        BY <1>4, <2>2, <3>2
      <4>2. k \in 1 .. n - 1 /\ Fr(k)' = Fr(k) /\ k \in Levels
        BY <1>7, <1>29, <4>1
      <4> QED
        BY <2>2, <3>3, <4>2
    <3> QED
      BY <1>11, <1>13, <1>14, <2>2, <3>2, <3>3, <3>4, <3>5
  <2> QED
    BY <1>29, <2>1, <2>2
<1>31. PressInv'
  <2>1. \A d \in n .. Height' :
          /\ Fr(d)'.op # "schedule" /\ ~(Fr(d)'.op = "decide" /\ Fr(d)'.moment = "KEY_DOWN")
          /\ Fr(d)'.op = "decide" => Used(Fr(d).s)'
    BY <1>4, <1>5, <1>15
  <2> QED
    BY <1>1, <1>3, <1>9, <1>30, <1>c, <2>1, PressStay
<1> QED
  BY <1>12, <1>18, <1>19, <1>21, <1>22, <1>23, <1>24, <1>27, <1>30, <1>31
     DEF Core, RoomInv, SilentInv, CallInv

LEMMA InvokeReleasedKeeps ==
  ASSUME Core, InvokeReleased, lost' = {}
  PROVE  Core'
<1>1. PICK n : n = Height
  OBVIOUS
<1>2. PICK e : e = Head(stack).ev
  OBVIOUS
<1>c. Types
  BY DEF Core
<1>3. /\ n \in EventFrames /\ Fr(n).ev = e /\ Fr(n).op = "invoke"
      /\ e.key \in HoldTaps /\ ~e.state /\ e \in Event /\ e.t = "pos" /\ KeymapSees(e)
      /\ UNCHANGED <<config, now, undecided, held, captured, lastTapped, down, presses, out, lost>>
      /\ \/ Returned(n) /\ UNCHANGED timer /\ \A s \in Slots : held[s].pos # e.key
         \/ \E s \in Slots, p \in BOOLEAN :
              /\ held[s].pos = e.key /\ (p => n = 1)
              /\ timer' = [timer EXCEPT ![s] = p]
              /\ LET m == IF p THEN "TIMER_EVENT" ELSE "KEY_UP"
                 IN \/ Becomes2(n, Decide(s, "KEY_UP", e), Finish(s, m))
                    \/ Becomes3(n, Decide(s, "TIMER_EVENT", e), Decide(s, "KEY_UP", e), Finish(s, m))
  BY <1>1, <1>2, <1>c, ReleasedSplits
<1>4. CASE Returned(n) /\ UNCHANGED timer /\ \A s \in Slots : held[s].pos # e.key
  <2>1. Collects(1)
    BY <1>3, <1>c, UntouchedCollectsOne
  <2>2. UNCHANGED <<config, now, undecided, held, timer, down, presses>>
    BY <1>3, <1>4
  <2> QED
    BY <1>1, <1>3, <1>4, <2>1, <2>2, BindingReturns
<1>5. CASE ~(Returned(n) /\ UNCHANGED timer /\ \A s \in Slots : held[s].pos # e.key)
  <2>1. PICK s \in Slots, p \in BOOLEAN :
              /\ held[s].pos = e.key /\ (p => n = 1)
              /\ timer' = [timer EXCEPT ![s] = p]
              /\ LET m == IF p THEN "TIMER_EVENT" ELSE "KEY_UP"
                 IN \/ Becomes2(n, Decide(s, "KEY_UP", e), Finish(s, m))
                    \/ Becomes3(n, Decide(s, "TIMER_EVENT", e), Decide(s, "KEY_UP", e), Finish(s, m))
    BY <1>3, <1>5
  <2>2. PICK m : m = IF p THEN "TIMER_EVENT" ELSE "KEY_UP"
    OBVIOUS
  <2> QED
    BY <1>1, <1>3, <2>1, <2>2, ReleasedKeeps
<1> QED
  BY <1>4, <1>5

\* k_work_schedule at the end of on_hold_tap_binding_pressed
LEMMA ScheduleTimerKeeps ==
  ASSUME Core, ScheduleTimer, lost' = {}
  PROVE  Core'
<1>1. PICK n : n = Height
  OBVIOUS
<1>c. /\ Types /\ Shape /\ CellsInv /\ Rising /\ Gap /\ ItemsInv /\ SlotsInv /\ FinishInv
      /\ PressInv /\ RoomLeft /\ ListenRoom /\ OneSilent /\ OwnSilent
  BY DEF Core, Types, CellsInv, CallInv, SilentInv, RoomInv
<1>2. /\ n \in Levels /\ n \in Nat /\ n >= 1 /\ Fr(n).op = "schedule" /\ FrameShape(n)
      /\ stack \in Seq(Frames) /\ stack # <<>> /\ Fr(n) = Head(stack)
  BY <1>1, <1>c, Top DEF ScheduleTimer, Levels
<1>3. PICK s : s = Fr(n).s
  OBVIOUS
<1>4. s \in Slots /\ OnRelease(n) /\ n \notin EventFrames
  BY <1>2, <1>3 DEF FrameShape, EventFrames, EventOps
<1>5. Returned(n)
  BY <1>1, <1>2, Calls0 DEF ScheduleTimer
<1>6. /\ UNCHANGED <<config, now, undecided, held, captured, lastTapped, down, presses, seen,
                     typed, out, lost>>
      /\ timer' = [timer EXCEPT ![s] = TRUE]
  BY <1>2, <1>3 DEF ScheduleTimer
<1>7. /\ NewCalls(n, {}) /\ Height' = n - 1 /\ stack' \in Seq(Frames)
      /\ \A d \in n .. Height' : FALSE
  BY <1>2, <1>5, NewCallsAre DEF Returned
<1>8. Shape'
  BY <1>1, <1>2, <1>7, <1>c, ShapeNew
<1>9. Collects(0) /\ captured' = captured
  BY <1>6, <1>c, UntouchedCollects
<1>10. timer' \in [Slots -> BOOLEAN] /\ timer'[s] /\ \A x \in Slots : x # s => timer'[x] = timer[x]
  BY <1>4, <1>6, <1>c DEF Types, TypeOK
<1>11. Types'
  BY <1>6, <1>7, <1>8, <1>9, <1>10, <1>c, TypesAfter DEF Collects, Types, TypeOK
<1>12. CellsInv'
  BY <1>1, <1>2, <1>6, <1>7, <1>9, <1>c, CellsStay
<1>13. Silents' = Silents
  BY <1>6 DEF Silents, Used, Silent, Cfg
<1>14. RoomLeft'
  <2>1. undecided' # 0 /\ n > 1 => Free(captured', Fr(n - 1).s, Cardinality(Silents') + 1)
    BY <1>1, <1>2, <1>4, <1>6, <1>13, <1>c, RoomBefore
  <2> QED
    BY <1>1, <1>2, <1>4, <1>7, <1>13, <1>c, <2>1, SilentsAre, RoomAfter
<1>15. ListenRoom' /\ InvokeInv' /\ InvokeRoom' /\ OwnSilent'
  BY <1>1, <1>2, <1>7, <1>c, ListenRoomStay, InvokeNone, OwnSilentStay
<1>16. OneSilent'
  <2> SUFFICES ASSUME undecided' # 0 \/ \E d \in Levels' : Fr(d)'.op \in {"listen", "invoke"}
               PROVE  \E w \in Slots : \A x \in Silents' : x = w \/ Ends(x)'
    BY DEF OneSilent
  <2>1. undecided # 0 \/ \E d \in Levels : Fr(d).op \in {"listen", "invoke"}
    BY <1>1, <1>2, <1>6, <1>7 DEF Levels, NewCalls, Kept
  <2>2. PICK w \in Slots : \A x \in Silents : x = w \/ Ends(x)
    BY <1>c, <2>1 DEF OneSilent
  <2>3. Fr(n).op \notin EndOps /\ {} \cap EndOps = {}
    BY <1>2 DEF EndOps
  <2>4. \A x : Ends(x) => Ends(x)'
    BY <1>1, <1>2, <1>6, <1>7, <1>c, <2>3, EndsStay
  <2> QED
    BY <1>13, <2>2, <2>4
<1>17. Items' = Items /\ ItemsInv'
  <2>1. Items' = Items
    BY <1>1, <1>2, <1>4, <1>7, <1>9, <1>c, ItemsStay
  <2> QED
    BY <1>6, <1>c, <2>1, ItemsInvStay
<1>18. Used(s) /\ held[s].pos \in seen
  BY <1>2, <1>3, <1>c DEF PressInv
<1>19. \A x : Finishing(x)' <=> Finishing(x)
  BY <1>1, <1>2, <1>7, <1>c, FinishBelow
<1>20. SlotsInv'
  <2>1. UndecidedIsUnique' /\ OneSlotPerKey'
    BY <1>6, <1>c DEF SlotsInv, UndecidedIsUnique, OneSlotPerKey, Used
  <2>2. NoStaleTimer'
    BY <1>6, <1>10, <1>18, <1>c DEF SlotsInv, NoStaleTimer, Used
  <2>3. SlotsReturn'
    BY <1>6, <1>19, <1>c DEF SlotsInv, SlotsReturn, Used
  <2>4. CancelledDone'
    BY <1>6, <1>10, <1>17, <1>c DEF SlotsInv, CancelledDone, Used
  <2>5. OthersCaptured'
    <3>1. \A i : Low(i)' <=> Low(i)
      BY <1>1, <1>2, <1>7, <1>c, ReplaysStay, LowStays
    <3>2. EventCells' = EventCells
      BY <1>9 DEF EventCells
    <3> QED
      BY <1>6, <1>9, <1>c, <3>1, <3>2 DEF SlotsInv, OthersCaptured, Used
  <2> QED
    BY <2>1, <2>2, <2>3, <2>4, <2>5 DEF SlotsInv
<1>21. FinishInv'
  <2>1. \A d \in Levels : Fr(d).op = "finish" => timer'[Fr(d).s] = timer[Fr(d).s] /\ Fr(d).s # undecided
    <3> SUFFICES ASSUME NEW d \in Levels, Fr(d).op = "finish"
                 PROVE  timer'[Fr(d).s] = timer[Fr(d).s] /\ Fr(d).s # undecided
      OBVIOUS
    <3>1. d < n /\ d \in Nat
      BY <1>1, <1>2, <1>7, <1>c, FinishBelow, FrameTypes
    <3>2. n \in d + 1 .. Height
      BY <1>1, <1>2, <3>1
    <3>3. ~ToDecide(d)
      BY <1>2, <3>2 DEF ToDecide
    <3>4. Fr(d).s \in Slots
      BY <1>c DEF Shape, FrameShape
    <3>5. Fr(d).s # s
      BY <1>18, <1>c DEF FinishInv
    <3> QED
      BY <1>10, <1>c, <3>3, <3>4, <3>5 DEF FinishInv
  <2> QED
    BY <1>1, <1>2, <1>6, <1>7, <1>17, <1>c, <2>1, FinishStay
<1>22. PressInv'
  <2>1. Fr(n).op \notin {"decide", "release"}
    BY <1>2
  <2> QED
    BY <1>1, <1>2, <1>7, <1>8, <1>21, <1>c, <2>1, PressStay
<1> QED
  BY <1>11, <1>12, <1>14, <1>15, <1>16, <1>17, <1>20, <1>21, <1>22
     DEF Core, RoomInv, SilentInv, CallInv
-----------------------------------------------------------------------------
(* FinishRelease *)

\* The end of a release: a silent hold-tap emits two keycodes, any other one.
LEMMA FinishSplits ==
  ASSUME SimpleHolds, Core, FinishRelease, lost' = {}, NEW n, n = Height, NEW s, s = Fr(n).s
  PROVE  /\ n \in Levels /\ n \in Nat /\ n >= 1 /\ Fr(n).op = "finish" /\ OnRelease(n)
         /\ s \in Slots /\ Used(s) /\ Returned(n) /\ n \notin EventFrames
         /\ UNCHANGED <<config, now, undecided, timer, down, presses, seen, typed>>
         /\ Collects(IF s \in Silents THEN 2 ELSE 1)
         /\ held' = [held EXCEPT ![s] =
                       IF Fr(n).moment = "TIMER_EVENT"
                       THEN [@ EXCEPT !.status = IF s \in Silents THEN "TAP" ELSE held[s].status,
                                      !.cancelled = TRUE]
                       ELSE FreeSlot]
<1>c. Types /\ Shape /\ FinishInv
  BY DEF Core, Types, CallInv
<1>1. /\ n \in Levels /\ n \in Nat /\ n >= 1 /\ Fr(n).op = "finish" /\ FrameShape(n)
      /\ stack \in Seq(Frames) /\ stack # <<>> /\ Fr(n) = Head(stack)
  BY <1>c, Top DEF FinishRelease, Levels
<1>2. s \in Slots /\ OnRelease(n) /\ n \notin EventFrames
  BY <1>1 DEF FrameShape, EventFrames, EventOps
<1>3. Returned(n)
  BY <1>1, Calls0 DEF FinishRelease
<1>4. UNCHANGED <<config, now, undecided, timer, down, presses, seen, typed>>
  BY DEF FinishRelease
<1>5. Used(s)
  BY <1>1, <1>c DEF FinishInv
<1>6. s \in Silents <=> Silent(s, held[s].status)
  BY <1>2, <1>5 DEF Silents
<1>7. PICK u, sil, status : u = undecided /\ sil = Silent(s, held[s].status)
                            /\ status = IF sil THEN "TAP" ELSE held[s].status
  OBVIOUS
<1>8. PICK io1 : io1 = IF sil THEN PressBinding(IO, u, s, status) ELSE IO
  OBVIOUS
<1>9. PICK io2 : io2 = ReleaseBinding(io1, u, s, status)
  OBVIOUS
<1>10. SetIO(IF Cfg(s).holdWhileUndecided /\ Cfg(s).linger
             THEN Emit(io2, u, Hold(held[s].pos), FALSE, held[s].ts) ELSE io2)
       /\ held' = [held EXCEPT ![s] =
                     IF Fr(n).moment = "TIMER_EVENT"
                     THEN [@ EXCEPT !.status = status, !.cancelled = TRUE] ELSE FreeSlot]
  BY <1>1, <1>7, <1>8, <1>9, Zenon DEF FinishRelease
<1>11. config \in Configs /\ held[s].pos \in HoldTaps /\ TypeOK
  BY <1>2, <1>5, <1>c, CfgIs DEF Types
<1>12. ~(Cfg(s).holdWhileUndecided /\ Cfg(s).linger) /\ (Cfg(s).retroTap => ~Cfg(s).holdWhileUndecided)
  BY <1>11 DEF SimpleHolds, Cfg
<1>13. SetIO(io2)
  BY <1>10, <1>12
<1>14. IOOK(IO)
  BY <1>c, IOIs
<1>15. CASE sil
  <2>1. status = "TAP" /\ ~Cfg(s).holdWhileUndecided /\ io1 = PressBinding(IO, u, s, "TAP")
    BY <1>7, <1>8, <1>12, <1>15 DEF Silent
  <2>2. Emitted(IO, io1, 1) /\ (u = 0 => SameEvents(IO, io1))
    BY <1>2, <1>5, <1>11, <1>14, <2>1, PressesTap
  <2>3. IOOK(io1)
    BY <2>2, EmittedOK
  <2>4. Emitted(io1, io2, 1) /\ (u = 0 => SameEvents(io1, io2))
    BY <1>2, <1>5, <1>9, <1>11, <2>3, Releases
  <2>5. Emitted(IO, io2, 1 + 1) /\ (u = 0 => SameEvents(IO, io2))
    BY <2>2, <2>4, EmittedTwice DEF SameEvents
  <2>6. Collects(1 + 1)
    BY <1>7, <1>13, <1>c, <2>5, SetIOCollects
  <2>7. s \in Silents /\ 1 + 1 = 2
    BY <1>6, <1>7, <1>15
  <2> QED
    BY <1>1, <1>2, <1>3, <1>4, <1>5, <1>10, <2>1, <2>6, <2>7
<1>16. CASE ~sil
  <2>1. io1 = IO /\ status = held[s].status
    BY <1>7, <1>8, <1>16
  <2>2. Emitted(IO, io2, 1) /\ (u = 0 => SameEvents(IO, io2))
    BY <1>2, <1>5, <1>9, <1>11, <1>14, <2>1, Releases
  <2>3. Collects(1)
    BY <1>7, <1>13, <1>c, <2>2, SetIOCollects
  <2>4. s \notin Silents
    BY <1>6, <1>7, <1>16
  <2> QED
    BY <1>1, <1>2, <1>3, <1>4, <1>5, <1>10, <2>1, <2>3, <2>4
<1> QED
  BY <1>15, <1>16

LEMMA FinishReleaseKeeps ==
  ASSUME SimpleHolds, Core, FinishRelease, lost' = {}
  PROVE  Core'
<1>1. PICK n : n = Height
  OBVIOUS
<1>2. PICK s : s = Fr(n).s
  OBVIOUS
<1>c. /\ Types /\ Shape /\ CellsInv /\ Rising /\ Gap /\ ItemsInv /\ SlotsInv /\ FinishInv
      /\ PressInv /\ RoomLeft /\ ListenRoom /\ OneSilent /\ OwnSilent
  BY DEF Core, Types, CellsInv, CallInv, SilentInv, RoomInv
<1>3. /\ n \in Levels /\ n \in Nat /\ n >= 1 /\ Fr(n).op = "finish" /\ OnRelease(n)
      /\ s \in Slots /\ Used(s) /\ Returned(n) /\ n \notin EventFrames
      /\ UNCHANGED <<config, now, undecided, timer, down, presses, seen, typed>>
      /\ Collects(IF s \in Silents THEN 2 ELSE 1)
      /\ held' = [held EXCEPT ![s] =
                    IF Fr(n).moment = "TIMER_EVENT"
                    THEN [@ EXCEPT !.status = IF s \in Silents THEN "TAP" ELSE held[s].status,
                                   !.cancelled = TRUE]
                    ELSE FreeSlot]
  BY <1>1, <1>2, FinishSplits
<1>4. /\ NewCalls(n, {}) /\ Height' = n - 1 /\ stack' \in Seq(Frames)
      /\ (\A d \in n .. Height' : FALSE) /\ Fr(n).op # "release"
  BY <1>3, NewCallsAre DEF Returned
<1>5. PICK m : m = IF s \in Silents THEN 2 ELSE 1
  OBVIOUS
<1>6. Collects(m) /\ m \in {1, 2}
  BY <1>3, <1>5
<1>7. /\ held[s].pos \notin seen /\ s # undecided
      /\ Fr(n).moment = "TIMER_EVENT" => n = 1 /\ timer[s]
      /\ Fr(n).moment # "TIMER_EVENT" => ~timer[s]
      /\ \A x \in Items : x.key = held[s].pos => Place(n) < x.at
      /\ \A d \in Levels : Fr(d).op = "finish" /\ Fr(d).s = s => d = n
  <2>1. ~ToDecide(n)
    BY <1>1, <1>3 DEF ToDecide
  <2> QED
    BY <1>2, <1>3, <1>c, <2>1 DEF FinishInv
<1>8. held[s].status # "UNDECIDED"
  BY <1>3, <1>7, <1>c DEF SlotsInv, UndecidedIsUnique, Used
<1>9. /\ held \in [Slots -> [pos : HoldTaps \cup {NoPos}, status : Statuses, ts : Nat,
                             first : Positions \cup {NoPos}, cancelled : BOOLEAN]]
      /\ \A x \in Slots : x # s => held'[x] = held[x]
  BY <1>3, <1>c DEF Types, TypeOK
<1>11. \/ /\ Fr(n).moment = "TIMER_EVENT" /\ held'[s].pos = held[s].pos /\ held'[s].cancelled = TRUE
          /\ held'[s].status = (IF s \in Silents THEN "TAP" ELSE held[s].status)
          /\ held'[s].ts = held[s].ts /\ held'[s].first = held[s].first
       \/ Fr(n).moment # "TIMER_EVENT" /\ held'[s] = FreeSlot
  BY <1>3, <1>9
<1>12. held' \in [Slots -> [pos : HoldTaps \cup {NoPos}, status : Statuses, ts : Nat,
                            first : Positions \cup {NoPos}, cancelled : BOOLEAN]]
  <2>1. held'[s] \in [pos : HoldTaps \cup {NoPos}, status : Statuses, ts : Nat,
                      first : Positions \cup {NoPos}, cancelled : BOOLEAN]
    <3>1. CASE Fr(n).moment = "TIMER_EVENT"
      <4>1. held'[s] = [held[s] EXCEPT !.status = IF s \in Silents THEN "TAP" ELSE held[s].status,
                                       !.cancelled = TRUE]
        BY <1>3, <1>9, <3>1
      <4>2. PICK r, status : r = held[s] /\ status = (IF s \in Silents THEN "TAP" ELSE held[s].status)
        OBVIOUS
      <4>3. r \in [pos : HoldTaps \cup {NoPos}, status : Statuses, ts : Nat,
                   first : Positions \cup {NoPos}, cancelled : BOOLEAN] /\ status \in Statuses
        BY <1>3, <1>9, <4>2 DEF Statuses
      <4>4. held'[s] = [r EXCEPT !.status = status, !.cancelled = TRUE]
        BY <4>1, <4>2
      <4> QED
        BY <4>3, <4>4
    <3>2. CASE Fr(n).moment # "TIMER_EVENT"
      BY <1>3, <1>9, <3>2 DEF FreeSlot, Statuses
    <3> QED
      BY <3>1, <3>2
  <2> QED
    BY <1>3, <1>9, <2>1
<1>13. Shape'
  BY <1>1, <1>3, <1>4, <1>c, ShapeNew
<1>14. Types'
  BY <1>3, <1>4, <1>6, <1>12, <1>13, <1>c, TypesAfter DEF Collects, Types, TypeOK
<1>15. /\ Silents' = Silents \ {s} /\ Cardinality(Silents') \in Nat /\ Cardinality(Silents) \in Nat
       /\ Cardinality(Silents') + m = Cardinality(Silents) + 1
  <2>1. \A x \in Slots : x # s => (x \in Silents' <=> x \in Silents)
    BY <1>3, <1>9 DEF Silents, Used, Silent, Cfg
  <2>2. s \notin Silents'
    <3>1. CASE s \in Silents
      <4>1. held'[s].status # "HOLD_TIMER"
        BY <1>11, <3>1 DEF FreeSlot
      <4> QED
        BY <4>1 DEF Silents, Silent
    <3>2. CASE s \notin Silents
      <4>1. ~Silent(s, held[s].status)
        BY <1>3, <3>2 DEF Silents
      <4>2. held'[s].pos = NoPos \/ (held'[s].pos = held[s].pos /\ held'[s].status = held[s].status)
        BY <1>11, <3>2 DEF FreeSlot
      <4> QED
        BY <1>3, <4>1, <4>2 DEF Silents, Used, Silent, Cfg
    <3> QED
      BY <3>1, <3>2
  <2>3. Silents' = Silents \ {s}
    BY <2>1, <2>2 DEF Silents
  <2>4. IsFiniteSet(Silents)
    BY SilentsAre
  <2>5. PICK S : S = Silents
    OBVIOUS
  <2>6. /\ Cardinality(S) \in Nat
        /\ Cardinality(S \ {s}) = IF s \in S THEN Cardinality(S) - 1 ELSE Cardinality(S)
        /\ Cardinality(S \ {s}) \in Nat
    BY <2>4, <2>5, FS_RemoveElement, FS_CardinalityType
  <2>7. s \in S <=> s \in Silents
    BY <2>5
  <2>8. PICK a, b : a = Cardinality(S) /\ b = Cardinality(S \ {s})
    OBVIOUS
  <2>9. a \in Nat /\ b \in Nat /\ b + m = a + 1
    BY <1>5, <2>6, <2>7, <2>8
  <2> QED
    BY <2>3, <2>5, <2>8, <2>9
<1>16. n > 1 /\ undecided # 0 => /\ Free(captured', Fr(n - 1).s, Cardinality(Silents') + 1)
                                 /\ captured'[Place(n)] = NoEvent
  <2> SUFFICES ASSUME n > 1, undecided # 0
               PROVE  /\ Free(captured', Fr(n - 1).s, Cardinality(Silents') + 1)
                      /\ captured'[Place(n)] = NoEvent
    OBVIOUS
  <2>1. Free(captured, Fr(n - 1).s, Cardinality(Silents) + 2)
    BY <1>1, <1>3, <1>4, <1>c, RoomBefore
  <2>2. PICK t \in 1 .. MaxCaptured + 1, c \in Nat :
          t = Fr(n - 1).s /\ c = Cardinality(Silents') /\ t \in Nat
    BY <1>1, <1>3, <1>4, <1>15, <1>c, TopReleaseIs
  <2>3. (c + 1) + m = Cardinality(Silents) + 2
    BY <1>6, <1>15, <2>2
  <2>4. Free(captured, t, (c + 1) + m)
    BY <2>1, <2>2, <2>3
  <2>5. Free(captured', t, c + 1)
    BY <1>6, <2>2, <2>4 DEF Collects, Takes
  <2>6. captured'[t - 1] = NoEvent /\ Place(n) = t - 1
    BY <2>2, <2>5 DEF Free, Place
  <2> QED
    BY <2>2, <2>5, <2>6
<1>17. CellsInv'
  <2>1. captured' = captured \/ (OnRelease(n) /\ (n > 1 => captured'[Place(n)] = NoEvent))
    BY <1>3, <1>6, <1>16 DEF Collects
  <2> QED
    BY <1>1, <1>3, <1>4, <1>6, <1>c, <2>1, CellsStay
<1>18. RoomLeft'
  <2>1. undecided' # 0 /\ n > 1 => Free(captured', Fr(n - 1).s, Cardinality(Silents') + 1)
    BY <1>3, <1>16
  <2>2. Silents' \subseteq Slots
    BY <1>15, SilentsAre
  <2> QED
    BY <1>1, <1>3, <1>4, <1>c, <2>1, <2>2, RoomAfter
<1>19. ListenRoom' /\ InvokeInv' /\ InvokeRoom' /\ OwnSilent'
  BY <1>1, <1>3, <1>4, <1>c, ListenRoomStay, InvokeNone, OwnSilentStay
<1>20. OneSilent'
  <2> SUFFICES ASSUME undecided' # 0 \/ \E d \in Levels' : Fr(d)'.op \in {"listen", "invoke"}
               PROVE  \E w \in Slots : \A x \in Silents' : x = w \/ Ends(x)'
    BY DEF OneSilent
  <2>1. undecided # 0 \/ \E d \in Levels : Fr(d).op \in {"listen", "invoke"}
    BY <1>1, <1>3, <1>4 DEF Levels, NewCalls, Kept
  <2>2. PICK w \in Slots : \A x \in Silents : x = w \/ Ends(x)
    BY <1>c, <2>1 DEF OneSilent
  <2>3. KeyAt(n) = held[s].pos /\ Fr(n).op \in EndOps
    BY <1>2, <1>3 DEF KeyAt, EndOps
  <2>4. \A x : Ends(x) <=> held[x].pos = held[s].pos
    BY <1>1, <1>3, <1>c, <2>3, TopEnds
  <2>5. \A x \in Silents : Ends(x) => x = s
    BY <1>3, <1>c, <2>4, SilentsAre DEF SlotsInv, OneSlotPerKey, Silents
  <2> QED
    BY <1>15, <2>2, <2>5
<1>21. Items' = Items /\ ItemsInv'
  <2>1. Items' = Items
    BY <1>1, <1>3, <1>4, <1>6, <1>c, ItemsStay
  <2> QED
    BY <1>3, <1>c, <2>1, ItemsInvStay
<1>22. \A x : Finishing(x)' <=> \E d \in 1 .. n - 1 : Fr(d).op = "finish" /\ Fr(d).s = x
  <2>1. Levels' = 1 .. n - 1 /\ \A d \in 1 .. n - 1 : Fr(d)' = Fr(d)
    BY <1>4 DEF Levels, NewCalls, Kept
  <2> QED
    BY <2>1 DEF Finishing
<1>23. ASSUME NEW x \in Slots, x # s, Finishing(x)
       PROVE  Finishing(x)'
  <2>1. PICK d \in Levels : Fr(d).op = "finish" /\ Fr(d).s = x
    BY <1>23 DEF Finishing
  <2>2. d # n
    BY <1>2, <1>23, <2>1
  <2>3. d \in 1 .. n - 1
    BY <1>1, <1>3, <2>2 DEF Levels
  <2> QED
    BY <1>22, <2>1, <2>3
<1>24. Used(s)' => Fr(n).moment = "TIMER_EVENT" /\ held'[s].pos = held[s].pos /\ held'[s].cancelled
  BY <1>11 DEF Used, FreeSlot
<1>25. \A x \in Slots : Used(x)' => Used(x) /\ held'[x].pos = held[x].pos
  BY <1>3, <1>9, <1>24 DEF Used
<1>26. SlotsInv'
  <2>1. UndecidedIsUnique'
    <3> SUFFICES ASSUME NEW x \in Slots
                 PROVE  (x = undecided) <=> (held'[x].pos # NoPos /\ held'[x].status = "UNDECIDED")
      BY <1>3 DEF UndecidedIsUnique
    <3>1. CASE x # s
      BY <1>9, <1>c, <3>1 DEF SlotsInv, UndecidedIsUnique
    <3>2. CASE x = s
      BY <1>7, <1>8, <1>11, <3>2 DEF FreeSlot
    <3> QED
      BY <3>1, <3>2
  <2>2. NoStaleTimer'
    <3> SUFFICES ASSUME NEW x \in Slots, timer[x]
                 PROVE  held'[x].pos # NoPos
      BY <1>3 DEF NoStaleTimer
    <3>1. CASE x # s
      BY <1>9, <1>c, <3>1 DEF SlotsInv, NoStaleTimer
    <3>2. CASE x = s
      BY <1>3, <1>7, <1>11, <3>2 DEF Used
    <3> QED
      BY <3>1, <3>2
  <2>3. OneSlotPerKey'
    <3> SUFFICES ASSUME NEW x \in Slots, NEW y \in Slots, Used(x)', held'[x].pos = held'[y].pos
                 PROVE  x = y
      BY DEF OneSlotPerKey
    <3>1. Used(y)'
      BY DEF Used
    <3> QED
      BY <1>25, <1>c, <3>1 DEF SlotsInv, OneSlotPerKey
  <2>4. SlotsReturn'
    <3> SUFFICES ASSUME NEW x \in Slots, Used(x)'
                 PROVE  held'[x].pos \in seen' \/ held'[x].cancelled \/ Finishing(x)'
      BY DEF SlotsReturn
    <3>1. CASE x = s
      BY <1>24, <3>1
    <3>2. CASE x # s
      BY <1>3, <1>9, <1>23, <1>25, <1>c, <3>2 DEF SlotsInv, SlotsReturn
    <3> QED
      BY <3>1, <3>2
  <2>5. CancelledDone'
    <3> SUFFICES ASSUME NEW x \in Slots, held'[x].cancelled
                 PROVE  /\ Used(x)' /\ timer'[x] /\ x # undecided' /\ held'[x].pos \notin seen'
                        /\ \A y \in Items' : y.key # held'[x].pos
      BY DEF CancelledDone
    <3>1. CASE x = s
      <4>1. Fr(n).moment = "TIMER_EVENT" /\ held'[s].pos = held[s].pos
        BY <1>11, <3>1 DEF FreeSlot
      <4>2. n = 1 /\ timer[s] /\ Place(n) = MaxCaptured + 1
        BY <1>7, <4>1 DEF Place
      <4>3. \A y \in Items : y.key # held[s].pos
        <5> SUFFICES ASSUME NEW y \in Items, y.key = held[s].pos
                     PROVE  FALSE
          OBVIOUS
        <5>1. MaxCaptured + 1 < y.at
          BY <1>7, <4>2
        <5>2. y.at \in 1 .. MaxCaptured + 1
          BY <1>c, ItemsTyped, ItemIs
        <5> QED
          BY <5>1, <5>2, Constants
      <4> QED
        BY <1>3, <1>7, <1>21, <3>1, <4>1, <4>2, <4>3 DEF Used
    <3>2. CASE x # s
      <4>1. held'[x] = held[x] /\ UNCHANGED <<timer, undecided, seen>>
        BY <1>3, <1>9, <3>2
      <4>2. held[x].cancelled
        BY <4>1
      <4>3. /\ held[x].pos # NoPos /\ timer[x] /\ x # undecided /\ held[x].pos \notin seen
            /\ \A y \in Items : y.key # held[x].pos
        BY <1>c, <4>2 DEF SlotsInv, CancelledDone, Used
      <4> QED
        BY <1>21, <4>1, <4>3 DEF Used
    <3> QED
      BY <3>1, <3>2
  <2>6. OthersCaptured'
    <3>1. \A i : Low(i)' <=> Low(i)
      BY <1>1, <1>3, <1>4, <1>c, ReplaysStay, LowStays
    <3>2. EventCells' = EventCells /\ \A i \in EventCells : captured'[i] = captured[i]
      BY <1>6, <1>c, GatheredEvents
    <3> QED
      BY <1>25, <1>c, <3>1, <3>2 DEF SlotsInv, OthersCaptured
  <2> QED
    BY <2>1, <2>2, <2>3, <2>4, <2>5, <2>6 DEF SlotsInv
<1>27. FinishInv'
  <2> SUFFICES ASSUME NEW d \in Levels', Fr(d)'.op = "finish"
               PROVE  /\ Used(Fr(d).s)' /\ held'[Fr(d)'.s].pos \notin seen'
                      /\ Fr(d)'.moment = "TIMER_EVENT" => d = 1 /\ timer'[Fr(d)'.s]
                      /\ Fr(d)'.moment # "TIMER_EVENT" => ~timer'[Fr(d)'.s]
                      /\ ~ToDecide(d)' => Fr(d)'.s # undecided'
                      /\ \A x \in Items' : x.key = held'[Fr(d)'.s].pos => Place(d)' < x.at
                      /\ \A k \in Levels' : Fr(k)'.op = "finish" /\ Fr(k)'.s = Fr(d)'.s => k = d
    BY DEF FinishInv
  <2>1. /\ d \in 1 .. n - 1 /\ d \in 1 .. n /\ Fr(d)' = Fr(d) /\ d \in Levels /\ n \in d + 1 .. Height
        /\ \A k \in Levels' : Fr(k)' = Fr(k) /\ k \in Levels
    BY <1>1, <1>3, <1>4 DEF Levels, NewCalls, Kept
  <2>2. PICK x : x = Fr(d).s
    OBVIOUS
  <2>3. x \in Slots /\ Fr(d).op = "finish" /\ Fr(d)'.s = x
    BY <1>c, <2>1, <2>2 DEF Shape, FrameShape
  <2>4. x # s
    BY <1>3, <1>7, <2>1, <2>2, <2>3
  <2>5. ~ToDecide(d)
    BY <1>3, <2>1 DEF ToDecide
  <2>6. /\ Used(x) /\ held[x].pos \notin seen
        /\ Fr(d).moment = "TIMER_EVENT" => d = 1 /\ timer[x]
        /\ Fr(d).moment # "TIMER_EVENT" => ~timer[x]
        /\ x # undecided
        /\ \A y \in Items : y.key = held[x].pos => Place(d) < y.at
        /\ \A k \in Levels : Fr(k).op = "finish" /\ Fr(k).s = x => k = d
    BY <1>c, <2>1, <2>2, <2>3, <2>5 DEF FinishInv
  <2>7. Place(d)' = Place(d)
    BY <1>3, <1>4, <1>c, <2>1, PlaceKept
  <2>8. held'[x] = held[x]
    BY <1>9, <2>3, <2>4
  <2>9. Used(Fr(d).s)'
    BY <2>3, <2>6, <2>8 DEF Used
  <2> QED
    BY <1>3, <1>21, <2>1, <2>3, <2>6, <2>7, <2>8, <2>9
<1>28. PressInv'
  <2>1. Fr(n).op \notin {"decide", "release"}
    BY <1>3
  <2> QED
    BY <1>1, <1>3, <1>4, <1>13, <1>27, <1>c, <2>1, PressStay
<1> QED
  BY <1>14, <1>17, <1>18, <1>19, <1>20, <1>21, <1>26, <1>27, <1>28
     DEF Core, RoomInv, SilentInv, CallInv
-----------------------------------------------------------------------------
(* DecideHoldTap *)

LEMMA SameCollects ==
  ASSUME Types, NEW io, SetIO(io), IOOK(io), SameEvents(IO, io), lost' = {}
  PROVE  Collects(0) /\ captured' = captured
<1>1. IOOK(IO) /\ IO.cap = captured
  BY IOIs
<1>2. Emitted(IO, io, 0)
  BY <1>1, EmitsNothing DEF SameEvents
<1>3. Collects(0)
  BY <1>2, SetIOCollects
<1>4. captured' = captured
  BY <1>1 DEF SetIO, SameEvents
<1> QED
  BY <1>3, <1>4

LEMMA FlavorIs ==
  ASSUME NEW flavor, NEW m \in Moments
  PROVE  /\ Flavor(flavor, m) \in Statuses
         /\ m = "KEY_DOWN" => Flavor(flavor, m) = "UNDECIDED"
         /\ m = "KEY_UP" => Flavor(flavor, m) = "TAP"
         /\ Flavor(flavor, m) = "HOLD_TIMER" => m = "TIMER_EVENT"
BY DEF Flavor, Moments, Statuses

\* decide_hold_tap: nothing, or the decision and the replay; the keycodes it sends are not
\* captured.
LEMMA DecideSplits ==
  ASSUME Core, DecideHoldTap, lost' = {}, NEW n, n = Height, NEW s, s = Fr(n).s
  PROVE  /\ n \in Levels /\ n \in Nat /\ n >= 1 /\ Fr(n).op = "decide" /\ DecideShape(n)
         /\ s \in Slots /\ Used(s) /\ Collects(0) /\ captured' = captured
         /\ UNCHANGED <<config, now, timer, down, presses, seen, typed>>
         /\ \/ Returned(n) /\ UNCHANGED <<undecided, held>> /\ (Fr(n).moment = "KEY_UP" => s # undecided)
            \/ /\ Becomes(n, Release(1)) /\ s = undecided /\ undecided' = 0
               /\ Fr(n).moment # "KEY_DOWN"
               /\ \E st \in Statuses \ {"UNDECIDED"} :
                     /\ held' = [held EXCEPT ![s].status = st]
                     /\ st = "HOLD_TIMER" => Fr(n).moment = "TIMER_EVENT"
<1>c. Types /\ PressInv /\ UndecidedIsUnique /\ TypeOK
  BY DEF Core, Types, CallInv, SlotsInv
<1>1. /\ n \in Levels /\ n \in Nat /\ n >= 1 /\ Fr(n).op = "decide" /\ FrameShape(n)
      /\ stack \in Seq(Frames) /\ stack # <<>> /\ Fr(n) = Head(stack) /\ Fr(n) \in Frames
  BY <1>c, Top, FrameTypes DEF DecideHoldTap, Levels
<1>2. DecideShape(n) /\ s \in Slots /\ Used(s) /\ Fr(n).moment \in Moments
  BY <1>1, <1>c DEF FrameShape, DecideShape, PressInv, Frames
<1>3. UNCHANGED <<config, now, timer, down, presses, seen, typed>>
  BY DEF DecideHoldTap
<1>4. PICK m, flavored : m = Fr(n).moment /\ flavored = Flavor(Cfg(s).flavor, m)
  OBVIOUS
<1>5. PICK st : st = Positional(s, flavored)
  OBVIOUS
<1>6. IF held[s].status # "UNDECIDED" \/ s # undecided
      THEN Call(<<>>) /\ UNCHANGED <<undecided, held, captured, lastTapped, out, lost>>
      ELSE IF Cfg(s).holdWhileUndecided /\ m = "KEY_DOWN"
      THEN /\ SetIO(Emit(IO, s, Hold(held[s].pos), TRUE, held[s].ts))
           /\ Call(<<>>) /\ UNCHANGED <<undecided, held>>
      ELSE IF flavored = "UNDECIDED"
      THEN Call(<<>>) /\ UNCHANGED <<undecided, held, captured, lastTapped, out, lost>>
      ELSE /\ held' = [held EXCEPT ![s].status = st]
           /\ undecided' = 0
           /\ SetIO(PressBinding(IO, 0, s, st))
           /\ Call(<<Release(1)>>)
  BY <1>1, <1>4, <1>5, Zenon DEF DecideHoldTap
<1>7. /\ flavored \in Statuses /\ (m = "KEY_DOWN" => flavored = "UNDECIDED")
      /\ (m = "KEY_UP" => flavored = "TAP") /\ (flavored = "HOLD_TIMER" => m = "TIMER_EVENT")
  BY <1>2, <1>4, FlavorIs
<1>8. IOOK(IO)
  BY <1>c, IOIs
<1>9. Call(<<>>) => Returned(n)
  BY <1>1, Calls0
<1>10. UNCHANGED <<captured, lastTapped, out, lost>> => Collects(0) /\ captured' = captured
  BY <1>c, UntouchedCollects
<1>11. CASE held[s].status # "UNDECIDED" \/ s # undecided
  <2>1. s # undecided
    BY <1>2, <1>11, <1>c DEF UndecidedIsUnique
  <2> QED
    BY <1>1, <1>2, <1>3, <1>6, <1>9, <1>10, <1>11, <2>1
<1>12. CASE /\ held[s].status = "UNDECIDED" /\ s = undecided
            /\ Cfg(s).holdWhileUndecided /\ m = "KEY_DOWN"
  <2>1. Passes(s)
    BY <1>12 DEF Passes
  <2>2. held[s].pos \in HoldTaps /\ held[s].ts \in Nat
    BY <1>2, <1>c, SlotIs
  <2>3. PICK io : io = Emit(IO, s, Hold(held[s].pos), TRUE, held[s].ts)
    OBVIOUS
  <2>4. PICK code, ts : code = Hold(held[s].pos) /\ ts = held[s].ts
    OBVIOUS
  <2>5. code \in Codes /\ ts \in Nat /\ io = Emit(IO, s, code, TRUE, ts)
    BY <2>2, <2>3, <2>4, CodesAre
  <2>6. IOOK(io) /\ SameEvents(IO, io)
    BY <1>8, <2>1, <2>5, EmitsPress, EmittedOK
  <2>7. SetIO(io) /\ Call(<<>>) /\ UNCHANGED <<undecided, held>>
    BY <1>6, <1>12, <2>3
  <2>8. Collects(0) /\ captured' = captured
    BY <1>c, <2>6, <2>7, SameCollects
  <2> QED
    BY <1>1, <1>2, <1>3, <1>4, <1>9, <1>12, <2>7, <2>8
<1>13. CASE /\ held[s].status = "UNDECIDED" /\ s = undecided /\ flavored = "UNDECIDED"
            /\ ~(Cfg(s).holdWhileUndecided /\ m = "KEY_DOWN")
  BY <1>1, <1>2, <1>3, <1>4, <1>6, <1>7, <1>9, <1>10, <1>13
<1>14. CASE /\ held[s].status = "UNDECIDED" /\ s = undecided /\ flavored # "UNDECIDED"
            /\ ~(Cfg(s).holdWhileUndecided /\ m = "KEY_DOWN")
  <2>1. /\ held' = [held EXCEPT ![s].status = st] /\ undecided' = 0
        /\ SetIO(PressBinding(IO, 0, s, st)) /\ Call(<<Release(1)>>)
    BY <1>6, <1>14
  <2>2. st \in Statuses \ {"UNDECIDED"} /\ (st = "HOLD_TIMER" => m = "TIMER_EVENT")
    BY <1>5, <1>7, <1>14 DEF Positional, Statuses
  <2>3. PICK io : io = PressBinding(IO, 0, s, st)
    OBVIOUS
  <2>4. IOOK(io) /\ SameEvents(IO, io)
    BY <1>2, <1>8, <1>c, <2>3, PressesDecided
  <2>5. Collects(0) /\ captured' = captured
    BY <1>c, <2>1, <2>3, <2>4, SameCollects
  <2>6. PICK f : f = Release(1)
    OBVIOUS
  <2>7. f \in Frames
    BY <2>6, Constants, FramesAre DEF Release, Frame, Frames, Moments, NoEvent, Event
  <2>8. Becomes(n, f)
    BY <1>1, <2>1, <2>6, <2>7, Calls1
  <2>9. m # "KEY_DOWN"
    BY <1>7, <1>14
  <2> QED
    BY <1>1, <1>2, <1>3, <1>4, <1>14, <2>1, <2>2, <2>5, <2>6, <2>8, <2>9
<1> QED
  BY <1>11, <1>12, <1>13, <1>14

\* A decision that changes nothing returns.
LEMMA DecideReturns ==
  ASSUME Core, lost' = {}, NEW n \in Levels, n = Height, n \in Nat, n >= 1, Fr(n).op = "decide",
         DecideShape(n), NEW s \in Slots, s = Fr(n).s, Collects(0), captured' = captured,
         UNCHANGED <<config, now, timer, down, presses, seen, typed>>,
         Returned(n), UNCHANGED <<undecided, held>>, Fr(n).moment = "KEY_UP" => s # undecided
  PROVE  Core'
<1>c. /\ Types /\ Shape /\ CellsInv /\ Rising /\ Gap /\ ItemsInv /\ SlotsInv /\ FinishInv
      /\ PressInv /\ RoomLeft /\ ListenRoom /\ OneSilent /\ OwnSilent
  BY DEF Core, Types, CellsInv, CallInv, SilentInv, RoomInv
<1>1. /\ NewCalls(n, {}) /\ Height' = n - 1 /\ stack' \in Seq(Frames)
      /\ \A d \in n .. Height' : FALSE
  BY NewCallsAre DEF Returned
<1>2. Levels' = 1 .. n - 1 /\ Levels = 1 .. n /\ \A d \in 1 .. n - 1 : Fr(d)' = Fr(d) /\ d \in Levels
  BY <1>1 DEF Levels, NewCalls, Kept
<1>3. Shape'
  BY <1>1, <1>c, ShapeNew
<1>4. Types'
  BY <1>1, <1>3, <1>c, TypesAfter DEF Collects, Types, TypeOK
<1>5. CellsInv'
  BY <1>1, <1>c, CellsStay
<1>6. Silents' = Silents
  BY DEF Silents, Used, Silent, Cfg
<1>7. RoomLeft'
  <2> SUFFICES ASSUME undecided # 0, NEW d \in Levels', TopRelease(d)'
               PROVE  Free(captured, Fr(d)'.s, Cardinality(Silents) + (IF Carries(d)' THEN 2 ELSE 1))
    BY <1>6 DEF RoomLeft
  <2>1. d \in 1 .. n - 1 /\ Fr(d)' = Fr(d) /\ d \in Levels /\ d + 1 .. Height' \subseteq 1 .. n - 1
    BY <1>1, <1>2
  <2>2. \A e \in d + 1 .. Height : e = n \/ (e \in d + 1 .. Height' /\ Fr(e)' = Fr(e))
    BY <1>1, <1>2, <2>1
  <2>3. TopRelease(d)
    BY <1>2, <2>1, <2>2 DEF TopRelease, IsRelease
  <2>4. Carries(d)' <=> Carries(d)
    <3>1. \A e \in d + 1 .. Height' : Fr(e)' = Fr(e) /\ e \in d + 1 .. Height
      BY <1>1, <1>2, <2>1
    <3>2. Fr(n).op \notin EventOps \cup {"finish"}
      BY DEF EventOps
    <3> QED
      BY <2>2, <3>1, <3>2 DEF Carries
  <2>5. Free(captured, Fr(d).s, Cardinality(Silents) + (IF Carries(d) THEN 2 ELSE 1))
    BY <1>c, <2>1, <2>3 DEF RoomLeft
  <2>6. (IF Carries(d)' THEN 2 ELSE 1) = (IF Carries(d) THEN 2 ELSE 1)
    BY <2>4
  <2> QED
    BY <2>1, <2>5, <2>6
<1>8. ListenRoom' /\ InvokeInv' /\ InvokeRoom' /\ OwnSilent'
  BY <1>1, <1>c, ListenRoomStay, InvokeNone, OwnSilentStay
<1>9. OneSilent'
  <2> SUFFICES ASSUME undecided' # 0 \/ \E d \in Levels' : Fr(d)'.op \in {"listen", "invoke"}
               PROVE  \E w \in Slots : \A x \in Silents' : x = w \/ Ends(x)'
    BY DEF OneSilent
  <2>1. undecided # 0 \/ \E d \in Levels : Fr(d).op \in {"listen", "invoke"}
    BY <1>2
  <2>2. PICK w \in Slots : \A x \in Silents : x = w \/ Ends(x)
    BY <1>c, <2>1 DEF OneSilent
  <2>3. Fr(n).op \notin EndOps /\ {} \cap EndOps = {}
    BY DEF EndOps
  <2>4. \A x : Ends(x) => Ends(x)'
    BY <1>1, <1>c, <2>3, EndsStay
  <2> QED
    BY <1>6, <2>2, <2>4
<1>10. Items' = Items /\ ItemsInv'
  <2>1. n \notin EventFrames
    BY DEF EventFrames, EventOps
  <2>2. Items' = Items
    BY <1>1, <1>c, <2>1, ItemsStay
  <2> QED
    BY <1>c, <2>2, ItemsInvStay
<1>11. SlotsInv'
  <2>1. \A i : Low(i)' <=> Low(i)
    BY <1>1, <1>c, ReplaysStay, LowStays
  <2>2. \A x : Finishing(x)' <=> Finishing(x)
    BY <1>1, <1>c, FinishBelow
  <2>3. EventCells' = EventCells
    BY DEF EventCells
  <2> QED
    BY <1>10, <1>c, <2>1, <2>2, <2>3, SlotsStay
<1>12. FinishInv'
  <2>1. \A d \in Levels : Fr(d).op = "finish" => ToDecide(d)' \/ Fr(d).s # undecided
    <3> SUFFICES ASSUME NEW d \in Levels, Fr(d).op = "finish"
                 PROVE  ToDecide(d)' \/ Fr(d).s # undecided
      OBVIOUS
    <3>1. d < n /\ d \in Nat
      BY <1>1, <1>c, FinishBelow, FrameTypes
    <3>2. CASE ~ToDecide(d)
      BY <1>c, <3>2 DEF FinishInv
    <3>3. CASE ToDecide(d) /\ d < n - 1
      <4>1. \A e \in d + 1 .. Height' : Fr(e)'.op = "decide"
        <5> TAKE e \in d + 1 .. Height'
        <5>1. e \in d + 1 .. Height /\ e \in 1 .. n - 1
          BY <1>1, <3>1
        <5> QED
          BY <1>2, <3>3, <5>1 DEF ToDecide
      <4> QED
        BY <1>1, <3>3, <4>1 DEF ToDecide
    <3>4. CASE d = n - 1
      <4>1. Fr(n - 1).op = "finish" /\ n > 1
        BY <1>2, <3>1, <3>4
      <4>2. Fr(n).moment \in Moments
        BY <1>c, FrameTypes DEF Frames
      <4>3. Fr(n).moment = "KEY_UP"
        BY <1>c, <4>1, <4>2 DEF DecideShape, Returns, OnRelease, IsRelease, Moments
      <4>4. Fr(n - 1).s = s
        BY <4>3 DEF DecideShape, Returns
      <4> QED
        BY <3>4, <4>3, <4>4
    <3> QED
      BY <3>1, <3>2, <3>3, <3>4
  <2> QED
    BY <1>1, <1>10, <1>c, <2>1, FinishStay
<1>13. PressInv'
  <2> SUFFICES ASSUME NEW d \in Levels'
               PROVE  /\ Fr(d)'.op = "schedule" =>
                           d = Height' \/ (Fr(d + 1)'.op = "decide" /\ Fr(d + 1)'.moment = "KEY_DOWN")
                      /\ Fr(d)'.op = "decide" /\ Fr(d)'.moment = "KEY_DOWN" =>
                           captured[1] = NoEvent /\ d = Height'
                      /\ Fr(d)'.op \in {"schedule", "decide"} => Used(Fr(d).s)'
                      /\ Fr(d)'.op = "schedule" => held[Fr(d)'.s].pos \in seen
    BY DEF PressInv
  <2>1. Fr(d)' = Fr(d) /\ d \in Levels /\ d \in 1 .. n - 1
    BY <1>2
  <2>2. Fr(d)'.op \in {"schedule", "decide"} => Used(Fr(d).s)'
    BY <1>c, <2>1 DEF PressInv, Used
  <2>3. d # Height
    BY <2>1
  <2>4. CASE d = n - 1
    <3>1. d + 1 = n /\ d = Height'
      BY <1>1, <2>4
    <3> QED
      BY <1>c, <2>1, <2>2, <2>3, <3>1 DEF PressInv
  <2>5. CASE d # n - 1
    <3>1. d + 1 \in 1 .. n - 1 /\ d + 1 # Height
      BY <2>1, <2>5
    <3>2. Fr(d + 1)' = Fr(d + 1)
      BY <1>2, <3>1
    <3> QED
      BY <1>c, <2>1, <2>2, <2>3, <3>1, <3>2 DEF PressInv
  <2> QED
    BY <2>4, <2>5
<1> QED
  BY <1>4, <1>5, <1>7, <1>8, <1>9, <1>10, <1>11, <1>12, <1>13
     DEF Core, RoomInv, SilentInv, CallInv

\* A decision starts the replay of what was captured meanwhile.
LEMMA DecideReplays ==
  ASSUME Core, lost' = {}, NEW n \in Levels, n = Height, n \in Nat, n >= 1, Fr(n).op = "decide",
         DecideShape(n), NEW s \in Slots, s = Fr(n).s, Used(s), Collects(0), captured' = captured,
         UNCHANGED <<config, now, timer, down, presses, seen, typed>>,
         Becomes(n, Release(1)), s = undecided, undecided' = 0, Fr(n).moment # "KEY_DOWN",
         NEW st \in Statuses \ {"UNDECIDED"}, held' = [held EXCEPT ![s].status = st],
         st = "HOLD_TIMER" => Fr(n).moment = "TIMER_EVENT"
  PROVE  Core'
<1>c. /\ Types /\ Shape /\ CellsInv /\ Rising /\ Gap /\ Packed /\ ItemsInv /\ SlotsInv /\ FinishInv
      /\ PressInv /\ RoomLeft /\ ListenRoom /\ OneSilent /\ OwnSilent
  BY DEF Core, Types, CellsInv, CallInv, SilentInv, RoomInv
<1>1. Release(1).op = "release" /\ Release(1).s = 1
  BY DEF Release, Frame
<1>2. /\ NewCalls(n, {"release"}) /\ Height' = n /\ stack' \in Seq(Frames)
      /\ Fr(n)'.op = "release" /\ Fr(n)'.s = 1
  BY <1>1, NewCallsAre DEF Becomes
<1>3. /\ Levels' = Levels /\ Levels = 1 .. n /\ n .. Height' = {n}
      /\ \A d \in 1 .. n - 1 : Fr(d)' = Fr(d) /\ d \in Levels
      /\ \A d \in Levels : d = n \/ d \in 1 .. n - 1
  BY <1>2 DEF Levels, NewCalls, Kept
<1>4. 1 \in Cells /\ 1 \in 1 .. MaxCaptured + 1 /\ 0 \notin Slots /\ Cells \subseteq Nat /\ s # 0
  BY Constants DEF Cells
<1>5. Shape'
  <2>1. FrameShape(n)'
    BY <1>2, <1>4 DEF FrameShape, EventOps
  <2> QED
    BY <1>2, <1>3, <1>c, <2>1, ShapeNew
<1>6. /\ held' \in [Slots -> [pos : HoldTaps \cup {NoPos}, status : Statuses, ts : Nat,
                              first : Positions \cup {NoPos}, cancelled : BOOLEAN]]
      /\ \A x \in Slots : /\ held'[x].pos = held[x].pos /\ held'[x].cancelled = held[x].cancelled
                          /\ held'[x].ts = held[x].ts /\ (x # s => held'[x].status = held[x].status)
      /\ held'[s].status = st
  <2>1. held \in [Slots -> [pos : HoldTaps \cup {NoPos}, status : Statuses, ts : Nat,
                            first : Positions \cup {NoPos}, cancelled : BOOLEAN]]
    BY <1>c DEF Types, TypeOK
  <2> QED
    BY <2>1
<1>7. undecided' \in 0 .. MaxHeld
  BY Constants
<1>8. Types'
  BY <1>2, <1>5, <1>6, <1>7, <1>c, TypesAfter DEF Collects, Types, TypeOK
<1>9. \A d : IsRelease(d)' <=> d = n \/ IsRelease(d)
  <2>1. ~IsRelease(n)
    BY DEF IsRelease
  <2> QED
    BY <1>2, <1>3, <2>1 DEF IsRelease
<1>10. \A d : IsRelease(d) => d \in 1 .. n - 1 /\ Fr(d)' = Fr(d) /\ Fr(d).s >= 2 /\ Fr(d).s \in Nat
                             /\ ~Full(Fr(d).s - 1) /\ d < n
  <2> SUFFICES ASSUME NEW d, IsRelease(d)
               PROVE  d \in 1 .. n - 1 /\ Fr(d)' = Fr(d) /\ Fr(d).s >= 2 /\ Fr(d).s \in Nat
                      /\ ~Full(Fr(d).s - 1) /\ d < n
    OBVIOUS
  <2>1. d # n /\ d \in Levels
    BY DEF IsRelease
  <2>2. d \in 1 .. n - 1 /\ d < Height
    BY <1>3, <2>1
  <2> QED
    BY <1>3, <1>c, <2>1, <2>2, ReleaseCells DEF Gap
<1>11. CellsInv'
  <2>1. Rising'
    <3> SUFFICES ASSUME NEW d, NEW e, IsRelease(d)', IsRelease(e)', d < e
                 PROVE  Fr(e)'.s < Fr(d)'.s
      BY DEF Rising
    <3>1. IsRelease(d)
      <4>1. e = n \/ (e \in 1 .. n - 1 /\ e < n)
        BY <1>9, <1>10
      <4>2. d # n
        BY <4>1
      <4> QED
        BY <1>9, <4>2
    <3>2. CASE e = n
      BY <1>2, <1>10, <3>1, <3>2
    <3>3. CASE IsRelease(e)
      BY <1>10, <1>c, <3>1, <3>3 DEF Rising, IsRelease
    <3> QED
      BY <1>9, <3>2, <3>3
  <2>2. Gap'
    <3> SUFFICES ASSUME NEW d, IsRelease(d)', d < n
                 PROVE  Fr(d)'.s >= 2 /\ captured[Fr(d)'.s - 1] = NoEvent
      BY <1>2 DEF Gap, Full
    <3>1. IsRelease(d)
      BY <1>9
    <3> QED
      BY <1>10, <3>1 DEF Full
  <2>3. Packed'
    <3> SUFFICES ASSUME NEW i \in Cells, NEW j \in Cells, i < j, ~Full(i), Full(j)
                 PROVE  \E d \in Levels' : IsRelease(d)' /\ i < Fr(d)'.s /\ Fr(d)'.s <= j
      BY DEF Packed, Full
    <3>1. PICK d \in Levels : IsRelease(d) /\ i < Fr(d).s /\ Fr(d).s <= j
      BY <1>c DEF Packed
    <3> QED
      BY <1>3, <1>9, <1>10, <3>1
  <2>4. LowEmpty'
    <3> SUFFICES ASSUME NEW i \in Cells, Low(i)'
                 PROVE  FALSE
      BY DEF LowEmpty
    <3>1. i < Fr(n)'.s
      BY <1>3, <1>9 DEF Low
    <3> QED
      BY <1>2, <1>4, <3>1 DEF Cells
  <2> QED
    BY <2>1, <2>2, <2>3, <2>4 DEF CellsInv
<1>12. RoomLeft'
  BY DEF RoomLeft
<1>13. ListenRoom' /\ InvokeInv' /\ InvokeRoom' /\ OwnSilent'
  <2>1. \A d \in n .. Height' : Fr(d)'.op = "release"
    BY <1>2, <1>3
  <2>2. "invoke" \notin {"release"}
    OBVIOUS
  <2> QED
    BY <1>2, <1>c, <2>1, <2>2, ListenRoomStay, InvokeNone, OwnSilentStay
<1>14. \A x : Ends(x) /\ x \in Slots => Ends(x)'
  <2>1. Fr(n).op \notin EndOps /\ {"release"} \cap EndOps = {}
    BY DEF EndOps
  <2>2. \A d \in Levels : Fr(d).op = "finish" => held'[Fr(d).s].pos = held[Fr(d).s].pos
    <3> SUFFICES ASSUME NEW d \in Levels, Fr(d).op = "finish"
                 PROVE  held'[Fr(d).s].pos = held[Fr(d).s].pos
      OBVIOUS
    <3>1. Fr(d).s \in Slots
      BY <1>c DEF Shape, FrameShape
    <3> QED
      BY <1>6, <3>1
  <2> SUFFICES ASSUME NEW x \in Slots, Ends(x)
               PROVE  Ends(x)'
    OBVIOUS
  <2>3. held'[x].pos = held[x].pos
    BY <1>6
  <2> QED
    BY <1>2, <1>c, <2>1, <2>2, <2>3, EndsStay
<1>15. /\ \A x \in Slots : x # s => (x \in Silents' <=> x \in Silents)
       /\ s \in Silents' => st = "HOLD_TIMER"
       /\ Silents \subseteq Slots /\ Silents' \subseteq Slots
  BY <1>6 DEF Silents, Used, Silent, Cfg
<1>16. OneSilent'
  <2> SUFFICES ASSUME \E d \in Levels' : Fr(d)'.op \in {"listen", "invoke"}
               PROVE  \E w \in Slots : \A x \in Silents' : x = w \/ Ends(x)'
    BY DEF OneSilent
  <2>1. n > 1
    BY <1>2, <1>3
  <2>2. PICK w \in Slots : \A x \in Silents : x = w \/ Ends(x)
    BY <1>4, <1>c DEF OneSilent
  <2>3. CASE s \notin Silents'
    BY <1>14, <1>15, <2>2, <2>3
  <2>4. CASE s \in Silents'
    <3>1. Fr(n).moment = "TIMER_EVENT"
      BY <1>15, <2>4
    <3>2. PICK k : k = n - 1
      OBVIOUS
    <3>3. /\ k \in Levels /\ n - 1 = k /\ n \in k + 1 .. Height /\ n = k + 1
          /\ \A e \in k + 1 .. Height : e = n
      BY <1>3, <2>1, <3>2
    <3>4. CASE Fr(k).op = "listen"
      <4>1. TopEnd(k) /\ KeyAt(k) = Fr(k).ev.key
        BY <3>3, <3>4 DEF TopEnd, KeyAt, EndOps
      <4>2. \A x \in Silents : held[x].pos = Fr(k).ev.key
        BY <1>c, <2>1, <3>3, <3>4 DEF OwnSilent
      <4>3. \A x \in Silents : Ends(x)
        BY <3>3, <4>1, <4>2 DEF Ends
      <4> QED
        BY <1>14, <1>15, <4>3
    <3>5. CASE Returns(n, "decide", s) /\ Fr(k).moment = "KEY_UP"
      <4>1. Fr(k).op = "decide" /\ Fr(k).s = s
        BY <3>3, <3>5 DEF Returns
      <4>2. DecideShape(k)
        BY <1>c, <3>3, <4>1 DEF Shape, FrameShape
      <4>3. PICK j : j = k - 1
        OBVIOUS
      <4>4. k > 1 /\ Fr(j).op = "finish" /\ Fr(j).s = s
        BY <3>5, <4>1, <4>2, <4>3 DEF DecideShape, Returns
      <4>5. j \in Levels /\ \A e \in j + 1 .. Height : e = n \/ e = k
        BY <1>3, <3>2, <4>3, <4>4
      <4>6. TopEnd(j) /\ KeyAt(j) = held[s].pos
        BY <4>1, <4>4, <4>5 DEF TopEnd, KeyAt, EndOps
      <4>7. Ends(s)
        BY <4>5, <4>6 DEF Ends
      <4> QED
        BY <1>14, <1>15, <2>2, <4>7
    <3> QED
      BY <2>1, <3>1, <3>3, <3>4, <3>5 DEF DecideShape
  <2> QED
    BY <2>3, <2>4
<1>17. Items' = Items /\ ItemsInv'
  <2>1. n \notin EventFrames /\ \A d \in n .. Height' : d \notin EventFrames'
    BY <1>2, <1>3 DEF EventFrames, EventOps
  <2>2. Items' = Items
    BY <1>2, <1>c, <2>1, ItemsStay
  <2> QED
    BY <1>c, <2>2, ItemsInvStay
<1>18. /\ \A d \in Levels : Fr(d).op = "finish" => Fr(d)' = Fr(d) /\ Place(d)' = Place(d) /\ d < n
       /\ \A x : Finishing(x)' <=> Finishing(x)
  <2>1. "finish" \notin {"release"} /\ Fr(n).op # "finish"
    OBVIOUS
  <2> QED
    BY <1>2, <1>c, <2>1, FinishBelow
<1>19. SlotsInv'
  <2>1. UndecidedIsUnique'
    <3> SUFFICES ASSUME NEW x \in Slots
                 PROVE  ~(held'[x].pos # NoPos /\ held'[x].status = "UNDECIDED")
      BY <1>4 DEF UndecidedIsUnique
    <3>1. CASE x # s
      BY <1>6, <1>c, <3>1 DEF SlotsInv, UndecidedIsUnique
    <3>2. CASE x = s
      BY <1>6, <3>2
    <3> QED
      BY <3>1, <3>2
  <2>2. NoStaleTimer' /\ OneSlotPerKey'
    BY <1>6, <1>c DEF SlotsInv, NoStaleTimer, OneSlotPerKey, Used
  <2>3. SlotsReturn'
    BY <1>6, <1>18, <1>c DEF SlotsInv, SlotsReturn, Used
  <2>4. CancelledDone'
    <3> SUFFICES ASSUME NEW x \in Slots, held'[x].cancelled
                 PROVE  /\ held'[x].pos # NoPos /\ timer'[x] /\ x # undecided' /\ held'[x].pos \notin seen'
                        /\ \A y \in Items' : y.key # held'[x].pos
      BY DEF CancelledDone, Used
    <3>1. /\ held[x].pos # NoPos /\ timer[x] /\ held[x].pos \notin seen
          /\ \A y \in Items : y.key # held[x].pos
      BY <1>6, <1>c DEF SlotsInv, CancelledDone, Used
    <3> QED
      BY <1>4, <1>6, <1>17, <3>1
  <2>5. OthersCaptured'
    <3> SUFFICES ASSUME NEW i \in EventCells', Low(i)'
                 PROVE  FALSE
      BY DEF OthersCaptured
    <3>1. i < Fr(n)'.s
      BY <1>3, <1>9 DEF Low
    <3>2. i \in Cells
      BY DEF EventCells
    <3> QED
      BY <1>2, <1>4, <3>1, <3>2 DEF Cells
  <2> QED
    BY <2>1, <2>2, <2>3, <2>4, <2>5 DEF SlotsInv
<1>20. \A d \in Levels : Fr(d).op = "finish" => Fr(d).s \in Slots
  BY <1>c DEF Shape, FrameShape
<1>21. FinishInv'
  <2>1. \A d \in Levels : Fr(d).op = "finish" =>
          /\ held'[Fr(d).s].pos = held[Fr(d).s].pos /\ timer'[Fr(d).s] = timer[Fr(d).s]
          /\ held[Fr(d).s].pos \in seen' => held[Fr(d).s].pos \in seen
          /\ ToDecide(d)' \/ Fr(d).s # undecided'
    BY <1>4, <1>6, <1>20
  <2>2. "finish" \notin {"release"} /\ Fr(n).op # "finish"
    OBVIOUS
  <2> QED
    BY <1>2, <1>17, <1>c, <2>1, <2>2, FinishStay
<1>22. PressInv'
  <2> SUFFICES ASSUME NEW d \in Levels'
               PROVE  /\ Fr(d)'.op = "schedule" =>
                           d = Height' \/ (Fr(d + 1)'.op = "decide" /\ Fr(d + 1)'.moment = "KEY_DOWN")
                      /\ Fr(d)'.op = "decide" /\ Fr(d)'.moment = "KEY_DOWN" =>
                           /\ captured[1] = NoEvent
                           /\ d + 1 = Height' /\ Fr(d + 1)'.op = "release" /\ Fr(d + 1)'.s = 1
                      /\ Fr(d)'.op \in {"schedule", "decide"} => Used(Fr(d).s)'
                      /\ Fr(d)'.op = "schedule" => held'[Fr(d)'.s].pos \in seen
    BY DEF PressInv
  <2>1. CASE d = n
    BY <1>2, <2>1
  <2>2. CASE d \in 1 .. n - 1
    <3>1. Fr(d)' = Fr(d) /\ d \in Levels /\ d # Height
      BY <1>3, <2>2
    <3>2. Fr(d).op \in {"schedule", "decide"} => Fr(d).s \in Slots /\ Used(Fr(d).s)
      BY <1>c, <3>1 DEF PressInv, Shape, FrameShape, DecideShape
    <3>3. Fr(d)'.op \in {"schedule", "decide"} => Used(Fr(d).s)'
      BY <1>6, <3>1, <3>2 DEF Used
    <3>4. Fr(d).op = "schedule" => held'[Fr(d).s].pos \in seen
      BY <1>6, <1>c, <3>1, <3>2 DEF PressInv
    <3>5. Fr(d).op = "schedule" => Fr(d + 1)'.op = "decide" /\ Fr(d + 1)'.moment = "KEY_DOWN"
      <4> SUFFICES ASSUME Fr(d).op = "schedule"
                   PROVE  Fr(d + 1)'.op = "decide" /\ Fr(d + 1)'.moment = "KEY_DOWN"
        OBVIOUS
      <4>1. Fr(d + 1).op = "decide" /\ Fr(d + 1).moment = "KEY_DOWN"
        BY <1>c, <3>1 DEF PressInv
      <4>2. d + 1 # n
        BY <4>1
      <4>3. d + 1 \in 1 .. n - 1
        BY <2>2, <4>2
      <4>4. Fr(d + 1)' = Fr(d + 1)
        BY <1>3, <4>3
      <4> QED
        BY <4>1, <4>4
    <3>6. Fr(d).op = "decide" /\ Fr(d).moment = "KEY_DOWN" => captured[1] = NoEvent /\ d + 1 = n
      BY <1>c, <3>1 DEF PressInv
    <3> QED
      BY <1>2, <3>1, <3>3, <3>4, <3>5, <3>6
  <2> QED
    BY <1>3, <2>1, <2>2
<1> QED
  BY <1>8, <1>11, <1>12, <1>13, <1>16, <1>17, <1>19, <1>21, <1>22
     DEF Core, RoomInv, SilentInv, CallInv

LEMMA DecideHoldTapKeeps ==
  ASSUME Core, DecideHoldTap, lost' = {}
  PROVE  Core'
<1>1. PICK n : n = Height
  OBVIOUS
<1>2. PICK s : s = Fr(n).s
  OBVIOUS
<1>3. /\ n \in Levels /\ n \in Nat /\ n >= 1 /\ Fr(n).op = "decide" /\ DecideShape(n)
      /\ s \in Slots /\ Used(s) /\ Collects(0) /\ captured' = captured
      /\ UNCHANGED <<config, now, timer, down, presses, seen, typed>>
      /\ \/ Returned(n) /\ UNCHANGED <<undecided, held>> /\ (Fr(n).moment = "KEY_UP" => s # undecided)
         \/ /\ Becomes(n, Release(1)) /\ s = undecided /\ undecided' = 0
            /\ Fr(n).moment # "KEY_DOWN"
            /\ \E st \in Statuses \ {"UNDECIDED"} :
                  /\ held' = [held EXCEPT ![s].status = st]
                  /\ st = "HOLD_TIMER" => Fr(n).moment = "TIMER_EVENT"
  BY <1>1, <1>2, DecideSplits
<1>4. CASE Returned(n) /\ UNCHANGED <<undecided, held>> /\ (Fr(n).moment = "KEY_UP" => s # undecided)
  BY <1>1, <1>2, <1>3, <1>4, DecideReturns
<1>5. ASSUME Becomes(n, Release(1)), s = undecided, undecided' = 0, Fr(n).moment # "KEY_DOWN",
             NEW st \in Statuses \ {"UNDECIDED"}, held' = [held EXCEPT ![s].status = st],
             st = "HOLD_TIMER" => Fr(n).moment = "TIMER_EVENT"
      PROVE  Core'
  BY <1>1, <1>2, <1>3, <1>5, DecideReplays
<1> QED
  BY <1>3, <1>4, <1>5
-----------------------------------------------------------------------------
(* ReleaseCaptured *)

LEMMA ReleaseSplits ==
  ASSUME Types, ReleaseCaptured, NEW n, n = Height, NEW i, i = Fr(n).s
  PROVE  /\ n \in Levels /\ n \in Nat /\ n >= 1 /\ Fr(n).op = "release" /\ IsRelease(n)
         /\ i \in 1 .. MaxCaptured + 1 /\ i \in Nat
         /\ UNCHANGED <<config, now, undecided, held, timer, lastTapped, down, presses, seen,
                        typed, out, lost>>
         /\ \/ (i \in Cells => captured[i] = NoEvent) /\ Returned(n) /\ captured' = captured
            \/ /\ i \in Cells /\ captured[i] # NoEvent /\ captured' = [captured EXCEPT ![i] = NoEvent]
               /\ Becomes2(n, Raise(captured[i]), Release(i + 1))
<1>1. /\ n \in Levels /\ n \in Nat /\ n >= 1 /\ Fr(n).op = "release" /\ FrameShape(n)
      /\ stack \in Seq(Frames) /\ stack # <<>> /\ Fr(n) = Head(stack)
  BY Top DEF ReleaseCaptured, Levels
<1>2. i \in 1 .. MaxCaptured + 1 /\ i \in Nat /\ MaxCaptured \in Nat /\ IsRelease(n)
  BY <1>1, Constants DEF FrameShape, IsRelease
<1>3. IF i > MaxCaptured \/ (i \in Cells /\ captured[i] = NoEvent)
      THEN Call(<<>>) /\ UNCHANGED captured
      ELSE /\ captured' = [captured EXCEPT ![i] = NoEvent]
           /\ Call(<<Raise(captured[i]), Release(i + 1)>>)
  BY <1>1, Zenon DEF ReleaseCaptured
<1>4. CASE i > MaxCaptured \/ (i \in Cells /\ captured[i] = NoEvent)
  <2>1. i \in Cells => captured[i] = NoEvent
    BY <1>2, <1>4 DEF Cells
  <2>2. Returned(n)
    BY <1>1, <1>3, <1>4, Calls0
  <2> QED
    BY <1>1, <1>2, <1>3, <1>4, <2>1, <2>2 DEF ReleaseCaptured
<1>5. CASE ~(i > MaxCaptured \/ (i \in Cells /\ captured[i] = NoEvent))
  <2>1. i \in Cells /\ captured[i] # NoEvent
    BY <1>2, <1>5 DEF Cells
  <2>2. PICK f, g : f = Raise(captured[i]) /\ g = Release(i + 1)
    OBVIOUS
  <2>3. f \in Frames /\ g \in Frames
    <3>1. captured[i] \in Event /\ i + 1 \in Nat
      BY <1>2, <2>1 DEF Types, TypeOK
    <3>2. PICK e, k : e = captured[i] /\ k = i + 1
      OBVIOUS
    <3>3. Raise(e) \in Frames /\ Release(k) \in Frames
      BY <3>1, <3>2, FramesAre DEF Moments, Release, Frame, Frames, NoEvent, Event
    <3> QED
      BY <2>2, <3>2, <3>3
  <2>4. Call(<<f, g>>) /\ captured' = [captured EXCEPT ![i] = NoEvent]
    BY <1>3, <1>5, <2>2
  <2>5. Becomes2(n, f, g)
    BY <1>1, <2>3, <2>4, Calls2
  <2> QED
    BY <1>1, <1>2, <2>1, <2>2, <2>4, <2>5 DEF ReleaseCaptured
<1> QED
  BY <1>4, <1>5

\* When a replay has ended there is nothing between it and the next one.
LEMMA ReplayIsDone ==
  ASSUME Core, NEW n \in Levels, n = Height, n \in Nat, n >= 1, Fr(n).op = "release",
         IsRelease(n), NEW i \in Nat, i = Fr(n).s, i \in 1 .. MaxCaptured + 1,
         i \in Cells => captured[i] = NoEvent, Returned(n)
  PROVE  /\ \A d : IsRelease(d)' <=> IsRelease(d) /\ d # n
         /\ \A d : IsRelease(d) /\ d # n =>
                /\ d \in 1 .. n - 1 /\ Fr(d)' = Fr(d) /\ Fr(d).s \in Nat /\ i < Fr(d).s
                /\ ~Full(Fr(d).s - 1) /\ Fr(d).s >= 2 /\ Fr(d).s <= MaxCaptured + 1
         /\ \A j \in Cells : i < j /\ Full(j) => \E d \in 1 .. n - 1 : IsRelease(d) /\ i < Fr(d).s /\ Fr(d).s <= j
         /\ \A c \in Cells : Full(c) /\ Low(c)' => Low(c)
<1>c. /\ Types /\ Shape /\ CellsInv /\ Rising /\ Gap /\ Packed /\ LowEmpty /\ ItemsInv /\ SlotsInv
      /\ FinishInv /\ PressInv /\ RoomLeft /\ ListenRoom /\ OneSilent /\ OwnSilent
  BY DEF Core, Types, CellsInv, CallInv, SilentInv, RoomInv
<1>0. Cells \subseteq Nat /\ Cells = 1 .. MaxCaptured /\ MaxCaptured \in Nat
  BY Constants DEF Cells
<1>1. /\ NewCalls(n, {}) /\ Height' = n - 1 /\ stack' \in Seq(Frames)
      /\ \A d \in n .. Height' : FALSE
  BY NewCallsAre DEF Returned
<1>2. Levels' = 1 .. n - 1 /\ Levels = 1 .. n /\ \A d \in 1 .. n - 1 : Fr(d)' = Fr(d) /\ d \in Levels
  BY <1>1 DEF Levels, NewCalls, Kept
<1>6. \A d : IsRelease(d)' <=> IsRelease(d) /\ d # n
  BY <1>2 DEF IsRelease
<1>7. \A d : IsRelease(d) /\ d # n =>
          /\ d \in 1 .. n - 1 /\ Fr(d)' = Fr(d) /\ Fr(d).s \in Nat /\ i < Fr(d).s
          /\ ~Full(Fr(d).s - 1) /\ Fr(d).s >= 2 /\ Fr(d).s <= MaxCaptured + 1
  <2> SUFFICES ASSUME NEW d, IsRelease(d), d # n
               PROVE  /\ d \in 1 .. n - 1 /\ Fr(d)' = Fr(d) /\ Fr(d).s \in Nat /\ i < Fr(d).s
                      /\ ~Full(Fr(d).s - 1) /\ Fr(d).s >= 2 /\ Fr(d).s <= MaxCaptured + 1
    OBVIOUS
  <2>1. d \in Levels /\ Fr(d).s \in Nat /\ Fr(d).s \in 1 .. MaxCaptured + 1
    BY <1>c, ReleaseCells
  <2>2. d \in 1 .. n - 1 /\ d < n
    BY <1>2, <2>1
  <2> QED
    BY <1>0, <1>2, <1>c, <2>1, <2>2 DEF Rising, Gap
<1>8. \A j \in Cells : i < j /\ Full(j) => \E d \in 1 .. n - 1 : IsRelease(d) /\ i < Fr(d).s /\ Fr(d).s <= j
  <2> SUFFICES ASSUME NEW j \in Cells, i < j, Full(j)
               PROVE  \E d \in 1 .. n - 1 : IsRelease(d) /\ i < Fr(d).s /\ Fr(d).s <= j
    OBVIOUS
  <2>1. i \in Cells /\ ~Full(i)
    BY <1>0 DEF Full
  <2>2. PICK d \in Levels : IsRelease(d) /\ i < Fr(d).s /\ Fr(d).s <= j
    BY <1>c, <2>1 DEF Packed
  <2>3. d # n
    BY <2>2
  <2> QED
    BY <1>2, <2>2, <2>3
<1>9. \A c \in Cells : Full(c) /\ Low(c)' => Low(c)
  <2> SUFFICES ASSUME NEW c \in Cells, Full(c), Low(c)', NEW d \in Levels, IsRelease(d)
               PROVE  c < Fr(d).s
    BY DEF Low
  <2>1. \A e \in 1 .. n - 1 : IsRelease(e) => c < Fr(e).s
    BY <1>2, <1>6, <1>7 DEF Low
  <2>2. CASE d # n
    BY <1>7, <2>1, <2>2
  <2>3. CASE d = n
    <3>1. ~(i < c)
      <4> SUFFICES ASSUME i < c
                   PROVE  FALSE
        OBVIOUS
      <4>1. PICK e \in 1 .. n - 1 : IsRelease(e) /\ i < Fr(e).s /\ Fr(e).s <= c
        BY <1>8
      <4>2. c < Fr(e).s /\ Fr(e).s \in Nat
        BY <1>c, <2>1, <4>1, ReleaseCells
      <4> QED
        BY <1>0, <4>1, <4>2
    <3>2. i # c
      BY DEF Full
    <3> QED
      BY <1>0, <2>3, <3>1, <3>2
  <2> QED
    BY <2>2, <2>3
<1> QED
  BY <1>6, <1>7, <1>8, <1>9

\* The loop ends at a free cell: what it leaves is for the replay around it.
LEMMA ReplayEnds ==
  ASSUME Core, lost' = {}, NEW n \in Levels, n = Height, n \in Nat, n >= 1, Fr(n).op = "release",
         IsRelease(n), NEW i \in Nat, i = Fr(n).s, i \in 1 .. MaxCaptured + 1,
         UNCHANGED <<config, now, undecided, held, timer, lastTapped, down, presses, seen,
                     typed, out, lost>>,
         i \in Cells => captured[i] = NoEvent, Returned(n), captured' = captured
  PROVE  Core'
<1>c. /\ Types /\ Shape /\ CellsInv /\ Rising /\ Gap /\ Packed /\ LowEmpty /\ ItemsInv /\ SlotsInv
      /\ FinishInv /\ PressInv /\ RoomLeft /\ ListenRoom /\ OneSilent /\ OwnSilent
  BY DEF Core, Types, CellsInv, CallInv, SilentInv, RoomInv
<1>0. Cells \subseteq Nat /\ Cells = 1 .. MaxCaptured /\ MaxCaptured \in Nat
  BY Constants DEF Cells
<1>1. /\ NewCalls(n, {}) /\ Height' = n - 1 /\ stack' \in Seq(Frames)
      /\ \A d \in n .. Height' : FALSE
  BY NewCallsAre DEF Returned
<1>2. Levels' = 1 .. n - 1 /\ Levels = 1 .. n /\ \A d \in 1 .. n - 1 : Fr(d)' = Fr(d) /\ d \in Levels
  BY <1>1 DEF Levels, NewCalls, Kept
<1>3. Shape'
  BY <1>1, <1>c, ShapeNew
<1>4. Collects(0)
  BY <1>c, UntouchedCollects
<1>5. Types'
  BY <1>1, <1>3, <1>4, <1>c, TypesAfter DEF Collects, Types, TypeOK
<1>6. \A d : IsRelease(d)' <=> IsRelease(d) /\ d # n
  BY <1>c, ReplayIsDone
<1>7. \A d : IsRelease(d) /\ d # n =>
          /\ d \in 1 .. n - 1 /\ Fr(d)' = Fr(d) /\ Fr(d).s \in Nat /\ i < Fr(d).s
          /\ ~Full(Fr(d).s - 1) /\ Fr(d).s >= 2 /\ Fr(d).s <= MaxCaptured + 1
  BY <1>c, ReplayIsDone
<1>8. \A j \in Cells : i < j /\ Full(j) => \E d \in 1 .. n - 1 : IsRelease(d) /\ i < Fr(d).s /\ Fr(d).s <= j
  BY <1>c, ReplayIsDone
<1>9. \A c \in Cells : Full(c) /\ Low(c)' => Low(c)
  BY <1>c, ReplayIsDone
<1>10. CellsInv'
  <2>1. Rising'
    BY <1>2, <1>6, <1>7, <1>c DEF Rising
  <2>2. Gap'
    BY <1>1, <1>2, <1>6, <1>7 DEF Gap, Full
  <2>3. Packed'
    <3> SUFFICES ASSUME NEW a \in Cells, NEW b \in Cells, a < b, ~Full(a), Full(b)
                 PROVE  \E d \in Levels' : IsRelease(d)' /\ a < Fr(d)'.s /\ Fr(d)'.s <= b
      BY DEF Packed, Full
    <3>1. PICK d \in Levels : IsRelease(d) /\ a < Fr(d).s /\ Fr(d).s <= b
      BY <1>c DEF Packed
    <3>2. CASE d # n
      BY <1>2, <1>6, <1>7, <3>1, <3>2
    <3>3. CASE d = n
      <4>1. i # b
        BY DEF Full
      <4>2. i < b
        BY <1>0, <3>1, <3>3, <4>1
      <4>3. PICK e \in 1 .. n - 1 : IsRelease(e) /\ i < Fr(e).s /\ Fr(e).s <= b
        BY <1>8, <4>2
      <4>4. Fr(e).s \in Nat /\ e # n /\ a < i
        BY <1>c, <3>1, <3>3, <4>3, ReleaseCells
      <4>5. a < Fr(e).s
        BY <1>0, <4>3, <4>4
      <4> QED
        BY <1>2, <1>6, <1>7, <4>3, <4>4, <4>5
    <3> QED
      BY <3>2, <3>3
  <2>4. LowEmpty'
    BY <1>9, <1>c DEF LowEmpty, Full
  <2> QED
    BY <2>1, <2>2, <2>3, <2>4 DEF CellsInv
<1>11. Silents' = Silents
  BY DEF Silents, Used, Silent, Cfg
<1>12. RoomLeft'
  <2> SUFFICES ASSUME undecided # 0, NEW d \in Levels', TopRelease(d)'
               PROVE  Free(captured, Fr(d)'.s, Cardinality(Silents) + (IF Carries(d)' THEN 2 ELSE 1))
    BY <1>11 DEF RoomLeft
  <2>1. PICK c, t : c \in Nat /\ c = Cardinality(Silents) /\ t = Fr(d)'.s
    BY SilentsAre
  <2>2. IsRelease(d) /\ d # n /\ Fr(d).s = t /\ t \in Nat /\ i < t /\ t <= MaxCaptured + 1
        /\ captured[t - 1] = NoEvent /\ d \in 1 .. n - 1
    BY <1>6, <1>7, <2>1 DEF TopRelease, Full
  <2>3. Free(captured, i, c + 1)
    <3>1. TopRelease(n) /\ ~Carries(n)
      BY DEF TopRelease, Carries
    <3> QED
      BY <1>c, <2>1, <3>1 DEF RoomLeft
  <2>4. ASSUME NEW j \in i .. t - 1
        PROVE  captured[j] = NoEvent
    <3>1. j \in Cells /\ i \in Cells
      BY <1>0, <2>2
    <3>2. j # i => ~Full(j)
      <4> SUFFICES ASSUME j # i, Full(j)
                   PROVE  FALSE
        OBVIOUS
      <4>1. PICK e \in 1 .. n - 1 : IsRelease(e) /\ i < Fr(e).s /\ Fr(e).s <= j
        BY <1>0, <1>8, <3>1
      <4>2. Fr(e).s \in Nat /\ e # n /\ Fr(e).s < t
        BY <1>7, <2>2, <4>1
      <4>3. ~(e \in d + 1 .. Height')
        BY <1>1, <1>2, <2>2, <4>1 DEF TopRelease, IsRelease
      <4>4. e = d \/ e < d
        BY <1>1, <2>2, <4>3
      <4>5. e \in Levels /\ d \in Levels
        BY <1>2, <2>2
      <4>6. e < d => t < Fr(e).s
        BY <1>c, <2>2, <4>1, <4>5 DEF Rising
      <4> QED
        BY <2>2, <4>2, <4>4, <4>6
    <3> QED
      BY <3>1, <3>2 DEF Full
  <2>5. Free(captured, t, c + 2)
    <3>1. i - (c + 1) >= 1 /\ \A j \in i - (c + 1) .. i - 1 : captured[j] = NoEvent
      BY <2>3 DEF Free
    <3>2. \A j \in t - (c + 2) .. t - 1 : captured[j] = NoEvent
      <4> TAKE j \in t - (c + 2) .. t - 1
      <4>1. j \in i - (c + 1) .. i - 1 \/ j \in i .. t - 1
        BY <2>1, <2>2
      <4> QED
        BY <2>4, <3>1, <4>1
    <3>3. t - (c + 2) >= 1
      BY <2>1, <2>2, <3>1
    <3> QED
      BY <3>2, <3>3 DEF Free
  <2>6. Free(captured, t, c + 1)
    <3>1. c + 1 \in Nat /\ c + 2 \in Nat /\ c + 1 <= c + 2
      BY <2>1
    <3> QED
      BY <2>2, <2>5, <3>1, FreeLess
  <2> QED
    BY <2>1, <2>5, <2>6
<1>13. ListenRoom' /\ InvokeInv' /\ InvokeRoom' /\ OwnSilent'
  BY <1>1, <1>c, ListenRoomStay, InvokeNone, OwnSilentStay
<1>14. OneSilent'
  <2> SUFFICES ASSUME undecided' # 0 \/ \E d \in Levels' : Fr(d)'.op \in {"listen", "invoke"}
               PROVE  \E w \in Slots : \A x \in Silents' : x = w \/ Ends(x)'
    BY DEF OneSilent
  <2>1. undecided # 0 \/ \E d \in Levels : Fr(d).op \in {"listen", "invoke"}
    BY <1>2
  <2>2. PICK w \in Slots : \A x \in Silents : x = w \/ Ends(x)
    BY <1>c, <2>1 DEF OneSilent
  <2>3. Fr(n).op \notin EndOps /\ {} \cap EndOps = {}
    BY DEF EndOps
  <2>4. \A x : Ends(x) => Ends(x)'
    BY <1>1, <1>c, <2>3, EndsStay
  <2> QED
    BY <1>11, <2>2, <2>4
<1>15. Items' = Items /\ ItemsInv'
  <2>1. n \notin EventFrames
    BY DEF EventFrames, EventOps
  <2>2. Items' = Items
    BY <1>1, <1>4, <1>c, <2>1, ItemsStay
  <2> QED
    BY <1>c, <2>2, ItemsInvStay
<1>16. SlotsInv'
  <2>1. \A x : Finishing(x)' <=> Finishing(x)
    BY <1>1, <1>c, FinishBelow
  <2>2. EventCells' = EventCells /\ \A c \in EventCells : c \in Cells /\ Full(c)
    BY <1>c, EventCellIs DEF EventCells
  <2> QED
    BY <1>9, <1>15, <1>c, <2>1, <2>2, SlotsStay
<1>17. FinishInv'
  <2>1. \A d \in Levels : Fr(d).op = "finish" => Fr(d).s # undecided
    <3> SUFFICES ASSUME NEW d \in Levels, Fr(d).op = "finish"
                 PROVE  Fr(d).s # undecided
      OBVIOUS
    <3>1. n \in d + 1 .. Height
      BY <1>1, <1>c, FinishBelow, FrameTypes
    <3>2. ~ToDecide(d)
      BY <3>1 DEF ToDecide
    <3> QED
      BY <1>c, <3>2 DEF FinishInv
  <2> QED
    BY <1>1, <1>15, <1>c, <2>1, FinishStay
<1>18. PressInv'
  <2> SUFFICES ASSUME NEW d \in Levels'
               PROVE  /\ Fr(d)'.op = "schedule" =>
                           d = Height' \/ (Fr(d + 1)'.op = "decide" /\ Fr(d + 1)'.moment = "KEY_DOWN")
                      /\ Fr(d)'.op = "decide" /\ Fr(d)'.moment = "KEY_DOWN" =>
                           captured[1] = NoEvent /\ d = Height'
                      /\ Fr(d)'.op \in {"schedule", "decide"} => Used(Fr(d).s)'
                      /\ Fr(d)'.op = "schedule" => held[Fr(d)'.s].pos \in seen
    BY DEF PressInv
  <2>1. Fr(d)' = Fr(d) /\ d \in Levels /\ d \in 1 .. n - 1
    BY <1>2
  <2>2. Fr(d)'.op \in {"schedule", "decide"} => Used(Fr(d).s)'
    BY <1>c, <2>1 DEF PressInv, Used
  <2>3. d # Height
    BY <2>1
  <2>4. CASE d = n - 1
    <3>1. d + 1 = n /\ d = Height'
      BY <1>1, <2>4
    <3> QED
      BY <1>c, <2>1, <2>2, <2>3, <3>1 DEF PressInv
  <2>5. CASE d # n - 1
    <3>1. d + 1 \in 1 .. n - 1 /\ d + 1 # Height
      BY <2>1, <2>5
    <3>2. Fr(d + 1)' = Fr(d + 1)
      BY <1>2, <3>1
    <3> QED
      BY <1>c, <2>1, <2>2, <2>3, <3>1, <3>2 DEF PressInv
  <2> QED
    BY <2>4, <2>5
<1> QED
  BY <1>5, <1>10, <1>12, <1>13, <1>14, <1>15, <1>16, <1>17, <1>18
     DEF Core, RoomInv, SilentInv, CallInv

\* An event that is raised again moves from its cell to a call: it keeps its place.
Replayed(n, i, ev) ==
  /\ \A d \in 1 .. n - 1 : (d \in EventFrames' <=> d \in EventFrames) /\ Fr(d)' = Fr(d)
                           /\ Place(d)' = Place(d)
  /\ n \notin EventFrames /\ n \notin EventFrames' /\ (n + 1 \in EventFrames' <=> ev.t = "pos")
  /\ Place(n + 1)' = i
  /\ \A c \in Cells : c # i => ((c \in EventCells' <=> c \in EventCells) /\ captured'[c] = captured[c])
  /\ i \notin EventCells' /\ (i \in EventCells <=> ev.t = "pos")

LEMMA ReplayMoves ==
  ASSUME Core, NEW n \in Levels, n = Height, n \in Nat, n >= 1, Fr(n).op = "release",
         IsRelease(n), NEW i \in Nat, i = Fr(n).s,
         UNCHANGED <<config, now, undecided, held, timer, lastTapped, down, presses, seen,
                     typed, out, lost>>,
         i \in Cells, captured[i] # NoEvent, captured' = [captured EXCEPT ![i] = NoEvent],
         NEW ev, ev = captured[i], Becomes2(n, Raise(ev), Release(i + 1))
  PROVE  /\ \A d : IsRelease(d)' <=> IsRelease(d)
         /\ \A d : IsRelease(d) /\ d # n =>
               /\ d \in 1 .. n - 1 /\ Fr(d)' = Fr(d) /\ Fr(d).s \in Nat /\ i + 1 < Fr(d).s
               /\ captured[Fr(d).s - 1] = NoEvent /\ Fr(d).s - 1 \in Cells /\ Fr(d).s >= 2
         /\ \A c \in Cells : Low(c)' => c = i \/ Low(c)
         /\ Replayed(n, i, ev)
         /\ Items' = Items
<1>c. /\ Types /\ Shape /\ CellsInv /\ Rising /\ Gap /\ Packed /\ LowEmpty /\ ItemsInv /\ SlotsInv
      /\ FinishInv /\ PressInv /\ RoomLeft /\ ListenRoom /\ OneSilent /\ OwnSilent
  BY DEF Core, Types, CellsInv, CallInv, SilentInv, RoomInv
<1>0. Cells \subseteq Nat /\ Cells = 1 .. MaxCaptured /\ MaxCaptured \in Nat
  BY Constants DEF Cells
<1>1. EventOK(ev) /\ ev \in Event
  BY <1>c DEF Types, CapturedOK, EventOK
<1>2. /\ Raise(ev).op = "raise" /\ Raise(ev).ev = ev
      /\ Release(i + 1).op = "release" /\ Release(i + 1).s = i + 1
  BY DEF Raise, Release, Frame
<1>3. /\ NewCalls(n, {"raise", "release"}) /\ Height' = n + 1 /\ stack' \in Seq(Frames)
      /\ Fr(n)'.op = "release" /\ Fr(n)'.s = i + 1
      /\ Fr(n + 1)'.op = "raise" /\ Fr(n + 1)'.ev = ev
  BY <1>2, NewCallsAre DEF Becomes2
<1>4. /\ Levels' = 1 .. n + 1 /\ Levels = 1 .. n
      /\ \A d \in 1 .. n - 1 : Fr(d)' = Fr(d) /\ d \in Levels
      /\ \A d \in Levels' : d = n \/ d = n + 1 \/ d \in 1 .. n - 1
      /\ \A d \in n .. Height' : d = n \/ d = n + 1
  <2>1. Height' = n + 1 /\ \A d \in 1 .. n - 1 : Fr(d)' = Fr(d)
    BY <1>3 DEF NewCalls, Kept
  <2>2. Levels' = 1 .. n + 1 /\ Levels = 1 .. n
    BY <2>1 DEF Levels
  <2>3. \A d \in 1 .. n - 1 : d \in Levels
    BY <2>2
  <2>4. \A d \in Levels' : d = n \/ d = n + 1 \/ d \in 1 .. n - 1
    BY <2>2
  <2>5. \A d \in n .. Height' : d = n \/ d = n + 1
    BY <2>1
  <2> QED
    BY <2>1, <2>2, <2>3, <2>4, <2>5
<1>5. captured' \in [Cells -> Event] /\ captured'[i] = NoEvent
      /\ \A c \in Cells : c # i => captured'[c] = captured[c]
  BY <1>c, FramesAre DEF Types, TypeOK
<1>9. \A d : IsRelease(d)' <=> IsRelease(d)
  <2> SUFFICES ASSUME NEW d
               PROVE  IsRelease(d)' <=> IsRelease(d)
    OBVIOUS
  <2>1. CASE d = n
    BY <1>3, <1>4, <2>1 DEF IsRelease
  <2>2. CASE d \in 1 .. n - 1
    BY <1>4, <2>2 DEF IsRelease
  <2>3. CASE d \notin Levels
    BY <1>3, <1>4, <2>3 DEF IsRelease
  <2> QED
    BY <1>4, <2>1, <2>2, <2>3
<1>10. \A d : IsRelease(d) /\ d # n =>
          /\ d \in 1 .. n - 1 /\ Fr(d)' = Fr(d) /\ Fr(d).s \in Nat /\ i + 1 < Fr(d).s
          /\ captured[Fr(d).s - 1] = NoEvent /\ Fr(d).s - 1 \in Cells /\ Fr(d).s >= 2
  <2> SUFFICES ASSUME NEW d, IsRelease(d), d # n
               PROVE  /\ d \in 1 .. n - 1 /\ Fr(d)' = Fr(d) /\ Fr(d).s \in Nat /\ i + 1 < Fr(d).s
                      /\ captured[Fr(d).s - 1] = NoEvent /\ Fr(d).s - 1 \in Cells /\ Fr(d).s >= 2
    OBVIOUS
  <2>1. d \in Levels /\ Fr(d).s \in Nat /\ Fr(d).s \in 1 .. MaxCaptured + 1
    BY <1>c, ReleaseCells
  <2>2. d \in 1 .. n - 1 /\ d < n
    BY <1>4, <2>1
  <2>3. i < Fr(d).s /\ Fr(d).s >= 2 /\ ~Full(Fr(d).s - 1)
    BY <1>c, <2>1, <2>2 DEF Rising, Gap
  <2>4. Fr(d).s - 1 # i
    BY <2>3 DEF Full
  <2>5. Fr(d)' = Fr(d)
    BY <1>4, <2>2
  <2>6. i + 1 < Fr(d).s /\ Fr(d).s - 1 \in Cells
    <3>1. PICK t \in Nat : t = Fr(d).s
      BY <2>1
    <3>2. i < t /\ t >= 2 /\ t - 1 # i /\ t <= MaxCaptured + 1
      BY <1>0, <2>1, <2>3, <2>4, <3>1
    <3>3. i + 1 < t /\ t - 1 \in Cells
      BY <1>0, <3>2
    <3> QED
      BY <3>1, <3>3
  <2>7. captured[Fr(d).s - 1] = NoEvent
    BY <2>3 DEF Full
  <2> QED
    BY <2>1, <2>2, <2>3, <2>5, <2>6, <2>7
<1>11. \A c \in Cells : Low(c)' => c = i \/ Low(c)
  <2> SUFFICES ASSUME NEW c \in Cells, Low(c)', c # i, NEW d \in Levels, IsRelease(d)
               PROVE  c < Fr(d).s
    BY DEF Low
  <2>1. d \in Levels' /\ c < Fr(d)'.s
    BY <1>4, <1>9 DEF Low
  <2>2. CASE d = n
    BY <1>0, <1>3, <2>1, <2>2
  <2>3. CASE d # n
    BY <1>10, <2>1, <2>3
  <2> QED
    BY <2>2, <2>3
<1>17. /\ \A d \in 1 .. n - 1 : (d \in EventFrames' <=> d \in EventFrames) /\ Fr(d)' = Fr(d)
                               /\ Place(d)' = Place(d)
       /\ n \notin EventFrames /\ n \notin EventFrames' /\ (n + 1 \in EventFrames' <=> ev.t = "pos")
       /\ Place(n + 1)' = i
       /\ \A c \in Cells : c # i => ((c \in EventCells' <=> c \in EventCells) /\ captured'[c] = captured[c])
       /\ i \notin EventCells' /\ (i \in EventCells <=> ev.t = "pos")
  <2>1. \A d \in 1 .. n - 1 : d \in EventFrames' <=> d \in EventFrames
    BY <1>4 DEF EventFrames
  <2>2. \A d \in 1 .. n - 1 : Place(d)' = Place(d)
    <3> SUFFICES ASSUME NEW d \in 1 .. n - 1
                 PROVE  Place(d)' = Place(d)
      OBVIOUS
    <3>1. d \in 1 .. n
      OBVIOUS
    <3> QED
      BY <1>3, <1>c, <3>1, PlaceKept
  <2>3. Place(n + 1)' = i
    <3>1. PICK k : k = n + 1
      OBVIOUS
    <3>2. k # 1 /\ k - 1 = n
      BY <3>1
    <3>3. Place(k)' = i
      BY <1>3, <3>2 DEF Place
    <3> QED
      BY <3>1, <3>3
  <2>4. n \notin EventFrames /\ n \notin EventFrames'
    BY <1>3 DEF EventFrames, EventOps
  <2>5. n + 1 \in EventFrames' <=> ev.t = "pos"
    <3>1. n + 1 \in Levels'
      BY <1>4
    <3> QED
      BY <1>3, <3>1 DEF EventFrames, EventOps
  <2>6. /\ \A c \in Cells : c # i => ((c \in EventCells' <=> c \in EventCells) /\ captured'[c] = captured[c])
        /\ i \notin EventCells' /\ (i \in EventCells <=> ev.t = "pos")
    BY <1>5 DEF EventCells, NoEvent
  <2> QED
    BY <1>4, <2>1, <2>2, <2>3, <2>4, <2>5, <2>6
<1>18. EventCells \subseteq Cells /\ EventCells' \subseteq Cells /\ EventFrames \subseteq Levels
       /\ EventFrames' \subseteq Levels'
  BY DEF EventCells, EventFrames
<1>19. Items' = Items
  <2>1. ASSUME NEW x \in Items
        PROVE  x \in Items'
    <3>1. CASE \E c \in EventCells : x = Item(c, captured[c])
      <4>1. PICK c \in EventCells : x = Item(c, captured[c])
        BY <3>1
      <4>2. CASE c = i
        <5>1. n + 1 \in EventFrames' /\ x = Item(i, ev)
          BY <1>17, <4>1, <4>2
        <5>2. x = Item(Place(n + 1)', Fr(n + 1)'.ev)
          BY <1>3, <1>17, <5>1
        <5> QED
          BY <5>1, <5>2 DEF Items
      <4>3. CASE c # i
        <5>1. c \in EventCells' /\ x = Item(c, captured'[c])
          BY <1>17, <1>18, <4>1, <4>3
        <5> QED
          BY <5>1 DEF Items
      <4> QED
        BY <4>2, <4>3
    <3>2. CASE \E d \in EventFrames : x = Item(Place(d), Fr(d).ev)
      <4>1. PICK d \in EventFrames : x = Item(Place(d), Fr(d).ev)
        BY <3>2
      <4>2. d \in 1 .. n - 1
        BY <1>4, <1>17, <1>18, <4>1
      <4>3. d \in EventFrames' /\ x = Item(Place(d)', Fr(d)'.ev)
        BY <1>17, <4>1, <4>2
      <4> QED
        BY <4>3 DEF Items
    <3> QED
      BY <3>1, <3>2 DEF Items
  <2>2. ASSUME NEW x \in Items'
        PROVE  x \in Items
    <3>1. CASE \E c \in EventCells' : x = Item(c, captured'[c])
      <4>1. PICK c \in EventCells' : x = Item(c, captured'[c])
        BY <3>1
      <4>2. c \in EventCells /\ x = Item(c, captured[c])
        BY <1>17, <1>18, <4>1
      <4> QED
        BY <4>2 DEF Items
    <3>2. CASE \E d \in EventFrames' : x = Item(Place(d)', Fr(d)'.ev)
      <4>1. PICK d \in EventFrames' : x = Item(Place(d)', Fr(d)'.ev)
        BY <3>2
      <4>2. CASE d = n + 1
        <5>1. i \in EventCells /\ x = Item(i, captured[i])
          BY <1>3, <1>17, <4>1, <4>2
        <5> QED
          BY <5>1 DEF Items
      <4>3. CASE d # n + 1
        <5>1. d \in 1 .. n - 1
          BY <1>4, <1>17, <1>18, <4>1, <4>3
        <5>2. d \in EventFrames /\ x = Item(Place(d), Fr(d).ev)
          BY <1>17, <4>1, <5>1
        <5> QED
          BY <5>2 DEF Items
      <4> QED
        BY <4>2, <4>3
    <3> QED
      BY <3>1, <3>2 DEF Items
  <2> QED
    BY <2>1, <2>2
<1>20. Replayed(n, i, ev)
  BY <1>17 DEF Replayed
<1> QED
  BY <1>9, <1>10, <1>11, <1>19, <1>20

\* The loop raises the event of the next cell, which is free from then on.
LEMMA ReplayGoesOn ==
  ASSUME Core, lost' = {}, NEW n \in Levels, n = Height, n \in Nat, n >= 1, Fr(n).op = "release",
         IsRelease(n), NEW i \in Nat, i = Fr(n).s,
         UNCHANGED <<config, now, undecided, held, timer, lastTapped, down, presses, seen,
                     typed, out, lost>>,
         i \in Cells, captured[i] # NoEvent, captured' = [captured EXCEPT ![i] = NoEvent],
         NEW ev, ev = captured[i], Becomes2(n, Raise(ev), Release(i + 1))
  PROVE  Core'
<1>c. /\ Types /\ Shape /\ CellsInv /\ Rising /\ Gap /\ Packed /\ LowEmpty /\ ItemsInv /\ SlotsInv
      /\ FinishInv /\ PressInv /\ RoomLeft /\ ListenRoom /\ OneSilent /\ OwnSilent
  BY DEF Core, Types, CellsInv, CallInv, SilentInv, RoomInv
<1>0. Cells \subseteq Nat /\ Cells = 1 .. MaxCaptured /\ MaxCaptured \in Nat
  BY Constants DEF Cells
<1>1. EventOK(ev) /\ ev \in Event
  BY <1>c DEF Types, CapturedOK, EventOK
<1>2. /\ Raise(ev).op = "raise" /\ Raise(ev).ev = ev
      /\ Release(i + 1).op = "release" /\ Release(i + 1).s = i + 1
  BY DEF Raise, Release, Frame
<1>3. /\ NewCalls(n, {"raise", "release"}) /\ Height' = n + 1 /\ stack' \in Seq(Frames)
      /\ Fr(n)'.op = "release" /\ Fr(n)'.s = i + 1
      /\ Fr(n + 1)'.op = "raise" /\ Fr(n + 1)'.ev = ev
  BY <1>2, NewCallsAre DEF Becomes2
<1>4. /\ Levels' = 1 .. n + 1 /\ Levels = 1 .. n
      /\ \A d \in 1 .. n - 1 : Fr(d)' = Fr(d) /\ d \in Levels
      /\ \A d \in Levels' : d = n \/ d = n + 1 \/ d \in 1 .. n - 1
      /\ \A d \in n .. Height' : d = n \/ d = n + 1
  <2>1. Height' = n + 1 /\ \A d \in 1 .. n - 1 : Fr(d)' = Fr(d)
    BY <1>3 DEF NewCalls, Kept
  <2>2. Levels' = 1 .. n + 1 /\ Levels = 1 .. n
    BY <2>1 DEF Levels
  <2>3. \A d \in 1 .. n - 1 : d \in Levels
    BY <2>2
  <2>4. \A d \in Levels' : d = n \/ d = n + 1 \/ d \in 1 .. n - 1
    BY <2>2
  <2>5. \A d \in n .. Height' : d = n \/ d = n + 1
    BY <2>1
  <2> QED
    BY <2>1, <2>2, <2>3, <2>4, <2>5
<1>5. captured' \in [Cells -> Event] /\ captured'[i] = NoEvent
      /\ \A c \in Cells : c # i => captured'[c] = captured[c]
  BY <1>c, FramesAre DEF Types, TypeOK
<1>6. CapturedOK'
  BY <1>5, <1>c DEF Types, CapturedOK
<1>7. Shape'
  <2>1. FrameShape(n)'
    <3>1. i + 1 \in 1 .. MaxCaptured + 1
      BY <1>0
    <3> QED
      BY <1>3, <3>1 DEF FrameShape, EventOps
  <2>2. FrameShape(n + 1)'
    <3>1. PICK k : k = n + 1
      OBVIOUS
    <3>2. /\ k # 1 /\ k - 1 = n /\ n \in Levels' /\ k = Height'
          /\ Fr(k)'.op = "raise" /\ Fr(k)'.ev = ev
      BY <1>3, <1>4, <3>1
    <3>3. OnRelease(k)'
      BY <1>3, <3>2 DEF OnRelease, IsRelease
    <3>4. FrameShape(k)'
      BY <1>1, <3>2, <3>3 DEF FrameShape
    <3> QED
      BY <3>1, <3>4
  <2> QED
    BY <1>3, <1>4, <1>c, <2>1, <2>2, ShapeNew
<1>8. Types'
  BY <1>3, <1>5, <1>6, <1>7, <1>c DEF Types, TypeOK, Frames
<1>9. \A d : IsRelease(d)' <=> IsRelease(d)
  BY <1>c, ReplayMoves
<1>10. \A d : IsRelease(d) /\ d # n =>
          /\ d \in 1 .. n - 1 /\ Fr(d)' = Fr(d) /\ Fr(d).s \in Nat /\ i + 1 < Fr(d).s
          /\ captured[Fr(d).s - 1] = NoEvent /\ Fr(d).s - 1 \in Cells /\ Fr(d).s >= 2
  BY <1>c, ReplayMoves
<1>11. \A c \in Cells : Low(c)' => c = i \/ Low(c)
  BY <1>c, ReplayMoves
<1>12. CellsInv'
  <2>1. Rising'
    <3> SUFFICES ASSUME NEW d, NEW e, IsRelease(d)', IsRelease(e)', d < e
                 PROVE  Fr(e)'.s < Fr(d)'.s
      BY DEF Rising
    <3>1. IsRelease(d) /\ IsRelease(e)
      BY <1>9
    <3>2. d # n
      <4>1. e = n \/ e \in 1 .. n - 1
        BY <1>10, <3>1
      <4> QED
        BY <4>1
    <3>3. CASE e = n
      BY <1>3, <1>10, <3>1, <3>2, <3>3
    <3>4. CASE e # n
      BY <1>10, <1>c, <3>1, <3>2, <3>4 DEF Rising, IsRelease
    <3> QED
      BY <3>3, <3>4
  <2>2. Gap'
    <3> SUFFICES ASSUME NEW d, IsRelease(d)'
                 PROVE  Fr(d)'.s >= 2 /\ captured'[Fr(d)'.s - 1] = NoEvent
      BY DEF Gap, Full
    <3>1. IsRelease(d)
      BY <1>9
    <3>2. CASE d = n
      <4>1. i + 1 >= 2 /\ i + 1 - 1 = i
        BY <1>0
      <4> QED
        BY <1>3, <1>5, <3>2, <4>1
    <3>3. CASE d # n
      BY <1>5, <1>10, <3>1, <3>3
    <3> QED
      BY <3>2, <3>3
  <2>3. Packed'
    <3> SUFFICES ASSUME NEW a \in Cells, NEW b \in Cells, a < b, captured'[a] = NoEvent,
                        captured'[b] # NoEvent
                 PROVE  \E d \in Levels' : IsRelease(d)' /\ a < Fr(d)'.s /\ Fr(d)'.s <= b
      BY DEF Packed, Full
    <3>1. b # i /\ captured[b] # NoEvent
      BY <1>5
    <3>2. IsRelease(n)' /\ n \in Levels'
      BY <1>4, <1>9
    <3>3. CASE a = i
      BY <1>0, <1>3, <3>2, <3>3
    <3>4. CASE a # i
      <4>1. captured[a] = NoEvent
        BY <1>5, <3>4
      <4>2. PICK d \in Levels : IsRelease(d) /\ a < Fr(d).s /\ Fr(d).s <= b
        BY <1>c, <3>1, <4>1 DEF Packed, Full
      <4>3. CASE d = n
        BY <1>0, <1>3, <3>1, <3>2, <4>2, <4>3
      <4>4. CASE d # n
        BY <1>4, <1>9, <1>10, <4>2, <4>4
      <4> QED
        BY <4>3, <4>4
    <3> QED
      BY <3>3, <3>4
  <2>4. LowEmpty'
    BY <1>5, <1>11, <1>c DEF LowEmpty, Full
  <2> QED
    BY <2>1, <2>2, <2>3, <2>4 DEF CellsInv
<1>13. Silents' = Silents
  BY DEF Silents, Used, Silent, Cfg
<1>14. RoomLeft'
  <2> SUFFICES ASSUME undecided # 0, NEW d \in Levels', TopRelease(d)'
               PROVE  Free(captured', Fr(d)'.s, Cardinality(Silents) + (IF Carries(d)' THEN 2 ELSE 1))
    BY <1>13 DEF RoomLeft
  <2>1. IsRelease(n)' /\ IsRelease(d)' /\ d # n + 1
    BY <1>3, <1>9 DEF TopRelease, IsRelease
  <2>2. d = n
    <3>1. d \in 1 .. n - 1 => n \in d + 1 .. Height'
      BY <1>3
    <3> QED
      BY <1>3, <1>4, <2>1, <3>1 DEF TopRelease
  <2>3. PICK c \in Nat : c = Cardinality(Silents)
    BY SilentsAre
  <2>4. Free(captured, i, c + 1)
    <3>1. TopRelease(n) /\ ~Carries(n)
      BY DEF TopRelease, Carries
    <3> QED
      BY <1>c, <2>3, <3>1 DEF RoomLeft
  <2>5. i - (c + 1) >= 1 /\ \A j \in i - (c + 1) .. i - 1 : captured[j] = NoEvent
    BY <2>4 DEF Free
  <2>6. \A j \in i + 1 - (c + 2) .. i + 1 - 1 : captured'[j] = NoEvent
    <3> TAKE j \in i + 1 - (c + 2) .. i + 1 - 1
    <3>1. j = i \/ (j \in i - (c + 1) .. i - 1 /\ j \in Cells /\ j # i)
      BY <1>0, <2>5
    <3> QED
      BY <1>5, <2>5, <3>1
  <2>7. i + 1 - (c + 2) >= 1
    BY <2>5
  <2>8. Free(captured', i + 1, c + 2)
    BY <2>6, <2>7 DEF Free
  <2>9. Carries(d)'
    <3>1. n + 1 \in n + 1 .. Height'
      BY <1>3
    <3> QED
      BY <1>3, <2>2, <3>1 DEF Carries, EventOps
  <2> QED
    BY <1>3, <2>2, <2>3, <2>8, <2>9
<1>15. ListenRoom' /\ InvokeInv' /\ InvokeRoom' /\ OwnSilent'
  <2>1. \A d \in n .. Height' : Fr(d)'.op \in {"raise", "release"}
    BY <1>3, <1>4
  <2>2. "invoke" \notin {"raise", "release"}
    OBVIOUS
  <2> QED
    BY <1>3, <1>c, <2>1, <2>2, ListenRoomStay, InvokeNone, OwnSilentStay
<1>16. OneSilent'
  <2> SUFFICES ASSUME undecided' # 0 \/ \E d \in Levels' : Fr(d)'.op \in {"listen", "invoke"}
               PROVE  \E w \in Slots : \A x \in Silents' : x = w \/ Ends(x)'
    BY DEF OneSilent
  <2>1. undecided # 0 \/ \E d \in Levels : Fr(d).op \in {"listen", "invoke"}
    BY <1>3, <1>4
  <2>2. PICK w \in Slots : \A x \in Silents : x = w \/ Ends(x)
    BY <1>c, <2>1 DEF OneSilent
  <2>3. Fr(n).op \notin EndOps /\ {"raise", "release"} \cap EndOps = {}
    BY DEF EndOps
  <2>4. \A x : Ends(x) => Ends(x)'
    BY <1>3, <1>c, <2>3, EndsStay
  <2> QED
    BY <1>13, <2>2, <2>4
<1>17. /\ \A d \in 1 .. n - 1 : (d \in EventFrames' <=> d \in EventFrames) /\ Fr(d)' = Fr(d)
                               /\ Place(d)' = Place(d)
       /\ n \notin EventFrames /\ n \notin EventFrames' /\ (n + 1 \in EventFrames' <=> ev.t = "pos")
       /\ Place(n + 1)' = i
       /\ \A c \in Cells : c # i => ((c \in EventCells' <=> c \in EventCells) /\ captured'[c] = captured[c])
       /\ i \notin EventCells' /\ (i \in EventCells <=> ev.t = "pos")
  <2>1. Replayed(n, i, ev)
    BY <1>c, ReplayMoves
  <2> QED
    BY <2>1 DEF Replayed
<1>18. EventCells \subseteq Cells /\ EventCells' \subseteq Cells /\ EventFrames \subseteq Levels
       /\ EventFrames' \subseteq Levels'
  BY DEF EventCells, EventFrames
<1>19. Items' = Items
  BY <1>c, ReplayMoves
<1>20. ItemsInv'
  BY <1>19, <1>c, ItemsInvStay
<1>21. SlotsInv'
  <2>1. \A x : Finishing(x)' <=> Finishing(x)
    <3>1. "finish" \notin {"raise", "release"} /\ Fr(n).op # "finish"
      OBVIOUS
    <3> QED
      BY <1>3, <1>c, <3>1, FinishBelow
  <2>2. \A c \in EventCells' : Low(c)' => c \in EventCells /\ Low(c) /\ captured'[c].key = captured[c].key
    BY <1>11, <1>17, <1>18
  <2>3. \A s \in Slots : held[s].cancelled => \A x \in Items' : \E y \in Items : y.key = x.key
    BY <1>19
  <2>4. \A s \in Slots : /\ held'[s].pos = held[s].pos /\ held'[s].cancelled = held[s].cancelled
                         /\ held'[s].status = "UNDECIDED" <=> held[s].status = "UNDECIDED"
    OBVIOUS
  <2> QED
    BY <1>c, <2>1, <2>2, <2>3, <2>4, SlotsStay
<1>22. FinishInv'
  <2>1. "finish" \notin {"raise", "release"} /\ Fr(n).op # "finish"
    OBVIOUS
  <2>2. \A d \in Levels : Fr(d).op = "finish" => Fr(d).s # undecided
    <3> SUFFICES ASSUME NEW d \in Levels, Fr(d).op = "finish"
                 PROVE  Fr(d).s # undecided
      OBVIOUS
    <3>1. n \in d + 1 .. Height
      BY <1>3, <1>c, <2>1, FinishBelow, FrameTypes
    <3>2. ~ToDecide(d)
      BY <3>1 DEF ToDecide
    <3> QED
      BY <1>c, <3>2 DEF FinishInv
  <2> QED
    BY <1>3, <1>19, <1>c, <2>1, <2>2, FinishStay
<1>23. PressInv'
  <2> SUFFICES ASSUME NEW d \in Levels'
               PROVE  /\ Fr(d)'.op = "schedule" =>
                           Fr(d + 1)'.op = "decide" /\ Fr(d + 1)'.moment = "KEY_DOWN"
                      /\ ~(Fr(d)'.op = "decide" /\ Fr(d)'.moment = "KEY_DOWN")
                      /\ Fr(d)'.op \in {"schedule", "decide"} => Used(Fr(d).s)'
                      /\ Fr(d)'.op = "schedule" => held[Fr(d)'.s].pos \in seen
    BY DEF PressInv
  <2>1. CASE d = n \/ d = n + 1
    BY <1>3, <2>1
  <2>2. CASE d \in 1 .. n - 1
    <3>1. Fr(d)' = Fr(d) /\ d \in Levels /\ d # Height
      BY <1>4, <2>2
    <3>2. Fr(d)'.op \in {"schedule", "decide"} => Used(Fr(d).s)'
      BY <1>c, <3>1 DEF PressInv, Used
    <3>3. d + 1 = n \/ (d + 1 \in 1 .. n - 1 /\ Fr(d + 1)' = Fr(d + 1))
      BY <1>4, <2>2
    <3>4. Fr(d).op = "schedule" => d + 1 # n /\ Fr(d + 1).op = "decide" /\ Fr(d + 1).moment = "KEY_DOWN"
      BY <1>c, <3>1 DEF PressInv
    <3>5. ~(Fr(d).op = "decide" /\ Fr(d).moment = "KEY_DOWN")
      <4> SUFFICES ASSUME Fr(d).op = "decide", Fr(d).moment = "KEY_DOWN"
                   PROVE  FALSE
        OBVIOUS
      <4>1. captured[1] = NoEvent /\ d + 1 = n /\ (Fr(n).op = "decide" \/ Fr(n).s = 1)
        BY <1>c, <3>1 DEF PressInv
      <4> QED
        BY <4>1
    <3> QED
      BY <1>c, <3>1, <3>2, <3>3, <3>4, <3>5 DEF PressInv
  <2> QED
    BY <1>4, <2>1, <2>2
<1> QED
  BY <1>8, <1>12, <1>14, <1>15, <1>16, <1>20, <1>21, <1>22, <1>23
     DEF Core, RoomInv, SilentInv, CallInv

LEMMA ReleaseCapturedKeeps ==
  ASSUME Core, ReleaseCaptured, lost' = {}
  PROVE  Core'
<1>1. PICK n : n = Height
  OBVIOUS
<1>2. PICK i : i = Fr(n).s
  OBVIOUS
<1>3. Types
  BY DEF Core
<1>4. /\ n \in Levels /\ n \in Nat /\ n >= 1 /\ Fr(n).op = "release" /\ IsRelease(n)
      /\ i \in 1 .. MaxCaptured + 1 /\ i \in Nat
      /\ UNCHANGED <<config, now, undecided, held, timer, lastTapped, down, presses, seen,
                     typed, out, lost>>
      /\ \/ (i \in Cells => captured[i] = NoEvent) /\ Returned(n) /\ captured' = captured
         \/ /\ i \in Cells /\ captured[i] # NoEvent /\ captured' = [captured EXCEPT ![i] = NoEvent]
            /\ Becomes2(n, Raise(captured[i]), Release(i + 1))
  BY <1>1, <1>2, <1>3, ReleaseSplits
<1>5. CASE (i \in Cells => captured[i] = NoEvent) /\ Returned(n) /\ captured' = captured
  BY <1>1, <1>2, <1>4, <1>5, ReplayEnds
<1>6. CASE /\ i \in Cells /\ captured[i] # NoEvent /\ captured' = [captured EXCEPT ![i] = NoEvent]
           /\ Becomes2(n, Raise(captured[i]), Release(i + 1))
  <2>1. PICK ev : ev = captured[i]
    OBVIOUS
  <2>2. Becomes2(n, Raise(ev), Release(i + 1))
    BY <1>6, <2>1
  <2> QED
    BY <1>1, <1>2, <1>4, <1>6, <2>1, <2>2, ReplayGoesOn
<1> QED
  BY <1>4, <1>5, <1>6
-----------------------------------------------------------------------------
(* What starts a handler *)

LEMMA IdleIs ==
  ASSUME Types, Idle
  PROVE  /\ Height = 0 /\ Levels = {} /\ EventFrames = {} /\ \A d : ~IsRelease(d)
         /\ \A i : Low(i) /\ \A s : ~Finishing(s) /\ ~Ends(s)
<1>1. Height = 0
  BY StackFrames DEF Idle, Types, TypeOK, Frames
<1>2. Levels = {}
  BY <1>1 DEF Levels
<1> QED
  BY <1>1, <1>2 DEF EventFrames, IsRelease, Low, Finishing, Ends

\* With no call in progress, and one at most after: nothing is replayed.
LEMMA Outset ==
  ASSUME Core, Idle, stack' \in Seq(Frames),
         \/ Height' = 0
         \/ Height' = 1 /\ FrameShape(1)' /\ Fr(1)'.op \in {"raise", "decide"},
         captured' = captured, undecided' = undecided, Silents' \subseteq Silents
  PROVE  /\ Shape' /\ CellsInv' /\ RoomInv' /\ SilentInv' /\ FinishInv' /\ InvokeInv'
         /\ (\A d : ~IsRelease(d)') /\ (\A i : Low(i)')
<1>c. Types /\ Packed /\ LowEmpty /\ OneSilent
  BY DEF Core, CellsInv, SilentInv
<1>1. /\ Height = 0 /\ Levels = {} /\ (\A d : ~IsRelease(d)) /\ (\A i : Low(i))
      /\ \A s : ~Finishing(s) /\ ~Ends(s)
  BY <1>c, IdleIs
<1>2. \A d \in Levels' : d = 1 /\ Height' = 1 /\ FrameShape(1)' /\ Fr(1)'.op \in {"raise", "decide"}
  BY DEF Levels
<1>3. \A d \in Levels' : d = 1 /\ Fr(d)'.op \in {"raise", "decide"}
  BY <1>2
<1>4. Shape'
  BY <1>2 DEF Shape
<1>5. (\A d : ~IsRelease(d)') /\ (\A i : Low(i)')
  BY <1>3 DEF IsRelease, Low
<1>6. CellsInv'
  <2>1. Rising' /\ Gap'
    BY <1>5 DEF Rising, Gap
  <2>2. Packed'
    <3> SUFFICES ASSUME NEW i \in Cells, NEW j \in Cells, i < j, ~Full(i), Full(j)
                 PROVE  FALSE
      BY DEF Packed, Full
    <3> QED
      BY <1>1, <1>c DEF Packed
  <2>3. LowEmpty'
    BY <1>1, <1>c DEF LowEmpty, Full
  <2> QED
    BY <2>1, <2>2, <2>3 DEF CellsInv
<1>7. RoomInv'
  BY <1>3, <1>5 DEF RoomInv, RoomLeft, ListenRoom, InvokeRoom, TopRelease
<1>8. SilentInv'
  <2>1. OwnSilent'
    BY <1>3 DEF OwnSilent
  <2>2. OneSilent'
    <3> SUFFICES ASSUME undecided # 0
                 PROVE  \E w \in Slots : \A s \in Silents' : s = w
      BY <1>3 DEF OneSilent
    <3> QED
      BY <1>1, <1>c DEF OneSilent
  <2> QED
    BY <2>1, <2>2 DEF SilentInv
<1>9. FinishInv' /\ InvokeInv'
  BY <1>3 DEF FinishInv, InvokeInv
<1> QED
  BY <1>4, <1>5, <1>6, <1>7, <1>8, <1>9

\* The events that wait for the replay, between handlers
LEMMA IdleItems ==
  ASSUME Types, Idle, NEW x \in Items
  PROVE  x \in Placed(Positions) /\ x.at <= MaxCaptured
<1>1. EventFrames = {}
  BY IdleIs
<1>2. PICK i \in EventCells : x = Item(i, captured[i])
  BY <1>1 DEF Items
<1>3. i \in Cells /\ captured[i].key \in Positions /\ captured[i].state \in BOOLEAN
      /\ i \in 1 .. MaxCaptured + 1
  BY EventCellIs
<1> QED
  BY <1>2, <1>3, Constants DEF Item, Placed, Cells

\* The keyboard scan raises a new event of a key.
LEMMA KeyKeeps ==
  ASSUME Core, Idle, NoHandlerInProgress, NEW p \in Positions, NEW st \in BOOLEAN,
         NEW ev, ev = KeyEvent(p, st), stack' = <<Raise(ev)>>, st <=> p \notin down,
         down' = IF st THEN down \cup {p} ELSE down \ {p},
         typed' = IF st THEN Append(typed, p) ELSE typed, presses' \in 0 .. MaxPresses,
         UNCHANGED <<config, now, undecided, held, timer, captured, lastTapped, seen, out, lost>>
  PROVE  Core'
<1>c. Types /\ ItemsInv /\ SlotsInv /\ TypeOK /\ CapturedOK
  BY DEF Core, Types
<1>1. ev \in Event /\ EventOK(ev) /\ ev.t = "pos" /\ ev.key = p /\ ev.state = st
  <2>1. now \in Nat
    BY <1>c, ConstantsAssumption DEF TypeOK
  <2> QED
    BY <2>1 DEF KeyEvent, Event, EventOK
<1>2. Raise(ev) \in Frames /\ Raise(ev).op = "raise" /\ Raise(ev).ev = ev
  BY <1>1, FramesAre
<1>3. Becomes(1, Raise(ev))
  BY <1>2, Starts
<1>4. stack' \in Seq(Frames) /\ Height' = 1 /\ Fr(1)'.op = "raise" /\ Fr(1)'.ev = ev
  BY <1>2, <1>3 DEF Becomes
<1>5. FrameShape(1)'
  BY <1>1, <1>4 DEF FrameShape, OnRelease
<1>6. Silents' \subseteq Silents
  BY DEF Silents, Used, Silent, Cfg
<1>7. /\ Shape' /\ CellsInv' /\ RoomInv' /\ SilentInv' /\ FinishInv' /\ InvokeInv' /\ \A i : Low(i)'
  BY <1>4, <1>5, <1>6, Outset
<1>8. down' \subseteq Positions /\ typed' \in Seq(Positions) /\ typed \in Seq(Positions)
  <2>1. typed \in Seq(Positions) /\ down \subseteq Positions
    BY <1>c DEF TypeOK
  <2>2. Append(typed, p) \in Seq(Positions)
    BY <2>1
  <2> QED
    BY <2>1, <2>2
<1>9. Types'
  BY <1>4, <1>7, <1>8, <1>c DEF Types, TypeOK, CapturedOK, Frames
<1>10. PICK x : x = Item(MaxCaptured + 1, ev)
  OBVIOUS
<1>11. x.at = MaxCaptured + 1 /\ x.key = p /\ x.state = st /\ x \in Placed(Positions)
  BY <1>1, <1>10, Constants DEF Item, Placed
<1>12. Items \subseteq Placed(Positions) /\ (\A y \in Items : y.at < x.at) /\ x \notin Items
  <2>1. \A y \in Items : y \in Placed(Positions) /\ y.at < x.at /\ y.at # x.at
    <3> TAKE y \in Items
    <3>1. y \in Placed(Positions) /\ y.at <= MaxCaptured
      BY <1>c, IdleItems
    <3>2. y.at \in Nat
      BY <3>1, ItemIs
    <3> QED
      BY <1>11, <3>1, <3>2, Constants
  <2> QED
    BY <2>1
<1>13. Items' = Items \cup {x}
  <2>1. EventFrames = {} /\ EventCells' = EventCells
    BY <1>c, IdleIs DEF EventCells
  <2>2. EventFrames' = {1}
    BY <1>1, <1>4 DEF EventFrames, Levels, EventOps
  <2>3. Place(1)' = MaxCaptured + 1
    BY DEF Place
  <2>4. Item(Place(1)', Fr(1)'.ev) = x
    BY <1>4, <1>10, <2>3
  <2> QED
    BY <2>1, <2>2, <2>4 DEF Items
<1>14. IsFiniteSet(Items)
  BY <1>c, ItemsFinite
<1>15. Handles(x, down, down') /\ (x.state <=> x.key \notin down)
  BY <1>11 DEF Handles
<1>16. PICK L : L = Items
  OBVIOUS
<1>17. OnePerPlace(L \cup {x})
  BY <1>11, <1>12, <1>16, <1>c, OneMore DEF ItemsInv
<1>18. Alternates(Positions, L \cup {x}, seen, down')
  BY <1>11, <1>12, <1>15, <1>16, <1>c, NewAlternates DEF ItemsInv
<1>19. Even(L \cup {x}, seen, down')
  BY <1>11, <1>12, <1>14, <1>15, <1>16, <1>c, NewEven DEF ItemsInv
<1>20. Ordered(L \cup {x}, typed')
  <2>1. Ordered(L, typed)
    BY <1>16, <1>c DEF ItemsInv
  <2>2. CASE st
    <3>1. x.state /\ typed' = Append(typed, x.key)
      BY <1>11, <2>2
    <3> QED
      BY <1>8, <1>11, <1>12, <1>16, <2>1, <3>1, NewPress
  <2>3. CASE ~st
    BY <1>8, <1>11, <2>1, <2>3, NewRelease
  <2> QED
    BY <2>2, <2>3
<1>21. ItemsInv'
  BY <1>13, <1>16, <1>17, <1>18, <1>19, <1>20 DEF ItemsInv
<1>22. SlotsInv'
  <2>1. UndecidedIsUnique' /\ NoStaleTimer' /\ OneSlotPerKey'
    BY <1>c DEF SlotsInv, UndecidedIsUnique, NoStaleTimer, OneSlotPerKey, Used
  <2>2. SlotsReturn'
    BY <1>c, IdleIs DEF SlotsInv, SlotsReturn, Used
  <2>3. CancelledDone'
    BY DEF CancelledDone, NoHandlerInProgress
  <2>4. OthersCaptured'
    <3>1. \A i : Low(i)
      BY <1>c, IdleIs
    <3> QED
      BY <1>c, <3>1 DEF SlotsInv, OthersCaptured, EventCells, Used
  <2> QED
    BY <2>1, <2>2, <2>3, <2>4 DEF SlotsInv
<1>23. PressInv'
  BY <1>4 DEF PressInv, Levels
<1> QED
  BY <1>7, <1>9, <1>21, <1>22, <1>23 DEF Core, CallInv

LEMMA KeyDownKeeps ==
  ASSUME Core, NEW p \in Positions, KeyDown(p)
  PROVE  Core'
<1>1. PICK st \in BOOLEAN : st = TRUE
  OBVIOUS
<1>2. PICK ev : ev = KeyEvent(p, st)
  OBVIOUS
<1>3. presses' \in 0 .. MaxPresses
  BY ConstantsAssumption DEF KeyDown, Core, Types, TypeOK
<1>4. /\ Idle /\ NoHandlerInProgress /\ stack' = <<Raise(ev)>> /\ (st <=> p \notin down)
      /\ down' = (IF st THEN down \cup {p} ELSE down \ {p})
      /\ typed' = (IF st THEN Append(typed, p) ELSE typed)
      /\ UNCHANGED <<config, now, undecided, held, timer, captured, lastTapped, seen, out, lost>>
  BY <1>1, <1>2 DEF KeyDown
<1> QED
  BY <1>2, <1>3, <1>4, KeyKeeps

LEMMA KeyUpKeeps ==
  ASSUME Core, NEW p \in Positions, KeyUp(p)
  PROVE  Core'
<1>1. PICK st \in BOOLEAN : st = FALSE
  OBVIOUS
<1>2. PICK ev : ev = KeyEvent(p, st)
  OBVIOUS
<1>3. presses' \in 0 .. MaxPresses
  BY DEF KeyUp, Core, Types, TypeOK
<1>4. /\ Idle /\ NoHandlerInProgress /\ stack' = <<Raise(ev)>> /\ (st <=> p \notin down)
      /\ down' = (IF st THEN down \cup {p} ELSE down \ {p})
      /\ typed' = (IF st THEN Append(typed, p) ELSE typed)
      /\ UNCHANGED <<config, now, undecided, held, timer, captured, lastTapped, seen, out, lost>>
  BY <1>1, <1>2 DEF KeyUp
<1> QED
  BY <1>2, <1>3, <1>4, KeyKeeps

\* behavior_hold_tap_timer_work_handler: it clears the slot of a cancelled timer, or decides.
LEMMA TimerHandlerKeeps ==
  ASSUME Core, NEW s \in Slots, TimerHandler(s)
  PROVE  Core'
<1>c. Types /\ ItemsInv /\ SlotsInv /\ TypeOK /\ CapturedOK
  BY DEF Core, Types
<1>1. /\ Idle /\ Used(s) /\ timer' = [timer EXCEPT ![s] = FALSE]
      /\ UNCHANGED <<config, now, undecided, captured, lastTapped, down, presses, seen, typed, out, lost>>
  BY DEF TimerHandler, Used
<1>2. /\ timer' \in [Slots -> BOOLEAN] /\ ~timer'[s] /\ \A x \in Slots : x # s => timer'[x] = timer[x]
      /\ held \in [Slots -> [pos : HoldTaps \cup {NoPos}, status : Statuses, ts : Nat,
                             first : Positions \cup {NoPos}, cancelled : BOOLEAN]]
  BY <1>1, <1>c DEF TypeOK
<1>3. EventCells' = EventCells /\ EventFrames = {}
  BY <1>1, <1>c, IdleIs DEF EventCells
<1>4. ASSUME EventFrames' = {}
      PROVE  Items' = Items /\ ItemsInv'
  <2>1. Items' = Items
    BY <1>1, <1>3, <1>4 DEF Items
  <2> QED
    BY <1>1, <1>c, <2>1, ItemsInvStay
<1>5. CASE held[s].cancelled
  <2>1. held' = [held EXCEPT ![s] = FreeSlot] /\ stack' = stack
    BY <1>5 DEF TimerHandler
  <2>2. /\ held' \in [Slots -> [pos : HoldTaps \cup {NoPos}, status : Statuses, ts : Nat,
                                first : Positions \cup {NoPos}, cancelled : BOOLEAN]]
        /\ held'[s] = FreeSlot /\ \A x \in Slots : x # s => held'[x] = held[x]
    BY <1>2, <2>1 DEF FreeSlot, Statuses
  <2>3. /\ held'[s].pos = NoPos /\ held'[s].cancelled = FALSE /\ ~Used(s)'
    BY <2>2 DEF FreeSlot, Used
  <2>4. \A x \in Slots : Used(x)' => x # s /\ Used(x) /\ held'[x] = held[x]
    BY <2>2, <2>3 DEF Used
  <2>5. Silents' \subseteq Silents
    <3> SUFFICES ASSUME NEW x \in Silents'
                 PROVE  x \in Silents
      OBVIOUS
    <3>1. x \in Slots /\ Used(x)' /\ Silent(x, held[x].status)'
      BY DEF Silents
    <3>2. Used(x) /\ held'[x] = held[x]
      BY <2>4, <3>1
    <3> QED
      BY <1>1, <3>1, <3>2 DEF Silents, Silent, Cfg
  <2>6. stack' \in Seq(Frames) /\ Height' = 0 /\ Levels' = {} /\ EventFrames' = {}
    <3>1. stack' = <<>> /\ stack' \in Seq(Frames)
      BY <1>1, <2>1, <1>c DEF Idle, TypeOK, Frames
    <3>2. Height' = 0
      BY <3>1 DEF Height
    <3>3. Levels' = {}
      BY <3>2 DEF Levels
    <3> QED
      BY <3>1, <3>2, <3>3 DEF EventFrames
  <2>7. /\ Shape' /\ CellsInv' /\ RoomInv' /\ SilentInv' /\ FinishInv' /\ InvokeInv' /\ \A i : Low(i)'
    BY <1>1, <2>5, <2>6, Outset
  <2>8. Types'
    BY <1>1, <1>2, <1>c, <2>2, <2>6, <2>7 DEF Types, TypeOK, CapturedOK, Frames
  <2>9. Items' = Items /\ ItemsInv'
    BY <1>4, <2>6
  <2>10. s # undecided
    BY <1>5, <1>c DEF SlotsInv, CancelledDone
  <2>11. SlotsInv'
    <3>1. UndecidedIsUnique'
      <4> SUFFICES ASSUME NEW x \in Slots
                   PROVE  (x = undecided) <=> (held'[x].pos # NoPos /\ held'[x].status = "UNDECIDED")
        BY <1>1 DEF UndecidedIsUnique
      <4>1. CASE x = s
        BY <2>3, <2>10, <4>1
      <4>2. CASE x # s
        BY <1>c, <2>2, <4>2 DEF SlotsInv, UndecidedIsUnique
      <4> QED
        BY <4>1, <4>2
    <3>2. NoStaleTimer'
      BY <1>2, <1>c, <2>2 DEF SlotsInv, NoStaleTimer
    <3>3. OneSlotPerKey'
      <4> SUFFICES ASSUME NEW x \in Slots, NEW y \in Slots, Used(x)', held'[x].pos = held'[y].pos
                   PROVE  x = y
        BY DEF OneSlotPerKey
      <4>1. Used(y)'
        BY DEF Used
      <4> QED
        BY <1>c, <2>4, <4>1 DEF SlotsInv, OneSlotPerKey
    <3>4. SlotsReturn'
      <4> SUFFICES ASSUME NEW x \in Slots, Used(x)'
                   PROVE  held'[x].pos \in seen' \/ held'[x].cancelled
        BY DEF SlotsReturn
      <4>1. held[x].pos \in seen \/ held[x].cancelled
        BY <1>1, <1>c, <2>4, IdleIs DEF SlotsInv, SlotsReturn
      <4> QED
        BY <1>1, <2>4, <4>1
    <3>5. CancelledDone'
      <4> SUFFICES ASSUME NEW x \in Slots, held'[x].cancelled
                   PROVE  /\ held'[x].pos # NoPos /\ timer'[x] /\ x # undecided' /\ held'[x].pos \notin seen'
                          /\ \A y \in Items' : y.key # held'[x].pos
        BY DEF CancelledDone, Used
      <4>1. x # s
        BY <2>3
      <4>2. held'[x] = held[x] /\ timer'[x] = timer[x]
        BY <1>2, <2>2, <4>1
      <4>3. /\ held[x].pos # NoPos /\ timer[x] /\ x # undecided /\ held[x].pos \notin seen
            /\ \A y \in Items : y.key # held[x].pos
        BY <1>c, <4>2 DEF SlotsInv, CancelledDone, Used
      <4> QED
        BY <1>1, <2>9, <4>2, <4>3
    <3>6. OthersCaptured'
      BY <1>1, <1>3, <1>c, <2>4, IdleIs DEF SlotsInv, OthersCaptured
    <3> QED
      BY <3>1, <3>2, <3>3, <3>4, <3>5, <3>6 DEF SlotsInv
  <2>12. PressInv'
    BY <2>6 DEF PressInv
  <2> QED
    BY <2>7, <2>8, <2>9, <2>11, <2>12 DEF Core, CallInv
<1>6. CASE ~held[s].cancelled
  <2>1. PICK ev : ev = [NoEvent EXCEPT !.ts = now]
    OBVIOUS
  <2>2. stack' = <<Decide(s, "TIMER_EVENT", ev)>> /\ held' = held
    BY <1>6, <2>1 DEF TimerHandler
  <2>3. ev \in Event /\ s \in Nat
    <3>1. now \in Nat
      BY <1>c, ConstantsAssumption DEF TypeOK
    <3> QED
      BY <2>1, <3>1, Constants DEF NoEvent, Event
  <2>4. PICK f : f = Decide(s, "TIMER_EVENT", ev)
    OBVIOUS
  <2>5. f \in Frames /\ f.op = "decide" /\ f.s = s /\ f.moment = "TIMER_EVENT"
    BY <2>3, <2>4, FramesAre DEF Moments
  <2>6. Becomes(1, f)
    BY <2>2, <2>4, <2>5, Starts
  <2>7. /\ stack' \in Seq(Frames) /\ Height' = 1 /\ Fr(1)'.op = "decide" /\ Fr(1)'.s = s
        /\ Fr(1)'.moment = "TIMER_EVENT" /\ EventFrames' = {}
    <3>1. stack' \in Seq(Frames) /\ Height' = 1 /\ Fr(1)' = f
      BY <2>6 DEF Becomes
    <3>2. EventFrames' = {}
      BY <2>5, <3>1 DEF EventFrames, Levels, EventOps
    <3> QED
      BY <2>5, <3>1, <3>2
  <2>8. FrameShape(1)'
    <3>1. DecideShape(1)'
      BY <2>7 DEF DecideShape
    <3> QED
      BY <2>7, <3>1 DEF FrameShape, EventOps
  <2>9. Silents' \subseteq Silents
    BY <1>1, <2>2 DEF Silents, Used, Silent, Cfg
  <2>10. /\ Shape' /\ CellsInv' /\ RoomInv' /\ SilentInv' /\ FinishInv' /\ InvokeInv' /\ \A i : Low(i)'
    BY <1>1, <2>7, <2>8, <2>9, Outset
  <2>11. Types'
    BY <1>1, <1>2, <1>c, <2>2, <2>7, <2>10 DEF Types, TypeOK, CapturedOK, Frames
  <2>12. Items' = Items /\ ItemsInv'
    BY <1>4, <2>7
  <2>13. SlotsInv'
    <3>1. UndecidedIsUnique' /\ OneSlotPerKey'
      BY <1>1, <1>c, <2>2 DEF SlotsInv, UndecidedIsUnique, OneSlotPerKey, Used
    <3>2. NoStaleTimer'
      BY <1>2, <1>c, <2>2 DEF SlotsInv, NoStaleTimer
    <3>3. SlotsReturn'
      BY <1>1, <1>c, <2>2, IdleIs DEF SlotsInv, SlotsReturn, Used
    <3>4. CancelledDone'
      BY <1>1, <1>2, <1>6, <1>c, <2>2, <2>12 DEF SlotsInv, CancelledDone, Used
    <3>5. OthersCaptured'
      BY <1>1, <1>3, <1>c, <2>2, IdleIs DEF SlotsInv, OthersCaptured, Used
    <3> QED
      BY <3>1, <3>2, <3>3, <3>4, <3>5 DEF SlotsInv
  <2>14. PressInv'
    <3>1. Used(Fr(1).s)'
      BY <1>1, <2>2, <2>7 DEF Used
    <3> QED
      BY <2>7, <3>1 DEF PressInv, Levels
  <2> QED
    BY <2>10, <2>11, <2>12, <2>13, <2>14 DEF Core, CallInv
<1> QED
  BY <1>5, <1>6

\* Nothing of the invariant is about the clock.
LEMMA TickKeeps ==
  ASSUME Core, now' \in 0 .. MaxTime,
         UNCHANGED <<config, undecided, held, timer, captured, lastTapped, stack, down, presses,
                     seen, typed, out, lost>>
  PROVE  Core'
<1>1. Height' = Height /\ Levels' = Levels /\ \A d : Fr(d)' = Fr(d)
  BY DEF Height, Levels, Fr
<1>2. /\ \A d : (IsRelease(d)' <=> IsRelease(d)) /\ (OnRelease(d)' <=> OnRelease(d))
                /\ Place(d)' = Place(d)
      /\ \A d : TopRelease(d)' <=> TopRelease(d)
      /\ \A d : Carries(d)' <=> Carries(d)
      /\ \A d : TopEnd(d)' <=> TopEnd(d)
      /\ \A d : ToDecide(d)' <=> ToDecide(d)
  BY <1>1 DEF IsRelease, OnRelease, Place, TopRelease, Carries, TopEnd, ToDecide
<1>3. /\ \A s : (Used(s)' <=> Used(s)) /\ (Finishing(s)' <=> Finishing(s))
      /\ \A i : (Full(i)' <=> Full(i)) /\ (Low(i)' <=> Low(i))
      /\ \A d : KeyAt(d)' = KeyAt(d)
  BY <1>1, <1>2 DEF Used, Finishing, Full, Low, KeyAt
<1>4. \A s : Ends(s)' <=> Ends(s)
  BY <1>1, <1>2, <1>3 DEF Ends
<1>5. Silents' = Silents
  BY DEF Silents, Used, Silent, Cfg
<1>6. Items' = Items /\ EventCells' = EventCells
  <2>1. EventFrames' = EventFrames /\ EventCells' = EventCells
    BY <1>1 DEF EventFrames, EventCells
  <2> QED
    BY <1>1, <1>2, <2>1 DEF Items
<1>7. Types'
  <2>1. \A d : FrameShape(d) => FrameShape(d)'
    BY <1>1, <1>2 DEF FrameShape, DecideShape, Returns
  <2> QED
    BY <1>1, <2>1 DEF Core, Types, TypeOK, Shape, CapturedOK
<1>8. CellsInv'
  BY <1>1, <1>2, <1>3 DEF Core, CellsInv, Rising, Gap, Packed, LowEmpty
<1>9. RoomInv'
  BY <1>1, <1>2, <1>5 DEF Core, RoomInv, RoomLeft, ListenRoom, InvokeRoom
<1>10. SilentInv'
  BY <1>1, <1>4, <1>5 DEF Core, SilentInv, OneSilent, OwnSilent
<1>11. ItemsInv'
  BY <1>6, ItemsInvStay DEF Core
<1>12. SlotsInv'
  BY <1>3, <1>6 DEF Core, SlotsInv, UndecidedIsUnique, NoStaleTimer, OneSlotPerKey, SlotsReturn,
                    CancelledDone, OthersCaptured
<1>13. FinishInv'
  BY <1>1, <1>2, <1>3, <1>6 DEF Core, CallInv, FinishInv, Used
<1>14. PressInv'
  BY <1>1, <1>3 DEF Core, CallInv, PressInv, Used
<1>15. InvokeInv'
  BY <1>1, <1>2, <1>6 DEF Core, CallInv, InvokeInv
<1> QED
  BY <1>7, <1>8, <1>9, <1>10, <1>11, <1>12, <1>13, <1>14, <1>15 DEF Core, CallInv
-----------------------------------------------------------------------------
(* The invariant, and what it gives *)

LEMMA CoreInit == Init => Core
<1> SUFFICES ASSUME Init
             PROVE  Core
  OBVIOUS
<1>i. /\ config \in Configs /\ now = 0 /\ undecided = 0 /\ held = [s \in Slots |-> FreeSlot]
      /\ timer = [s \in Slots |-> FALSE] /\ captured = [i \in Cells |-> NoEvent]
      /\ lastTapped = [pos |-> NoPos, ts |-> -100] /\ stack = <<>>
      /\ down = {} /\ presses = 0 /\ seen = {} /\ typed = <<>>
      /\ out = [c \in Codes |-> 0] /\ lost = {}
  BY DEF Init
<1>1. NoEvent \in Event
  BY DEF NoEvent, Event
<1>2. \A s \in Slots : held[s] = FreeSlot /\ held[s].pos = NoPos /\ ~held[s].cancelled
  BY <1>i DEF FreeSlot
<1>3. \A i \in Cells : captured[i] = NoEvent /\ captured[i].t = "none"
  BY <1>i DEF NoEvent
<1>4. TypeOK
  <2>1. held \in [Slots -> [pos : HoldTaps \cup {NoPos}, status : Statuses, ts : Nat,
                            first : Positions \cup {NoPos}, cancelled : BOOLEAN]]
    BY <1>i DEF FreeSlot, Statuses
  <2>2. lastTapped \in [pos : HoldTaps \cup {NoPos}, ts : Int]
    BY <1>i
  <2>3. now \in 0 .. MaxTime /\ undecided \in 0 .. MaxHeld /\ presses \in 0 .. MaxPresses
    BY <1>i, ConstantsAssumption
  <2>4. captured \in [Cells -> Event] /\ timer \in [Slots -> BOOLEAN] /\ out \in [Codes -> Int]
    BY <1>i, <1>1
  <2> QED
    BY <1>i, <2>1, <2>2, <2>3, <2>4 DEF TypeOK
<1>5. Height = 0 /\ Levels = {}
  BY <1>i DEF Height, Levels
<1>6. Types
  BY <1>3, <1>4, <1>5 DEF Types, Shape, CapturedOK
<1>7. Silents = {}
  BY <1>2 DEF Silents, Used
<1>8. Items = {} /\ EventCells = {}
  BY <1>3, <1>5 DEF Items, EventCells, EventFrames
<1>9. CellsInv
  BY <1>3, <1>5 DEF CellsInv, Rising, Gap, Packed, LowEmpty, Full
<1>10. RoomInv
  BY <1>5 DEF RoomInv, RoomLeft, ListenRoom, InvokeRoom
<1>11. SilentInv
  <2>1. 1 \in Slots
    BY Constants DEF Slots
  <2> QED
    BY <1>5, <1>7, <2>1 DEF SilentInv, OneSilent, OwnSilent
<1>12. ItemsInv
  <2>1. OnePerPlace(Items) /\ Alternates(Positions, Items, seen, down)
    BY <1>i, <1>8 DEF OnePerPlace, Alternates
  <2>2. Ordered(Items, typed)
    <3> DEFINE at == [k \in {} |-> 1]
    <3>1. 1 .. Len(typed) = {}
      BY <1>i
    <3>2. at \in [{} -> 1 .. MaxCaptured + 1]
      OBVIOUS
    <3> QED
      BY <1>8, <3>1, <3>2 DEF Ordered
  <2>3. Even(Items, seen, down)
    <3>1. \A p \in Positions : Of(Items, p) = {}
      BY <1>8 DEF Of
    <3>2. Cardinality({}) = 0 /\ 0 % 2 = 0
      BY FS_EmptySet
    <3>3. \A p \in Positions : Cardinality(Of(Items, p)) % 2 = 0
      BY <3>1, <3>2
    <3>4. \A p : p \notin down /\ p \notin seen
      BY <1>i
    <3> QED
      BY <3>3, <3>4 DEF Even
  <2> QED
    BY <2>1, <2>2, <2>3 DEF ItemsInv
<1>13. SlotsInv
  <2>1. UndecidedIsUnique /\ NoStaleTimer
    BY <1>i, <1>2, Constants DEF UndecidedIsUnique, NoStaleTimer
  <2> QED
    BY <1>2, <2>1 DEF SlotsInv, OneSlotPerKey, SlotsReturn, CancelledDone, OthersCaptured, Used
<1>14. CallInv
  BY <1>5 DEF CallInv, FinishInv, PressInv, InvokeInv
<1> QED
  BY <1>6, <1>9, <1>10, <1>11, <1>12, <1>13, <1>14 DEF Core

LEMMA CoreNext ==
  ASSUME SimpleHolds, HoldTapInv, [Next]_vars
  PROVE  HoldTapInv'
<1> SUFFICES ASSUME lost' = {}
             PROVE  Core'
  BY DEF HoldTapInv
<1>1. Core
  BY LostGrows DEF HoldTapInv
<1>2. CASE RaisePosition
  BY <1>1, <1>2, RaiseKeeps
<1>3. CASE ListenPosition
  BY <1>1, <1>3, ListenKeeps
<1>4. CASE RaiseKeycode
  BY <1>1, <1>4, RaiseKeycodeKeeps
<1>5. CASE InvokePlain
  BY <1>1, <1>5, InvokePlainKeeps
<1>6. CASE InvokePressed
  BY <1>1, <1>6, InvokePressedKeeps
<1>7. CASE InvokeReleased
  BY <1>1, <1>7, InvokeReleasedKeeps
<1>8. CASE ScheduleTimer
  BY <1>1, <1>8, ScheduleTimerKeeps
<1>9. CASE FinishRelease
  BY <1>1, <1>9, FinishReleaseKeeps
<1>10. CASE DecideHoldTap
  BY <1>1, <1>10, DecideHoldTapKeeps
<1>11. CASE ReleaseCaptured
  BY <1>1, <1>11, ReleaseCapturedKeeps
<1>12. ASSUME NEW p \in Positions, KeyDown(p)
       PROVE  Core'
  BY <1>1, <1>12, KeyDownKeeps
<1>13. ASSUME NEW p \in Positions, KeyUp(p)
       PROVE  Core'
  BY <1>1, <1>13, KeyUpKeeps
<1>14. ASSUME NEW s \in Slots, TimerHandler(s)
       PROVE  Core'
  BY <1>1, <1>14, TimerHandlerKeeps
<1>15. CASE Tick \/ UNCHANGED vars
  <2>1. now \in 0 .. MaxTime /\ MaxTime \in Nat
    BY <1>1, ConstantsAssumption DEF Core, Types, TypeOK
  <2>2. now' \in 0 .. MaxTime
    BY <1>15, <2>1 DEF Tick, vars
  <2>3. UNCHANGED <<config, undecided, held, timer, captured, lastTapped, stack, down, presses,
                    seen, typed, out, lost>>
    BY <1>15 DEF Tick, vars
  <2> QED
    BY <1>1, <2>2, <2>3, TickKeeps
<1> QED
  BY <1>2, <1>3, <1>4, <1>5, <1>6, <1>7, <1>8, <1>9, <1>10, <1>11, <1>12, <1>13, <1>14, <1>15
  DEF Next, Handler, Environment

LEMMA SlotsFollow == Core => SlotsSound
BY DEF Core, Types, SlotsInv, SlotsSound

LEMMA NoneStranded == Core => NothingStranded
<1> SUFFICES ASSUME Core, Idle
             PROVE  /\ undecided = 0 => \A i \in Cells : captured[i] = NoEvent
                    /\ \A i, j \in Cells : i < j /\ captured[j] # NoEvent => captured[i] # NoEvent
  BY DEF NothingStranded
<1>1. Levels = {} /\ \A i : Low(i)
  BY IdleIs DEF Core
<1> QED
  BY <1>1 DEF Core, CellsInv, Packed, LowEmpty, Full

LEMMA InOrder == Core => DeliveredInOrder
<1> SUFFICES ASSUME Core, Running("invoke")
             PROVE  /\ Head(stack).ev.state <=> Head(stack).ev.key \notin seen
                    /\ Head(stack).ev.state => typed # <<>> /\ Head(typed) = Head(stack).ev.key
  BY DEF DeliveredInOrder
<1>1. PICK n : n = Height
  OBVIOUS
<1>2. n \in Levels /\ Fr(n) = Head(stack) /\ Fr(n).op = "invoke" /\ FrameShape(n)
      /\ Types /\ Gap
  BY <1>1, Top DEF Core, CellsInv
<1>3. n \in EventFrames
  BY <1>2 DEF EventFrames, FrameShape, EventOps
<1>4. /\ FirstOf(Items, Own(n)) /\ Own(n) \in Items /\ Own(n).key = Fr(n).ev.key
      /\ Own(n).state = Fr(n).ev.state
      /\ Fr(n).ev.state => \A x \in Items : Own(n).at <= x.at
  BY <1>1, <1>2, <1>3, InvokeFirst, OwnIs
<1>5. OnePerPlace(Items) /\ Alternates(Positions, Items, seen, down) /\ Ordered(Items, typed)
  BY DEF Core, ItemsInv
<1>6. Fr(n).ev.state <=> Fr(n).ev.key \notin seen
  BY <1>4, <1>5 DEF Alternates
<1>7. ASSUME Fr(n).ev.state
      PROVE  typed # <<>> /\ Head(typed) = Fr(n).ev.key
  <2>1. Items \subseteq Placed(Positions) /\ typed \in Seq(Positions)
    BY <1>2, ItemsTyped DEF Types, TypeOK
  <2> QED
    BY <1>4, <1>5, <1>7, <2>1, HandledPress
<1> QED
  BY <1>2, <1>6, <1>7

LEMMA ImageSize ==
  ASSUME NEW S, IsFiniteSet(S), NEW f, f = [x \in S |-> f[x]],
         \A x, y \in S : f[x] = f[y] => x = y
  PROVE  /\ IsFiniteSet({f[x] : x \in S})
         /\ Cardinality({f[x] : x \in S}) = Cardinality(S)
<1>1. PICK T : T = {f[x] : x \in S}
  OBVIOUS
<1>2. f \in [S -> T] /\ \A t \in T : \E x \in S : f[x] = t
  BY <1>1
<1>3. f \in Surjection(S, T) /\ f \in Injection(S, T)
  BY <1>2 DEF Surjection, Injection, IsInjective
<1>4. IsFiniteSet(T) /\ Cardinality(T) = Cardinality(S)
  BY <1>3, FS_Surjection, Zenon
<1> QED
  BY <1>1, <1>4

\* Events in progress stand at different places, none at a full cell.
LEMMA PlacesDiffer ==
  ASSUME Types, Rising, Gap
  PROVE  /\ \A d, e \in EventFrames : Place(d) = Place(e) => d = e
         /\ \A d \in EventFrames, i \in EventCells : Place(d) # i
<1>1. \A d \in EventFrames : d \in Levels /\ OnRelease(d) /\ d \in Nat /\ d >= 1 /\ d <= Height
  BY EventFrameIs, FrameTypes DEF Levels
<1>2. Height \in Nat /\ MaxCaptured \in Nat
  BY FrameTypes, Constants
<1>3. ASSUME NEW d \in EventFrames
      PROVE  \/ d = 1 /\ Place(d) = MaxCaptured + 1
             \/ /\ d > 1 /\ IsRelease(d - 1) /\ d - 1 < Height /\ Place(d) = Fr(d - 1).s - 1
                /\ Fr(d - 1).s \in 2 .. MaxCaptured + 1 /\ ~Full(Fr(d - 1).s - 1)
  <2>1. CASE d = 1
    BY <2>1 DEF Place
  <2>2. CASE d # 1
    <3>1. IsRelease(d - 1) /\ d - 1 < Height /\ d > 1
      BY <1>1, <1>2, <2>2 DEF OnRelease
    <3>2. Fr(d - 1).s \in 1 .. MaxCaptured + 1
      BY <3>1, ReleaseCells
    <3>3. Fr(d - 1).s >= 2 /\ ~Full(Fr(d - 1).s - 1)
      BY <3>1 DEF Gap, IsRelease
    <3> QED
      BY <1>2, <2>2, <3>1, <3>2, <3>3 DEF Place
  <2> QED
    BY <2>1, <2>2
<1>4. ASSUME NEW d \in EventFrames, NEW e \in EventFrames, d < e
      PROVE  Place(d) # Place(e)
  <2>1. e > 1 /\ Fr(e - 1).s \in 2 .. MaxCaptured + 1 /\ Place(e) = Fr(e - 1).s - 1 /\ IsRelease(e - 1)
    BY <1>1, <1>3, <1>4
  <2>2. CASE d = 1
    BY <1>2, <1>3, <2>1, <2>2
  <2>3. CASE d # 1
    <3>1. IsRelease(d - 1) /\ Place(d) = Fr(d - 1).s - 1 /\ Fr(d - 1).s \in 2 .. MaxCaptured + 1
      BY <1>3, <2>3
    <3>2. d - 1 < e - 1
      BY <1>1, <1>4
    <3>3. Fr(e - 1).s < Fr(d - 1).s
      BY <2>1, <3>1, <3>2 DEF Rising, IsRelease
    <3> QED
      BY <1>2, <2>1, <3>1, <3>3
  <2> QED
    BY <2>2, <2>3
<1>5. \A d, e \in EventFrames : Place(d) = Place(e) => d = e
  BY <1>1, <1>4
<1>6. ASSUME NEW d \in EventFrames, NEW i \in EventCells
      PROVE  Place(d) # i
  <2>1. i \in 1 .. MaxCaptured /\ Full(i)
    BY EventCellIs DEF Cells
  <2> QED
    BY <1>2, <1>3, <2>1
<1> QED
  BY <1>5, <1>6

\* What is counted as in flight are the events under way.
LEMMA FlightIs ==
  ASSUME Types, Rising, Gap, NEW p \in Positions
  PROVE  InFlight(p) = Cardinality(Of(Items, p))
<1> DEFINE A == {i \in Cells : captured[i].t = "pos" /\ captured[i].key = p}
           B == {i \in DOMAIN stack : /\ stack[i].op \in EventOps
                                      /\ stack[i].ev.t = "pos" /\ stack[i].ev.key = p}
           f == [i \in A |-> Item(i, captured[i])]
           g == [i \in B |-> Item(Place(Height + 1 - i), stack[i].ev)]
           FA == {f[i] : i \in A}
           GB == {g[i] : i \in B}
<1>1. Height \in Nat /\ Height = Len(stack) /\ DOMAIN stack = 1 .. Height
      /\ IsFiniteSet(Cells) /\ IsFiniteSet(1 .. Height)
  BY FrameTypes, Constants, FS_Interval DEF Cells, Height
<1>2. IsFiniteSet(A) /\ IsFiniteSet(B)
  BY <1>1, FS_Subset
<1>3. \A i \in A : i \in EventCells
  BY DEF EventCells
<1>4. ASSUME NEW i \in B
      PROVE  /\ i \in 1 .. Height /\ Height + 1 - i \in EventFrames
             /\ Fr(Height + 1 - i) = stack[i] /\ stack[i].ev.key = p
  <2>1. i \in 1 .. Height /\ stack[i].op \in EventOps /\ stack[i].ev.t = "pos"
        /\ stack[i].ev.key = p
    BY <1>1
  <2>2. Height + 1 - (Height + 1 - i) = i /\ Height + 1 - i \in 1 .. Height
    BY <1>1, <2>1
  <2>3. Fr(Height + 1 - i) = stack[i]
    BY <2>2 DEF Fr
  <2> QED
    BY <2>1, <2>2, <2>3 DEF EventFrames, Levels
<1>5. \A d \in EventFrames : Fr(d).ev.key = p => \E i \in B : d = Height + 1 - i
  <2> SUFFICES ASSUME NEW d \in EventFrames, Fr(d).ev.key = p
               PROVE  Height + 1 - d \in B /\ d = Height + 1 - (Height + 1 - d)
    OBVIOUS
  <2>1. d \in 1 .. Height /\ Fr(d).op \in EventOps /\ Fr(d).ev.t = "pos"
    BY DEF EventFrames, Levels
  <2>2. Height + 1 - d \in 1 .. Height /\ d = Height + 1 - (Height + 1 - d)
    BY <1>1, <2>1
  <2>3. Fr(d) = stack[Height + 1 - d]
    BY DEF Fr
  <2> QED
    BY <1>1, <2>1, <2>2, <2>3
<1>6. \A i \in A : f[i] = Item(i, captured[i]) /\ f[i].at = i /\ f[i].key = p
  BY DEF Item
<1>7. \A i \in B : /\ g[i] = Item(Place(Height + 1 - i), Fr(Height + 1 - i).ev)
                   /\ g[i].at = Place(Height + 1 - i) /\ g[i].key = p
  BY <1>4 DEF Item
<1>8. f = [i \in A |-> f[i]] /\ g = [i \in B |-> g[i]]
  OBVIOUS
<1> HIDE DEF f, g
<1>9. \A i, j \in A : f[i] = f[j] => i = j
  BY <1>6
<1>10. ASSUME NEW i \in B, NEW j \in B, g[i] = g[j]
       PROVE  i = j
  <2>1. Place(Height + 1 - i) = Place(Height + 1 - j)
    BY <1>7, <1>10
  <2>2. Height + 1 - i = Height + 1 - j
    BY <1>4, <2>1, PlacesDiffer
  <2> QED
    BY <1>1, <1>4, <2>2
<1>11. IsFiniteSet(FA) /\ Cardinality(FA) = Cardinality(A)
  <2> HIDE DEF A
  <2> QED
    BY <1>2, <1>8, <1>9, ImageSize
<1>12. IsFiniteSet(GB) /\ Cardinality(GB) = Cardinality(B)
  <2> HIDE DEF B
  <2> QED
    BY <1>2, <1>8, <1>10, ImageSize
<1>13. FA \cap GB = {}
  <2> SUFFICES ASSUME NEW i \in A, NEW j \in B, f[i] = g[j]
               PROVE  FALSE
    OBVIOUS
  <2>1. Place(Height + 1 - j) = i
    BY <1>6, <1>7
  <2> QED
    BY <1>3, <1>4, <2>1, PlacesDiffer
<1>14. FA \cup GB = Of(Items, p)
  <2>1. ASSUME NEW x \in FA \cup GB
        PROVE  x \in Of(Items, p)
    <3>1. CASE \E i \in A : x = f[i]
      BY <1>3, <1>6, <3>1 DEF Of, Items
    <3>2. CASE \E i \in B : x = g[i]
      BY <1>4, <1>7, <3>2 DEF Of, Items
    <3> QED
      BY <3>1, <3>2
  <2>2. ASSUME NEW x \in Of(Items, p)
        PROVE  x \in FA \cup GB
    <3>1. x \in Items /\ x.key = p
      BY DEF Of
    <3>2. CASE \E i \in EventCells : x = Item(i, captured[i])
      <4>1. PICK i \in EventCells : x = Item(i, captured[i])
        BY <3>2
      <4>2. i \in A
        BY <3>1, <4>1 DEF Item, EventCells
      <4> QED
        BY <1>6, <4>1, <4>2
    <3>3. CASE \E d \in EventFrames : x = Item(Place(d), Fr(d).ev)
      <4>1. PICK d \in EventFrames : x = Item(Place(d), Fr(d).ev)
        BY <3>3
      <4>2. Fr(d).ev.key = p
        BY <3>1, <4>1 DEF Item
      <4>3. PICK i \in B : d = Height + 1 - i
        BY <1>5, <4>2
      <4> QED
        BY <1>7, <4>1, <4>3
    <3> QED
      BY <3>1, <3>2, <3>3 DEF Items
  <2> QED
    BY <2>1, <2>2
<1>15. Cardinality(FA \cup GB) = Cardinality(FA) + Cardinality(GB)
  <2> HIDE DEF FA, GB
  <2>1. Cardinality(FA \cup GB) = Cardinality(FA) + Cardinality(GB) - Cardinality(FA \cap GB)
    BY <1>11, <1>12, FS_Union
  <2>2. Cardinality(FA \cap GB) = 0 /\ Cardinality(FA) \in Nat /\ Cardinality(GB) \in Nat
    BY <1>11, <1>12, <1>13, FS_EmptySet, FS_CardinalityType
  <2> QED
    BY <2>1, <2>2
<1>16. InFlight(p) = Cardinality(A) + Cardinality(B)
  BY DEF InFlight, EventOps
<1> QED
  BY <1>11, <1>12, <1>14, <1>15, <1>16

LEMMA Conserved == Core => EventsConserved
<1> SUFFICES ASSUME Core, NEW p \in Positions
             PROVE  (p \in down) = (p \in seen) <=> InFlight(p) % 2 = 0
  BY DEF EventsConserved
<1>1. InFlight(p) = Cardinality(Of(Items, p))
  BY FlightIs DEF Core, CellsInv
<1>2. (p \in down <=> p \in seen) <=> Cardinality(Of(Items, p)) % 2 = 0
  BY DEF Core, ItemsInv, Even
<1> QED
  BY <1>1, <1>2

(***************************************************************************)
(* The slots, undecided_hold_tap and the timers agree, however deep the    *)
(* handlers nest: the pointer never dangles, no key waits for a decision   *)
(* that nothing makes, no timer is left for the next user of a slot.  What *)
(* is lost to a full captured_events may be a release, and the slot of its *)
(* key is then never given back: nothing is claimed after that.            *)
(***************************************************************************)
THEOREM HoldTapSlots == SimpleHolds => (Spec => [](lost = {} => SlotsSound))
<1> SUFFICES ASSUME SimpleHolds
             PROVE  Spec => [](lost = {} => SlotsSound)
  OBVIOUS
<1>1. HoldTapInv => (lost = {} => SlotsSound)
  BY SlotsFollow DEF HoldTapInv
<1>2. Init => HoldTapInv
  BY CoreInit DEF HoldTapInv
<1>3. HoldTapInv /\ [Next]_vars => HoldTapInv'
  BY CoreNext
<1> QED
  BY <1>1, <1>2, <1>3, PTL DEF Spec

(***************************************************************************)
(* Capture and replay keep every key event and their order: the keymap     *)
(* handles the presses and releases of a key alternately and all presses   *)
(* as they were typed, what it has not handled yet is in flight, and when  *)
(* nothing is in progress no captured event is out of a replay's reach.    *)
(***************************************************************************)
THEOREM HoldTapEvents == SimpleHolds => (Spec => [](lost = {} => EventsKept))
<1> SUFFICES ASSUME SimpleHolds
             PROVE  Spec => [](lost = {} => EventsKept)
  OBVIOUS
<1>1. HoldTapInv => (lost = {} => EventsKept)
  BY NoneStranded, Conserved, InOrder DEF HoldTapInv, EventsKept
<1>2. Init => HoldTapInv
  BY CoreInit DEF HoldTapInv
<1>3. HoldTapInv /\ [Next]_vars => HoldTapInv'
  BY CoreNext
<1> QED
  BY <1>1, <1>2, <1>3, PTL DEF Spec
=============================================================================
