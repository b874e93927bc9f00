---------------------------- MODULE ReportProofs ----------------------------
(***************************************************************************)
(* Proofs about a report on its way from the keys to the host: about       *)
(* Keymap, about Hid, about Keyboard, which composes them, and about       *)
(* Output, which takes the report on.                                      *)
(*                                                                         *)
(* Keymap: types, that locked layers are active, that a momentary layer is *)
(* held by a key, and that the release of a key goes to the binding its    *)
(* press invoked, for any number of layers, positions and edits.           *)
(*                                                                         *)
(* Hid: types, and the inductive invariant HidInv from which the modifier  *)
(* counts, the slots of the report and the host's view of an idle keyboard *)
(* follow, for any number of sources and slots.                            *)
(*                                                                         *)
(* Keyboard: the composition is a behavior of Keymap and of Hid, so that   *)
(* what is proved about each of them holds of it; the keymap pairs the     *)
(* presses and releases that Hid gets; and with every key up nothing is    *)
(* held for the host.                                                      *)
(*                                                                         *)
(* Output: the keyboard advertises when it should, reports go where the    *)
(* connections say, bonds and profiles agree, and the host in use gets the *)
(* last report.                                                            *)
(***************************************************************************)
EXTENDS Keyboard, Output, FiniteSetTheorems, SequenceTheorems, WellFoundedInduction,
        TLAPS

-----------------------------------------------------------------------------
(* Keymap *)

\* A nonempty set of layers has a highest one.
LEMMA HighestLayer ==
  ASSUME NEW S, S \subseteq Layers, S # {}
  PROVE  \E i \in S : \A j \in S : j <= i
<1> DEFINE T == {n \in Nat : LayerCount - n \in S}
<1>1. S \subseteq Int /\ \A i \in S : i < LayerCount
  BY KeymapAssumption DEF Layers
<1>2. T # {}
  <2>1. PICK i \in S : TRUE
    OBVIOUS
  <2>2. LayerCount - i \in Nat /\ LayerCount - (LayerCount - i) = i
    BY <1>1, <2>1, KeymapAssumption
  <2> QED
    BY <2>1, <2>2
<1>3. PICK n \in T : \A k \in T : ~(<<k, n>> \in OpToRel(<, Nat))
  <2> HIDE DEF T
  <2>1. T \subseteq Nat
    BY DEF T
  <2> QED
    BY <1>2, <2>1, WFMin, NatLessThanWellFounded
<1>4. \A k \in T : ~(k < n)
  BY <1>3 DEF OpToRel
<1>5. \A j \in S : j <= LayerCount - n
  <2> TAKE j \in S
  <2>1. LayerCount - j \in T
    <3>1. LayerCount - j \in Nat /\ LayerCount - (LayerCount - j) = j
      BY <1>1, KeymapAssumption
    <3> QED
      BY <3>1
  <2>2. ~(LayerCount - j < n)
    BY <1>4, <2>1
  <2>3. j \in Int /\ n \in Nat /\ LayerCount \in Nat
    BY <1>1, KeymapAssumption
  <2> QED
    BY <2>2, <2>3
<1> QED
  BY <1>5

\* The layer that takes an event is one of the order, and its binding a binding.
LEMMA ResolveType ==
  ASSUME KeymapTypeOK, NEW p \in Positions, NEW state
  PROVE  Resolve(p, state) \in Bound
<1> DEFINE S == {i \in Layers : Takes(i, p, state)}
           i == CHOOSE i \in Layers : Takes(i, p, state)
                                      /\ \A j \in Layers : j > i => ~Takes(j, p, state)
<1>1. CASE S = {}
  BY <1>1 DEF Resolve, Bound
<1>2. CASE S # {}
  <2>1. PICK k \in S : \A j \in S : j <= k
    <3> HIDE DEF S
    <3>1. S \subseteq Layers
      BY DEF S
    <3> QED
      BY <1>2, <3>1, HighestLayer
  <2>2. k \in Layers /\ Takes(k, p, state) /\ \A j \in Layers : j > k => ~Takes(j, p, state)
    BY <2>1 DEF Layers
  <2>3. i \in Layers /\ Takes(i, p, state)
    BY <2>2
  <2>4. order[i] \in Layers
    BY <2>3 DEF Takes, KeymapTypeOK
  <2>5. Resolve(p, state) = keymap[order[i]][p]
    BY <2>3 DEF Resolve
  <2> QED
    BY <2>4, <2>5 DEF KeymapTypeOK, Bound
<1> QED
  BY <1>1, <1>2
-----------------------------------------------------------------------------
\* What the layer operators do to a layer state: types, and the two invariants
IsState(st) == st = [active |-> st.active, locks |-> st.locks]
               /\ st.active \subseteq Layers /\ st.locks \subseteq Layers

LEMMA LayerToFacts ==
  ASSUME NEW st, IsState(st), NEW l \in Layers, NEW st1, st1 = LayerTo(st, l)
  PROVE  /\ IsState(st1)
         /\ st.locks \subseteq st.active => st1.locks \subseteq st1.active
         /\ st1.active \ st1.locks \subseteq st.active \ st.locks
BY DEF LayerTo, IsState

\* The layers a press or release leaves active and not locked
LEMMA InvokeFacts ==
  ASSUME NEW st, IsState(st), NEW b \in Bound, NEW pressed \in BOOLEAN,
         NEW st1, st1 = Invoke(st, b, pressed)
  PROVE  /\ IsState(st1)
         /\ st.locks \subseteq st.active => st1.locks \subseteq st1.active
         /\ \A l \in st1.active \ (st1.locks \cup {Default}) :
              \/ /\ l \in st.active \ st.locks
                 /\ ~(b # NoBinding /\ b.kind = "mo" /\ b.arg = l /\ ~pressed)
              \/ b # NoBinding /\ b.kind = "mo" /\ b.arg = l /\ pressed
<1>1. b = NoBinding \/ (b \in Bindings /\ b # NoBinding)
  BY KeymapAssumption DEF Bound
<1>2. CASE st1 = st /\ (b = NoBinding \/ b.kind # "mo")
  BY <1>2
<1>3. CASE b # NoBinding /\ b.kind = "mo"
  <2>1. b.arg \in Layers
    BY <1>1, <1>3, KeymapAssumption DEF LayerKinds
  <2>2. st1 = SetLayerState(st, b.arg, pressed, FALSE)
    BY <1>3 DEF Invoke
  <2>3. /\ IsState(st1)
        /\ st.locks \subseteq st.active => st1.locks \subseteq st1.active
        /\ \A k \in st1.active \ (st1.locks \cup {Default}) :
             \/ k \in st.active \ st.locks /\ (k = b.arg => pressed)
             \/ k = b.arg /\ pressed
    BY <2>1, <2>2 DEF SetLayerState, IsState
  <2> QED
    BY <1>3, <2>3, Zenon
<1>4. CASE b # NoBinding /\ pressed /\ b.kind \in LayerKinds \ {"mo"}
  <2>1. b.arg \in Layers
    BY <1>1, <1>4, KeymapAssumption
  <2>2. CASE b.kind = "to"
    <3>1. st1 = LayerTo(st, b.arg)
      BY <1>4, <2>2 DEF Invoke
    <3> QED
      BY <2>1, <2>2, <3>1, LayerToFacts
  <2>3. CASE b.kind # "to"
    <3>1. \E on \in BOOLEAN : st1 = SetLayerState(st, b.arg, on, TRUE)
      BY <1>4, <2>3 DEF Invoke, LayerToggle, LayerKinds
    <3>2. PICK on \in BOOLEAN : st1 = SetLayerState(st, b.arg, on, TRUE)
      BY <3>1
    <3>3. /\ IsState(st1)
          /\ st.locks \subseteq st.active => st1.locks \subseteq st1.active
          /\ \A k \in st1.active \ (st1.locks \cup {Default}) : k \in st.active \ st.locks
      BY <2>1, <3>2 DEF SetLayerState, IsState
    <3> QED
      BY <1>4, <3>3, Zenon
  <2> QED
    BY <2>2, <2>3
<1>5. \/ st1 = st /\ (b = NoBinding \/ b.kind # "mo")
      \/ b # NoBinding /\ b.kind = "mo"
      \/ b # NoBinding /\ pressed /\ b.kind \in LayerKinds \ {"mo"}
  BY DEF Invoke, LayerKinds
<1> QED
  BY <1>2, <1>3, <1>4, <1>5
-----------------------------------------------------------------------------
\* The writes of each edit are writes of layers to indices of the order.
Writes == Seq([at : Layers, id : Layers \cup {Inval}])

LEMMA FunctionIsSeq ==
  ASSUME NEW S, NEW n \in Nat, NEW f \in [1 .. n -> S]
  PROVE  f \in Seq(S)
OBVIOUS

LEMMA MoveWritesType ==
  ASSUME KeymapTypeOK, NEW i \in Layers, NEW j \in Layers, i # j
  PROVE  MoveWrites(i, j) \in Writes
<1> DEFINE n == IF j > i THEN j - i ELSE i - j
           ws == MoveWrites(i, j)
<1>1. n \in Nat /\ n + 1 \in Nat /\ n \in Int
  BY KeymapAssumption DEF Layers
<1>2. ASSUME NEW k \in 1 .. n + 1
      PROVE  ws[k] \in [at : Layers, id : Layers \cup {Inval}]
  <2>1. CASE j > i
    <3>1. k <= n => i + (k - 1) * 1 \in Layers /\ i + k * 1 \in Layers
      BY <2>1, KeymapAssumption DEF Layers
    <3> QED
      BY <2>1, <3>1 DEF MoveWrites, Write, KeymapTypeOK
  <2>2. CASE ~(j > i)
    <3>1. k <= n => i + (k - 1) * (-1) \in Layers /\ i + k * (-1) \in Layers
      BY <2>2, KeymapAssumption DEF Layers
    <3> QED
      BY <2>2, <3>1 DEF MoveWrites, Write, KeymapTypeOK
  <2> QED
    BY <2>1, <2>2
<1>3. ws = [k \in 1 .. n + 1 |-> ws[k]]
  BY DEF MoveWrites
<1>4. ws \in [1 .. n + 1 -> [at : Layers, id : Layers \cup {Inval}]]
  <2> HIDE DEF ws, n
  <2> QED
    BY <1>2, <1>3
<1> HIDE DEF ws, n
<1>5. ws \in Writes
  BY <1>1, <1>4, FunctionIsSeq DEF Writes
<1> QED
  BY <1>5 DEF ws

LEMMA RemoveWritesType ==
  ASSUME KeymapTypeOK, NEW i \in Layers
  PROVE  RemoveWrites(i) \in Writes
<1>1. LayerCount - i \in Nat
  BY KeymapAssumption DEF Layers
<1>2. RemoveWrites(i) \in [1 .. LayerCount - i -> [at : Layers, id : Layers \cup {Inval}]]
  BY KeymapAssumption DEF RemoveWrites, Write, KeymapTypeOK, Layers
<1> QED
  BY <1>1, <1>2, FunctionIsSeq DEF Writes

LEMMA RestoreWritesType ==
  ASSUME KeymapTypeOK, NEW id \in Layers, NEW i \in Layers
  PROVE  RestoreWrites(id, i) \in Writes
<1>1. LayerCount - i \in Nat
  BY KeymapAssumption DEF Layers
<1>2. RestoreWrites(id, i) \in [1 .. LayerCount - i -> [at : Layers, id : Layers \cup {Inval}]]
  BY KeymapAssumption DEF RestoreWrites, Write, KeymapTypeOK, Layers
<1> QED
  BY <1>1, <1>2, FunctionIsSeq DEF Writes

LEMMA EditType ==
  ASSUME KeymapTypeOK, NEW ws \in Writes, EditOrder(ws)
  PROVE  KeymapTypeOK'
BY KeymapAssumption DEF KeymapTypeOK, EditOrder, StartEdit, LeaveKeys, Writes
-----------------------------------------------------------------------------
\* What a key event does to the layers
LEMMA PressedLayers ==
  ASSUME KeymapTypeOK, NEW p \in Positions, PositionPressed(p)
  PROVE  /\ active' \subseteq Layers /\ locks' \subseteq Layers
         /\ locks \subseteq active => locks' \subseteq active'
         /\ \A l \in active' \ (locks' \cup {Default}) :
              \/ l \in active \ locks
              \/ held'[p] # NoBinding /\ held'[p].kind = "mo" /\ held'[p].arg = l
<1> DEFINE st == LayerState
           b == Resolve(p, active)
           st1 == Invoke(st, b, TRUE)
<1>1. b \in Bound /\ held'[p] = b
  BY ResolveType DEF PositionPressed, KeymapTypeOK
<1>2. IsState(st) /\ st.active = active /\ st.locks = locks
  BY DEF LayerState, IsState, KeymapTypeOK
<1>3. active' = st1.active /\ locks' = st1.locks
  BY DEF PositionPressed, SetLayers
<1> HIDE DEF st, b
<1>4. /\ IsState(st1)
      /\ st.locks \subseteq st.active => st1.locks \subseteq st1.active
      /\ \A l \in st1.active \ (st1.locks \cup {Default}) :
           \/ l \in st.active \ st.locks
           \/ b # NoBinding /\ b.kind = "mo" /\ b.arg = l
  BY <1>1, <1>2, InvokeFacts
<1> HIDE DEF st1
<1> QED
  BY <1>1, <1>2, <1>3, <1>4 DEF IsState

LEMMA ReleasedLayers ==
  ASSUME KeymapTypeOK, NEW p \in Positions, PositionReleased(p), NEW b,
         b = Resolve(p, recorded[p])
  PROVE  /\ active' \subseteq Layers /\ locks' \subseteq Layers
         /\ locks \subseteq active => locks' \subseteq active'
         /\ \A l \in active' \ (locks' \cup {Default}) :
              l \in active \ locks /\ ~(b # NoBinding /\ b.kind = "mo" /\ b.arg = l)
<1> DEFINE st == LayerState
           st1 == Invoke(st, b, FALSE)
<1>1. b \in Bound
  BY ResolveType DEF KeymapTypeOK
<1>2. IsState(st) /\ st.active = active /\ st.locks = locks
  BY DEF LayerState, IsState, KeymapTypeOK
<1>3. active' = st1.active /\ locks' = st1.locks
  BY DEF PositionReleased, SetLayers
<1> HIDE DEF st
<1>4. /\ IsState(st1)
      /\ st.locks \subseteq st.active => st1.locks \subseteq st1.active
      /\ \A l \in st1.active \ (st1.locks \cup {Default}) :
           l \in st.active \ st.locks /\ ~(b # NoBinding /\ b.kind = "mo" /\ b.arg = l)
  BY <1>1, <1>2, InvokeFacts
<1> HIDE DEF st1
<1> QED
  BY <1>1, <1>2, <1>3, <1>4 DEF IsState

LEMMA KeymapInitType == KeymapInit => KeymapTypeOK
<1> SUFFICES ASSUME KeymapInit PROVE KeymapTypeOK
  OBVIOUS
<1>1. PICK b \in Builds : /\ order = [i \in Layers |-> IF i < b.used THEN i ELSE Inval]
                          /\ keymap = b.keymap
  BY DEF KeymapInit
<1>2. keymap \in [Layers -> [Positions -> Bindings]]
  BY <1>1, KeymapAssumption
<1>3. order \in [Layers -> Layers \cup {Inval}]
  BY <1>1
<1>4. writes \in Seq([at : Layers, id : Layers \cup {Inval}])
  BY DEF KeymapInit
<1>5. recorded \in [Positions -> SUBSET Layers] /\ held \in [Positions -> Bound]
  BY DEF KeymapInit, Bound
<1>6. edits \in 0 .. MaxEdits
  BY KeymapAssumption DEF KeymapInit
<1>7. /\ active \subseteq Layers /\ locks \subseteq Layers /\ down \subseteq Positions
      /\ edited \subseteq Positions /\ misrouted \in BOOLEAN
  BY DEF KeymapInit
<1> QED
  BY <1>2, <1>3, <1>4, <1>5, <1>6, <1>7 DEF KeymapTypeOK

LEMMA KeymapStepType == KeymapTypeOK /\ [KeymapNext]_keymapVars => KeymapTypeOK'
<1> SUFFICES ASSUME KeymapTypeOK, [KeymapNext]_keymapVars PROVE KeymapTypeOK'
  OBVIOUS
<1>1. ASSUME NEW p \in Positions, PositionPressed(p) PROVE KeymapTypeOK'
  <2>1. Resolve(p, active) \in Bound
    BY ResolveType
  <2>2. active' \subseteq Layers /\ locks' \subseteq Layers
    BY <1>1, PressedLayers
  <2> QED
    BY <1>1, <2>1, <2>2 DEF KeymapTypeOK, PositionPressed
<1>2. ASSUME NEW p \in Positions, PositionReleased(p) PROVE KeymapTypeOK'
  <2>1. active' \subseteq Layers /\ locks' \subseteq Layers
    BY <1>2, ReleasedLayers
  <2> QED
    BY <1>2, <2>1 DEF KeymapTypeOK, PositionReleased, Bound
<1>3. ASSUME NEW i \in Layers, NEW j \in Layers,
             MoveLayer(i, j) \/ RestoreLayer(i, j) \/ AddLayer(i, j)
      PROVE  KeymapTypeOK'
  <2>1. <<Write(j, i)>> \in Writes
    BY DEF Writes, Write
  <2> QED
    BY <1>3, <2>1, MoveWritesType, RestoreWritesType, EditType
    DEF MoveLayer, RestoreLayer, AddLayer
<1>4. ASSUME NEW i \in Layers, RemoveLayer(i) PROVE KeymapTypeOK'
  BY <1>4, RemoveWritesType, EditType DEF RemoveLayer
<1>5. CASE WriteOrder
  <2>1. /\ Head(writes) \in [at : Layers, id : Layers \cup {Inval}]
        /\ Tail(writes) \in Seq([at : Layers, id : Layers \cup {Inval}])
    BY <1>5, HeadTailProperties DEF WriteOrder, KeymapTypeOK
  <2> QED
    BY <1>5, <2>1 DEF WriteOrder, LeaveKeys, KeymapTypeOK
<1>6. ASSUME NEW l \in Layers, NEW p \in Positions, NEW b \in Assignable, SetLayerBinding(l, p, b)
      PROVE  KeymapTypeOK'
  BY <1>6, KeymapAssumption DEF SetLayerBinding, StartEdit, LeaveKeys, KeymapTypeOK
<1>7. CASE UNCHANGED keymapVars
  BY <1>7 DEF keymapVars, KeymapTypeOK
<1> QED
  BY <1>1, <1>2, <1>3, <1>4, <1>5, <1>6, <1>7 DEF KeymapNext, Edit

\* Every variable keeps its type: each write of each edit stores a layer or INVAL at an
\* index of the order, and every event resolves to a binding of the keymap or to none.
THEOREM KeymapTyping == KeymapSpec => []KeymapTypeOK
BY KeymapInitType, KeymapStepType, PTL DEF KeymapSpec
-----------------------------------------------------------------------------
\* The inductive invariant: while no edit has touched the keymap since a key went down,
\* its recorded layers still resolve to the binding that its press invoked.
RecordedBinding == \A p \in down \ edited : Resolve(p, recorded[p]) = held[p]
KeymapInv == KeymapTypeOK /\ LocksActive /\ MomentaryHeld /\ RecordedBinding

LEMMA ResolveUnchanged ==
  ASSUME UNCHANGED <<order, keymap>>, NEW p, NEW state
  PROVE  Resolve(p, state)' = Resolve(p, state)
BY DEF Resolve, Takes

LEMMA PressedKeymapInv ==
  ASSUME KeymapInv, NEW p \in Positions, PositionPressed(p)
  PROVE  KeymapInv'
<1>1. KeymapTypeOK /\ KeymapTypeOK'
  BY KeymapStepType DEF KeymapInv, KeymapNext
<1>2. LocksActive'
  BY <1>1, PressedLayers DEF KeymapInv, LocksActive
<1>3. /\ p \notin down /\ down' = down \cup {p} /\ edited' = edited \ {p}
      /\ recorded' = [recorded EXCEPT ![p] = active]
      /\ held' = [held EXCEPT ![p] = Resolve(p, active)]
      /\ misrouted' = misrouted /\ UNCHANGED <<order, keymap>>
  BY DEF PositionPressed
<1>4. MomentaryHeld'
  <2> SUFFICES ASSUME ~misrouted, NEW l \in active' \ (locks' \cup {Default})
               PROVE  \E q \in down' : /\ held'[q] # NoBinding /\ held'[q].kind = "mo"
                                       /\ held'[q].arg = l
    BY <1>3 DEF MomentaryHeld
  <2>1. CASE l \in active \ locks
    <3>1. PICK q \in down : held[q] # NoBinding /\ held[q].kind = "mo" /\ held[q].arg = l
      BY <2>1 DEF KeymapInv, MomentaryHeld
    <3>2. q \in down' /\ held'[q] = held[q]
      BY <1>1, <1>3, <3>1 DEF KeymapTypeOK
    <3> QED
      BY <3>1, <3>2
  <2>2. CASE held'[p] # NoBinding /\ held'[p].kind = "mo" /\ held'[p].arg = l
    BY <1>3, <2>2
  <2> QED
    BY <1>1, <2>1, <2>2, PressedLayers
<1>5. RecordedBinding'
  <2> SUFFICES ASSUME NEW q \in down' \ edited'
               PROVE  Resolve(q, recorded[q])' = held'[q]
    BY DEF RecordedBinding
  <2>1. recorded'[q] = (IF q = p THEN active ELSE recorded[q])
        /\ held'[q] = (IF q = p THEN Resolve(p, active) ELSE held[q])
    BY <1>1, <1>3 DEF KeymapTypeOK
  <2>2. Resolve(q, recorded[q])' = Resolve(q, recorded'[q])
    BY <1>3, ResolveUnchanged
  <2>3. q # p => Resolve(q, recorded[q]) = held[q]
    BY <1>3 DEF KeymapInv, RecordedBinding
  <2> QED
    BY <2>1, <2>2, <2>3
<1> QED
  BY <1>1, <1>2, <1>4, <1>5 DEF KeymapInv

LEMMA ReleasedKeymapInv ==
  ASSUME KeymapInv, NEW p \in Positions, PositionReleased(p)
  PROVE  KeymapInv'
<1> DEFINE b == Resolve(p, recorded[p])
<1>1. KeymapTypeOK /\ KeymapTypeOK'
  BY KeymapStepType DEF KeymapInv, KeymapNext
<1>2. LocksActive'
  BY <1>1, ReleasedLayers DEF KeymapInv, LocksActive
<1>3. /\ p \in down /\ down' = down \ {p} /\ held' = [held EXCEPT ![p] = NoBinding]
      /\ misrouted' = (misrouted \/ held[p] # b)
      /\ UNCHANGED <<order, keymap, recorded, edited>>
  BY DEF PositionReleased
<1>4. MomentaryHeld'
  <2> SUFFICES ASSUME ~misrouted', NEW l \in active' \ (locks' \cup {Default})
               PROVE  \E q \in down' : /\ held'[q] # NoBinding /\ held'[q].kind = "mo"
                                       /\ held'[q].arg = l
    BY DEF MomentaryHeld
  <2>1. ~misrouted /\ held[p] = b
    BY <1>1, <1>3 DEF KeymapTypeOK
  <2>2. l \in active \ locks /\ ~(b # NoBinding /\ b.kind = "mo" /\ b.arg = l)
    BY <1>1, ReleasedLayers
  <2>3. PICK q \in down : held[q] # NoBinding /\ held[q].kind = "mo" /\ held[q].arg = l
    BY <2>1, <2>2 DEF KeymapInv, MomentaryHeld
  <2>4. q \in down' /\ held'[q] = held[q]
    BY <1>1, <1>3, <2>1, <2>2, <2>3 DEF KeymapTypeOK
  <2> QED
    BY <2>3, <2>4
<1>5. RecordedBinding'
  <2> SUFFICES ASSUME NEW q \in down' \ edited'
               PROVE  Resolve(q, recorded[q])' = held'[q]
    BY DEF RecordedBinding
  <2>1. q # p /\ q \in down \ edited /\ held'[q] = held[q]
    BY <1>1, <1>3 DEF KeymapTypeOK
  <2>2. Resolve(q, recorded[q])' = Resolve(q, recorded[q])
    BY <1>3, ResolveUnchanged
  <2> QED
    BY <2>1, <2>2 DEF KeymapInv, RecordedBinding
<1> QED
  BY <1>1, <1>2, <1>4, <1>5 DEF KeymapInv

\* An edit leaves the layers and the keys alone.
LEMMA EditKeymapInv == KeymapInv /\ Edit => KeymapInv'
<1> SUFFICES ASSUME KeymapInv, Edit PROVE KeymapInv'
  OBVIOUS
<1>1. KeymapTypeOK'
  BY KeymapStepType DEF KeymapInv, KeymapNext
<1>2. /\ LeaveKeys
      /\ UNCHANGED <<order, keymap, edited>> \/ edited' = down
  BY DEF Edit, MoveLayer, RestoreLayer, AddLayer, RemoveLayer, EditOrder, WriteOrder,
         SetLayerBinding
<1>3. LocksActive' /\ MomentaryHeld'
  BY <1>2 DEF KeymapInv, LocksActive, MomentaryHeld, LeaveKeys
<1>4. RecordedBinding'
  <2>1. CASE UNCHANGED <<order, keymap, edited>>
    <3>1. UNCHANGED <<recorded, down, held>>
      BY <1>2 DEF LeaveKeys
    <3>2. \A p \in down \ edited : Resolve(p, recorded[p])' = Resolve(p, recorded[p])
      BY <2>1, <3>1, ResolveUnchanged
    <3> QED
      BY <2>1, <3>1, <3>2 DEF KeymapInv, RecordedBinding
  <2>2. CASE edited' = down
    BY <1>2, <2>2 DEF RecordedBinding, LeaveKeys
  <2> QED
    BY <1>2, <2>1, <2>2
<1> QED
  BY <1>1, <1>3, <1>4 DEF KeymapInv

\* KeymapInv holds in every state, whatever Studio edits between the key events.
THEOREM KeymapInvariant == KeymapSpec => []KeymapInv
<1>1. KeymapInit => KeymapInv
  BY KeymapInitType DEF KeymapInit, KeymapInv, LocksActive, MomentaryHeld, RecordedBinding
<1>2. KeymapInv /\ [KeymapNext]_keymapVars => KeymapInv'
  <2> SUFFICES ASSUME KeymapInv, [KeymapNext]_keymapVars PROVE KeymapInv'
    OBVIOUS
  <2>1. CASE UNCHANGED keymapVars
    <3>1. KeymapTypeOK'
      BY <2>1, KeymapStepType DEF KeymapInv
    <3>2. \A p \in down \ edited : Resolve(p, recorded[p])' = Resolve(p, recorded[p])
      BY <2>1, ResolveUnchanged DEF keymapVars
    <3> QED
      BY <2>1, <3>1, <3>2 DEF keymapVars, KeymapInv, LocksActive, MomentaryHeld, RecordedBinding
  <2> QED
    BY <2>1, PressedKeymapInv, ReleasedKeymapInv, EditKeymapInv DEF KeymapNext
<1> QED
  BY <1>1, <1>2, PTL DEF KeymapSpec

\* set_layer_state: a lock is only taken with the layer, and the layer stays on with it.
THEOREM KeymapLocks == KeymapSpec => []LocksActive
<1>1. KeymapInv => LocksActive
  BY DEF KeymapInv
<1> QED
  BY <1>1, KeymapInvariant, PTL

\* behavior_momentary_layer: no layer stays on once its keys are up.
THEOREM KeymapMomentary == KeymapSpec => []MomentaryHeld
<1>1. KeymapInv => MomentaryHeld
  BY DEF KeymapInv
<1> QED
  BY <1>1, KeymapInvariant, PTL

\* zmk_keymap_position_state_changed: the layers recorded at the press lead the release
\* to the same binding, for every keymap and every sequence of layer changes.
THEOREM KeymapReleases == KeymapSpec => ReleaseFollowsPress
<1> DEFINE Follows == \A p \in down \ edited : p \notin down' => misrouted' = misrouted
<1>1. KeymapInv /\ [KeymapNext]_keymapVars => [Follows]_keymapVars
  <2> SUFFICES ASSUME KeymapInv, KeymapNext, NEW p \in down \ edited, p \notin down'
               PROVE  misrouted' = misrouted
    BY DEF KeymapNext
  <2>1. CASE Edit
    BY <2>1 DEF Edit, MoveLayer, RestoreLayer, AddLayer, RemoveLayer, EditOrder, WriteOrder,
                SetLayerBinding, LeaveKeys
  <2>2. ASSUME NEW q \in Positions, PositionPressed(q) PROVE FALSE
    BY <2>2 DEF PositionPressed
  <2>3. ASSUME NEW q \in Positions, PositionReleased(q) PROVE misrouted' = misrouted
    <3>1. q = p /\ misrouted' = (misrouted \/ held[q] # Resolve(q, recorded[q]))
      BY <2>3 DEF PositionReleased
    <3>2. held[q] = Resolve(q, recorded[q]) /\ misrouted \in BOOLEAN
      BY <3>1 DEF KeymapInv, RecordedBinding, KeymapTypeOK
    <3> QED
      BY <3>1, <3>2
  <2> QED
    BY <2>1, <2>2, <2>3 DEF KeymapNext
<1> QED
  BY <1>1, KeymapInvariant, PTL DEF KeymapSpec, ReleaseFollowsPress

-----------------------------------------------------------------------------
(* Hid *)

\* The reports that a handler assembles are reports.
LEMMA SlotsType ==
  ASSUME NEW r \in Report, NEW u \in Usages
  PROVE  PressSlots(r, u) \in Report /\ ReleaseSlots(r, u) \in Report
BY HidAssumption DEF PressSlots, ReleaseSlots, Select, Deselect, Report, Usage

LEMMA SendType ==
  ASSUME NEW h \in Report, NEW r \in Report, NEW u
  PROVE  Send(h, r, u) \in Report /\ SendMods(h, r) \in Report
BY DEF Send, SendMods, Report

LEMMA ExtraType ==
  ASSUME NEW h, NEW h1 \in Report, NEW h2 \in Report
  PROVE  Extra(h, h1) \o Extra(h1, h2) \in Seq(Report)
<1>1. Extra(h, h1) \in Seq(Report) /\ Extra(h1, h2) \in Seq(Report)
  BY DEF Extra
<1> QED
  BY <1>1, ConcatProperties

LEMMA EmptyType == EmptyReport \in Report
BY DEF EmptyReport, Report

\* What zmk_hid_unregister_mod leaves is a count.
LEMMA UnregisterType ==
  ASSUME NEW c \in [Mods -> Nat], NEW n \in [Mods -> {0, 1}]
  PROVE  Unregister(c, n) \in [Mods -> Nat]
BY DEF Unregister

LEMMA ByType ==
  ASSUME NEW u
  PROVE  /\ [m \in Mods |-> ByCode(u, m)] \in [Mods -> {0, 1}]
         /\ [m \in Mods |-> ByFlags(u, m)] \in [Mods -> {0, 1}]
BY DEF ByCode, ByFlags

LEMMA PressedType ==
  ASSUME HidTypeOK, NEW s \in Sources, NEW u \in Usages, KeycodePressed(s, u)
  PROVE  HidTypeOK'
<1> DEFINE again == PressedAgain(u)
           before == IF again THEN ReleaseSlots(report, u) ELSE report
           after == [PressSlots(before, u) EXCEPT !.mods = explicit' \cup implicit']
           h1 == IF again THEN Send(host, before, u) ELSE host
           h2 == IF u.code \in ConsumerKeys /\ after.mods # report.mods
                 THEN SendMods(h1, after) ELSE h1
<1>1. /\ modCounts' = [m \in Mods |-> modCounts[m] + ByCode(u, m) + ByFlags(u, m)]
      /\ explicit' = explicit \cup {m \in Mods : ByCode(u, m) + ByFlags(u, m) > 0}
      /\ implicit' = u.implicit
      /\ report' = after
      /\ host' = Send(h2, after, u)
      /\ sent' = Extra(host, h1) \o Extra(h1, h2)
      /\ holding' = [holding EXCEPT ![s] = u]
      /\ unpaired' = (unpaired \/ holding[s] # NoKey)
  BY DEF KeycodePressed
<1>2. explicit' \subseteq Mods /\ implicit' \subseteq Mods
  BY <1>1, HidAssumption DEF HidTypeOK, Usage
<1>3. before \in Report
  BY SlotsType DEF HidTypeOK
<1>4. after \in Report
  <2>1. PressSlots(before, u) \in Report
    BY <1>3, SlotsType
  <2> QED
    BY <2>1, <1>2 DEF Report
<1>5. h1 \in Report /\ h2 \in Report /\ Send(h2, after, u) \in Report
  BY <1>3, <1>4, SendType DEF HidTypeOK
<1>6. modCounts' \in [Mods -> Nat]
  BY <1>1 DEF HidTypeOK, ByCode, ByFlags
<1>7. sent' \in Seq(Report)
  BY <1>1, <1>5, ExtraType
<1> QED
  BY <1>1, <1>2, <1>4, <1>5, <1>6, <1>7 DEF HidTypeOK

LEMMA ReleasedType ==
  ASSUME HidTypeOK, NEW s \in Sources, NEW u \in Usages, KeycodeReleased(s, u)
  PROVE  HidTypeOK'
<1> DEFINE byCode == Unregister(modCounts, [m \in Mods |-> ByCode(u, m)])
           released == [ReleaseSlots(report, u) EXCEPT !.mods =
                          IF u.code \in Mods
                          THEN (explicit \ {m \in Mods : m = u.code /\ byCode[m] = 0})
                                 \cup implicit
                          ELSE @]
           after == [released EXCEPT !.mods = explicit']
           h1 == IF SeparateModRelease THEN Send(host, released, u) ELSE host
           h2 == IF u.code \in ConsumerKeys /\ after.mods # report.mods
                 THEN SendMods(h1, after) ELSE h1
<1>1. /\ holding' = [holding EXCEPT ![s] = NoKey]
      /\ unpaired' = (unpaired \/ holding[s] # u)
  BY DEF KeycodeReleased
<1>2. CASE u.code \in Mods /\ modCounts[u.code] <= 0
  <2>1. UNCHANGED <<modCounts, explicit, implicit, report, host>> /\ sent' = <<>>
    BY <1>2 DEF KeycodeReleased
  <2> QED
    BY <1>1, <2>1 DEF HidTypeOK
<1>3. CASE ~(u.code \in Mods /\ modCounts[u.code] <= 0)
  <2>1. /\ modCounts' = Unregister(byCode, [m \in Mods |-> ByFlags(u, m)])
        /\ explicit' = explicit \ {m \in Mods : modCounts'[m] # modCounts[m]
                                                /\ modCounts'[m] = 0}
        /\ implicit' = {}
        /\ report' = after
        /\ host' = Send(h2, after, u)
        /\ sent' = Extra(host, h1) \o Extra(h1, h2)
    BY <1>3 DEF KeycodeReleased
  <2>2. modCounts' \in [Mods -> Nat]
    BY <2>1, UnregisterType, ByType DEF HidTypeOK
  <2>3. explicit' \subseteq Mods
    BY <2>1 DEF HidTypeOK
  <2>4. released \in Report
    <3>1. ReleaseSlots(report, u) \in Report
      BY SlotsType DEF HidTypeOK
    <3> QED
      BY <3>1 DEF Report, HidTypeOK
  <2>5. after \in Report
    BY <2>3, <2>4 DEF Report
  <2>6. h1 \in Report /\ h2 \in Report /\ Send(h2, after, u) \in Report
    BY <2>4, <2>5, SendType DEF HidTypeOK
  <2>7. sent' \in Seq(Report)
    BY <2>1, <2>6, ExtraType
  <2> QED
    BY <1>1, <2>1, <2>2, <2>3, <2>5, <2>6, <2>7 DEF HidTypeOK
<1> QED
  BY <1>2, <1>3

\* Every variable keeps its type: the counts never go below zero, and no slot ever
\* holds anything but a key of its page.
THEOREM HidTyping == HidSpec => []HidTypeOK
<1>1. HidInit => HidTypeOK
  <2> SUFFICES ASSUME HidInit PROVE HidTypeOK
    OBVIOUS
  <2>1. sent \in Seq(Report)
    BY DEF HidInit
  <2>2. modCounts \in [Mods -> Nat] /\ holding \in [Sources -> Usages \cup {NoKey}]
    BY DEF HidInit
  <2> QED
    BY <2>1, <2>2, EmptyType DEF HidInit, HidTypeOK
<1>2. HidTypeOK /\ [HidNext]_hidVars => HidTypeOK'
  <2> SUFFICES ASSUME HidTypeOK, [HidNext]_hidVars PROVE HidTypeOK'
    OBVIOUS
  <2>1. ASSUME NEW s \in Sources, NEW u \in Usages, KeycodePressed(s, u) PROVE HidTypeOK'
    BY <2>1, PressedType
  <2>2. ASSUME NEW s \in Sources, NEW u \in Usages, KeycodeReleased(s, u) PROVE HidTypeOK'
    BY <2>2, ReleasedType
  <2>3. CASE ClearReports
    BY <2>3, EmptyType DEF ClearReports, HidTypeOK
  <2>4. CASE UNCHANGED hidVars
    BY <2>4 DEF hidVars, HidTypeOK
  <2> QED
    BY <2>1, <2>2, <2>3, <2>4 DEF HidNext
<1> QED
  BY <1>1, <1>2, PTL DEF HidSpec
-----------------------------------------------------------------------------
\* The inductive invariant: what the runs check, and that an idle keyboard has no
\* implicit modifiers left, which the report of NothingHeldNothingSent needs.
NoImplicitAtRest == ~unpaired /\ AllAtRest => implicit = {}
HidInv == /\ HidTypeOK /\ ModifierCounts /\ NoGhostKey /\ NoGhostModifier /\ HostInSync
          /\ NoImplicitAtRest

\* Pressing into slots and releasing out of them keeps every key in one slot.
LEMMA SelectSlots ==
  ASSUME NEW n \in Nat, NEW slots, DOMAIN slots = 1 .. n, NEW k,
         k # NoKey, Distinct(slots), ~IsPressed(slots, k)
  PROVE  /\ DOMAIN Select(slots, k) = 1 .. n
         /\ Distinct(Select(slots, k))
         /\ \A i \in 1 .. n : Select(slots, k)[i] \in {slots[i], k}
BY DEF Select, Distinct, IsPressed

LEMMA DeselectSlots ==
  ASSUME NEW n \in Nat, NEW slots, DOMAIN slots = 1 .. n, NEW k, k # NoKey, Distinct(slots)
  PROVE  /\ DOMAIN Deselect(slots, k) = 1 .. n
         /\ Distinct(Deselect(slots, k))
         /\ ~IsPressed(Deselect(slots, k), k)
         /\ \A i \in 1 .. n : Deselect(slots, k)[i] \in {slots[i], NoKey}
BY DEF Deselect, Distinct, IsPressed

\* The bindings that hold a modifier, after a press and after a release by s
LEMMA PressedHolders ==
  ASSUME HidTypeOK, NEW s \in Sources, NEW u \in Usages, holding[s] = NoKey,
         holding' = [holding EXCEPT ![s] = u], NEW c
  PROVE  /\ s \notin Holders(c) /\ s \notin Flaggers(c)
         /\ Holders(c)' = IF u.code = c THEN Holders(c) \cup {s} ELSE Holders(c)
         /\ Flaggers(c)' = IF c \in u.explicit THEN Flaggers(c) \cup {s} ELSE Flaggers(c)
BY HidAssumption DEF HidTypeOK, Holders, Flaggers

LEMMA ReleasedHolders ==
  ASSUME HidTypeOK, NEW s \in Sources, NEW u \in Usages, holding[s] = u,
         holding' = [holding EXCEPT ![s] = NoKey], NEW c
  PROVE  /\ s \in Holders(c) <=> u.code = c
         /\ s \in Flaggers(c) <=> c \in u.explicit
         /\ Holders(c)' = Holders(c) \ {s}
         /\ Flaggers(c)' = Flaggers(c) \ {s}
BY HidAssumption DEF HidTypeOK, Holders, Flaggers

LEMMA HoldersFinite ==
  ASSUME NEW c
  PROVE  /\ IsFiniteSet(Holders(c)) /\ Cardinality(Holders(c)) \in Nat
         /\ IsFiniteSet(Flaggers(c)) /\ Cardinality(Flaggers(c)) \in Nat
         /\ Holders(c) # {} => Cardinality(Holders(c)) > 0
         /\ Flaggers(c) # {} => Cardinality(Flaggers(c)) > 0
<1>1. IsFiniteSet(Holders(c)) /\ IsFiniteSet(Flaggers(c))
  <2>1. Holders(c) \in SUBSET Sources /\ Flaggers(c) \in SUBSET Sources
    BY DEF Holders, Flaggers
  <2> QED
    BY <2>1, FS_Subset, HidAssumption
<1> QED
  BY <1>1, FS_EmptySet, FS_CardinalityType

LEMMA PressedCounts ==
  ASSUME HidInv, NEW s \in Sources, NEW u \in Usages, KeycodePressed(s, u)
  PROVE  ModifierCounts'
<1>1. /\ modCounts' = [m \in Mods |-> modCounts[m] + ByCode(u, m) + ByFlags(u, m)]
      /\ explicit' = explicit \cup {m \in Mods : ByCode(u, m) + ByFlags(u, m) > 0}
      /\ holding' = [holding EXCEPT ![s] = u]
      /\ unpaired' = (unpaired \/ holding[s] # NoKey)
  BY DEF KeycodePressed
<1>2. explicit' = {m \in Mods : modCounts'[m] > 0}
  BY <1>1 DEF HidInv, ModifierCounts, HidTypeOK, ByCode, ByFlags
<1>3. ASSUME ~unpaired', NEW m \in Mods
      PROVE  modCounts'[m] = Cardinality(Holders(m)') + Cardinality(Flaggers(m)')
  <2>1. holding[s] = NoKey /\ ~unpaired
    BY <1>1, <1>3
  <2>2. modCounts[m] = Cardinality(Holders(m)) + Cardinality(Flaggers(m))
    BY <2>1 DEF HidInv, ModifierCounts
  <2>3. Cardinality(Holders(m)') = Cardinality(Holders(m)) + ByCode(u, m)
    <3>1. /\ s \notin Holders(m)
          /\ Holders(m)' = IF u.code = m THEN Holders(m) \cup {s} ELSE Holders(m)
      BY <1>1, <2>1, PressedHolders DEF HidInv
    <3>2. Cardinality(Holders(m) \cup {s}) = Cardinality(Holders(m)) + 1
      BY <3>1, HoldersFinite, FS_AddElement
    <3> QED
      BY <3>1, <3>2, HoldersFinite DEF ByCode
  <2>4. Cardinality(Flaggers(m)') = Cardinality(Flaggers(m)) + ByFlags(u, m)
    <3>1. /\ s \notin Flaggers(m)
          /\ Flaggers(m)' = IF m \in u.explicit THEN Flaggers(m) \cup {s} ELSE Flaggers(m)
      BY <1>1, <2>1, PressedHolders DEF HidInv
    <3>2. Cardinality(Flaggers(m) \cup {s}) = Cardinality(Flaggers(m)) + 1
      BY <3>1, HoldersFinite, FS_AddElement
    <3> QED
      BY <3>1, <3>2, HoldersFinite DEF ByFlags
  <2>5. modCounts'[m] = modCounts[m] + ByCode(u, m) + ByFlags(u, m)
    BY <1>1
  <2> QED
    BY <2>2, <2>3, <2>4, <2>5, HoldersFinite DEF ByCode, ByFlags
<1> QED
  BY <1>2, <1>3 DEF ModifierCounts

\* The release of a held modifier code finds its count above zero.
LEMMA ReleaseSucceeds ==
  ASSUME HidInv, NEW s \in Sources, NEW u \in Usages, ~unpaired, holding[s] = u
  PROVE  /\ u.code \in Mods => modCounts[u.code] > 0
         /\ \A m \in Mods : modCounts[m] >= ByCode(u, m) + ByFlags(u, m)
<1> SUFFICES ASSUME NEW m \in Mods
             PROVE  modCounts[m] >= ByCode(u, m) + ByFlags(u, m)
  BY HidAssumption DEF HidInv, HidTypeOK, ByCode, ByFlags, Usage
<1>1. modCounts[m] = Cardinality(Holders(m)) + Cardinality(Flaggers(m))
  BY DEF HidInv, ModifierCounts
<1>2. Cardinality(Holders(m)) >= ByCode(u, m)
  <2>1. u.code = m => s \in Holders(m)
    BY HidAssumption DEF Holders
  <2> QED
    BY <2>1, HoldersFinite DEF ByCode
<1>3. Cardinality(Flaggers(m)) >= ByFlags(u, m)
  <2>1. m \in u.explicit => s \in Flaggers(m)
    BY HidAssumption DEF Flaggers
  <2> QED
    BY <2>1, HoldersFinite DEF ByFlags
<1> QED
  BY <1>1, <1>2, <1>3, HoldersFinite DEF ByCode, ByFlags

LEMMA ReleasedCounts ==
  ASSUME HidInv, NEW s \in Sources, NEW u \in Usages, KeycodeReleased(s, u)
  PROVE  ModifierCounts'
<1> DEFINE byCode == Unregister(modCounts, [m \in Mods |-> ByCode(u, m)])
<1>1. /\ holding' = [holding EXCEPT ![s] = NoKey]
      /\ unpaired' = (unpaired \/ holding[s] # u)
  BY DEF KeycodeReleased
<1>2. CASE u.code \in Mods /\ modCounts[u.code] <= 0
  <2>1. UNCHANGED <<modCounts, explicit>>
    BY <1>2 DEF KeycodeReleased
  <2>2. unpaired'
    <3> SUFFICES ASSUME ~unpaired, holding[s] = u PROVE FALSE
      BY <1>1 DEF HidInv, HidTypeOK
    <3>1. modCounts[u.code] > 0 /\ modCounts[u.code] \in Nat
      BY <1>2, ReleaseSucceeds DEF HidInv, HidTypeOK
    <3> QED
      BY <1>2, <3>1
  <2> QED
    BY <2>1, <2>2 DEF HidInv, ModifierCounts
<1>3. CASE ~(u.code \in Mods /\ modCounts[u.code] <= 0)
  <2>1. /\ modCounts' = Unregister(byCode, [m \in Mods |-> ByFlags(u, m)])
        /\ explicit' = explicit \ {m \in Mods : modCounts'[m] # modCounts[m]
                                                /\ modCounts'[m] = 0}
    BY <1>3 DEF KeycodeReleased
  <2>2. explicit' = {m \in Mods : modCounts'[m] > 0}
    <3>1. \A m \in Mods : modCounts'[m] \in Nat /\ modCounts'[m] <= modCounts[m]
      BY <2>1 DEF HidInv, HidTypeOK, Unregister, ByCode, ByFlags
    <3>2. explicit = {m \in Mods : modCounts[m] > 0} /\ \A m \in Mods : modCounts[m] \in Nat
      BY DEF HidInv, HidTypeOK, ModifierCounts
    <3> HIDE DEF byCode
    <3> QED
      BY <2>1, <3>1, <3>2
  <2>3. ASSUME ~unpaired', NEW m \in Mods
        PROVE  modCounts'[m] = Cardinality(Holders(m)') + Cardinality(Flaggers(m)')
    <3>1. ~unpaired /\ holding[s] = u
      BY <1>1, <2>3
    <3>2. modCounts[m] = Cardinality(Holders(m)) + Cardinality(Flaggers(m))
      BY <3>1 DEF HidInv, ModifierCounts
    <3>3. modCounts[m] \in Nat /\ modCounts[m] >= ByCode(u, m) + ByFlags(u, m)
      BY <3>1, ReleaseSucceeds DEF HidInv, HidTypeOK
    <3>4. modCounts'[m] = modCounts[m] - ByCode(u, m) - ByFlags(u, m)
      BY <2>1, <3>3 DEF Unregister, ByCode, ByFlags
    <3>5. Cardinality(Holders(m)') = Cardinality(Holders(m)) - ByCode(u, m)
      <4>1. (s \in Holders(m) <=> u.code = m) /\ Holders(m)' = Holders(m) \ {s}
        BY <1>1, <3>1, ReleasedHolders DEF HidInv
      <4>2. Cardinality(Holders(m) \ {s}) = IF s \in Holders(m) THEN Cardinality(Holders(m)) - 1
                                          ELSE Cardinality(Holders(m))
        BY HoldersFinite, FS_RemoveElement
      <4> QED
        BY <4>1, <4>2, HoldersFinite DEF ByCode
    <3>6. Cardinality(Flaggers(m)') = Cardinality(Flaggers(m)) - ByFlags(u, m)
      <4>1. (s \in Flaggers(m) <=> m \in u.explicit) /\ Flaggers(m)' = Flaggers(m) \ {s}
        BY <1>1, <3>1, ReleasedHolders DEF HidInv
      <4>2. Cardinality(Flaggers(m) \ {s}) = IF s \in Flaggers(m) THEN Cardinality(Flaggers(m)) - 1
                                          ELSE Cardinality(Flaggers(m))
        BY HoldersFinite, FS_RemoveElement
      <4> QED
        BY <4>1, <4>2, HoldersFinite DEF ByFlags
    <3> QED
      BY <3>2, <3>4, <3>5, <3>6, HoldersFinite DEF ByCode, ByFlags
  <2> QED
    BY <2>2, <2>3 DEF ModifierCounts
<1> QED
  BY <1>2, <1>3

\* hid_listener_keycode_pressed on the slots of one page
LEMMA PressOnPage ==
  ASSUME NEW n \in Nat, NEW slots, DOMAIN slots = 1 .. n, NEW k, k # NoKey, Distinct(slots),
         NEW after,
         after = Select(IF IsPressed(slots, k) THEN Deselect(slots, k) ELSE slots, k)
  PROVE  Distinct(after) /\ \A i \in 1 .. n : after[i] \in {slots[i], k, NoKey}
<1> DEFINE cleared == IF IsPressed(slots, k) THEN Deselect(slots, k) ELSE slots
<1>1. DOMAIN cleared = 1 .. n
  BY DEF Deselect
<1>2. /\ Distinct(cleared) /\ ~IsPressed(cleared, k)
      /\ \A i \in 1 .. n : cleared[i] \in {slots[i], NoKey}
  BY DeselectSlots
<1>3. after = Select(cleared, k)
  OBVIOUS
<1> HIDE DEF cleared
<1>4. Distinct(after) /\ \A i \in 1 .. n : after[i] \in {cleared[i], k}
  BY <1>1, <1>2, <1>3, SelectSlots
<1> QED
  BY <1>2, <1>4

LEMMA ReleaseOnPage ==
  ASSUME NEW n \in Nat, NEW slots, DOMAIN slots = 1 .. n, NEW k, k # NoKey, Distinct(slots)
  PROVE  /\ Distinct(Deselect(slots, k))
         /\ \A i \in 1 .. n : Deselect(slots, k)[i] \in {slots[i], NoKey} \ {k}
BY DeselectSlots DEF IsPressed

\* The report and the host after a press
LEMMA PressedReport ==
  ASSUME HidInv, NEW s \in Sources, NEW u \in Usages, KeycodePressed(s, u)
  PROVE  /\ report' \in Report /\ host' = report'
         /\ report'.mods = explicit' \cup implicit'
         /\ Distinct(report'.keys) /\ Distinct(report'.consumer)
         /\ \A i \in 1 .. ReportSize : report'.keys[i] \in {report.keys[i], u.code, NoKey}
         /\ \A i \in 1 .. ConsumerSize :
              report'.consumer[i] \in {report.consumer[i], u.code, NoKey}
<1> DEFINE again == PressedAgain(u)
           before == IF again THEN ReleaseSlots(report, u) ELSE report
           after == [PressSlots(before, u) EXCEPT !.mods = explicit' \cup implicit']
           h1 == IF again THEN Send(host, before, u) ELSE host
           h2 == IF u.code \in ConsumerKeys /\ after.mods # report.mods
                 THEN SendMods(h1, after) ELSE h1
<1>1. report' = after /\ host' = Send(h2, after, u)
  BY DEF KeycodePressed
<1>2. /\ report' \in Report /\ report \in Report /\ host = report /\ host' \in Report
      /\ Distinct(report.keys) /\ Distinct(report.consumer)
  BY PressedType DEF HidInv, HidTypeOK, NoGhostKey, HostInSync
<1>3. before \in Report
  BY <1>2, SlotsType
<1>4. u.code # NoKey /\ (u.code \in Mods \/ u.code \in Keys \/ u.code \in ConsumerKeys)
  BY HidAssumption DEF Usage, Codes
<1>5. /\ report'.mods = explicit' \cup implicit'
      /\ report'.keys = PressSlots(before, u).keys
      /\ report'.consumer = PressSlots(before, u).consumer
  <2>1. PressSlots(before, u) \in Report
    BY <1>3, SlotsType
  <2> QED
    BY <1>1, <2>1 DEF Report
<1>6. CASE u.code \in Keys
  <2>1. /\ report'.consumer = report.consumer
        /\ report'.keys = Select(IF IsPressed(report.keys, u.code)
                                 THEN Deselect(report.keys, u.code) ELSE report.keys, u.code)
    BY <1>2, <1>5, <1>6, HidAssumption DEF PressSlots, ReleaseSlots, PressedAgain, Reported, Report
  <2>2. host' = report'
    <3>1. u.code \notin ConsumerKeys
      BY <1>6, HidAssumption
    <3>2. h2 = h1 /\ h1 \in Report /\ h1.consumer = report.consumer
      BY <1>2, <1>3, <3>1, SendType DEF Send, Report
    <3>3. host' = [h2 EXCEPT !.mods = report'.mods, !.keys = report'.keys]
      BY <1>1, <3>1 DEF Send
    <3> HIDE DEF h1, h2
    <3> QED
      BY <1>2, <2>1, <3>2, <3>3 DEF Report
  <2>3. /\ Distinct(report'.keys)
        /\ \A i \in 1 .. ReportSize : report'.keys[i] \in {report.keys[i], u.code, NoKey}
    <3>1. report.keys \in [1 .. ReportSize -> Keys \cup {NoKey}] /\ ReportSize \in Nat
      BY <1>2, HidAssumption DEF Report
    <3> QED
      BY <1>2, <1>4, <2>1, <3>1, PressOnPage
  <2> QED
    BY <1>2, <1>5, <2>1, <2>2, <2>3
<1>7. CASE u.code \in ConsumerKeys
  <2>1. /\ report'.keys = report.keys
        /\ report'.consumer = Select(IF IsPressed(report.consumer, u.code)
                           THEN Deselect(report.consumer, u.code) ELSE report.consumer, u.code)
    BY <1>2, <1>5, <1>7, HidAssumption DEF PressSlots, ReleaseSlots, PressedAgain, Reported, Report
  <2>2. host' = report'
    <3>1. h1 \in Report /\ h1.mods = report.mods /\ h1.keys = report.keys
      BY <1>2, <1>3, <1>7, SendType DEF Send, Report
    <3>2. h2 \in Report /\ h2.mods = report'.mods /\ h2.keys = report'.keys
      <4> HIDE DEF h1, after
      <4> QED
        BY <1>1, <1>2, <2>1, <1>7, <3>1, SendType DEF SendMods, Report
    <3>3. host' = [h2 EXCEPT !.consumer = report'.consumer]
      BY <1>1, <1>7 DEF Send
    <3> HIDE DEF h1, h2
    <3> QED
      BY <1>2, <3>2, <3>3 DEF Report
  <2>3. /\ Distinct(report'.consumer)
        /\ \A i \in 1 .. ConsumerSize :
             report'.consumer[i] \in {report.consumer[i], u.code, NoKey}
    <3>1. /\ report.consumer \in [1 .. ConsumerSize -> ConsumerKeys \cup {NoKey}]
          /\ ConsumerSize \in Nat
      BY <1>2, HidAssumption DEF Report
    <3> QED
      BY <1>2, <1>4, <2>1, <3>1, PressOnPage
  <2> QED
    BY <1>2, <1>5, <2>1, <2>2, <2>3
<1>8. CASE u.code \in Mods
  <2>1. u.code \notin Keys /\ u.code \notin ConsumerKeys
    BY <1>8, HidAssumption
  <2>2. report'.keys = report.keys /\ report'.consumer = report.consumer
    BY <1>2, <1>5, <2>1 DEF PressSlots, PressedAgain, Reported, Report
  <2>3. host' = [host EXCEPT !.mods = report'.mods, !.keys = report'.keys]
    BY <1>1, <2>1 DEF Send, PressedAgain, Reported
  <2> QED
    BY <1>2, <1>5, <2>2, <2>3 DEF Report
<1> QED
  BY <1>4, <1>6, <1>7, <1>8

\* The report and the host after a release that does not fail
LEMMA ReleasedReport ==
  ASSUME HidInv, NEW s \in Sources, NEW u \in Usages, KeycodeReleased(s, u),
         ~(u.code \in Mods /\ modCounts[u.code] <= 0)
  PROVE  /\ report' \in Report /\ host' = report'
         /\ report'.mods = explicit' /\ implicit' = {}
         /\ Distinct(report'.keys) /\ Distinct(report'.consumer)
         /\ \A i \in 1 .. ReportSize :
              report'.keys[i] \in {report.keys[i], NoKey} \ {u.code}
         /\ \A i \in 1 .. ConsumerSize :
              report'.consumer[i] \in {report.consumer[i], NoKey} \ {u.code}
<1> DEFINE byCode == Unregister(modCounts, [m \in Mods |-> ByCode(u, m)])
           released == [ReleaseSlots(report, u) EXCEPT !.mods =
                          IF u.code \in Mods
                          THEN (explicit \ {m \in Mods : m = u.code /\ byCode[m] = 0})
                                 \cup implicit
                          ELSE @]
           after == [released EXCEPT !.mods = explicit']
           h1 == IF SeparateModRelease THEN Send(host, released, u) ELSE host
           h2 == IF u.code \in ConsumerKeys /\ after.mods # report.mods
                 THEN SendMods(h1, after) ELSE h1
<1>1. report' = after /\ host' = Send(h2, after, u) /\ implicit' = {}
  BY DEF KeycodeReleased
<1>2. /\ report' \in Report /\ report \in Report /\ host = report /\ host' \in Report
      /\ Distinct(report.keys) /\ Distinct(report.consumer)
  BY ReleasedType DEF HidInv, HidTypeOK, NoGhostKey, HostInSync
<1>3. u.code # NoKey /\ (u.code \in Mods \/ u.code \in Keys \/ u.code \in ConsumerKeys)
  BY HidAssumption DEF Usage, Codes
<1>4. /\ released \in Report
      /\ released.keys = ReleaseSlots(report, u).keys
      /\ released.consumer = ReleaseSlots(report, u).consumer
      /\ u.code \notin Mods => released.mods = report.mods
  <2>1. ReleaseSlots(report, u) \in Report /\ ReleaseSlots(report, u).mods = report.mods
    BY <1>2, SlotsType DEF ReleaseSlots, Report
  <2> QED
    BY <2>1 DEF Report, HidInv, HidTypeOK
<1>5. /\ report'.mods = explicit'
      /\ report'.keys = ReleaseSlots(report, u).keys
      /\ report'.consumer = ReleaseSlots(report, u).consumer
  <2> HIDE DEF released
  <2> QED
    BY <1>1, <1>4 DEF Report
<1>6. h1 \in Report
  BY <1>2, <1>4, SendType
<1>7. CASE u.code \in Keys
  <2>1. report'.consumer = report.consumer /\ report'.keys = Deselect(report.keys, u.code)
    BY <1>2, <1>5, <1>7, HidAssumption DEF ReleaseSlots, Report
  <2>2. u.code \notin ConsumerKeys
    BY <1>7, HidAssumption
  <2>3. h2 = h1 /\ h1.consumer = report.consumer
    <3> HIDE DEF released
    <3> QED
      BY <1>2, <1>4, <2>2 DEF Send, Report
  <2>4. host' = [h2 EXCEPT !.mods = report'.mods, !.keys = report'.keys]
    BY <1>1, <2>2 DEF Send
  <2>5. host' = report'
    <3> HIDE DEF h1, h2
    <3> QED
      BY <1>2, <1>6, <2>1, <2>3, <2>4 DEF Report
  <2>6. \A i \in 1 .. ConsumerSize : report.consumer[i] # u.code
    BY <1>2, <2>2, <1>3 DEF Report
  <2>7. /\ Distinct(report'.keys)
        /\ \A i \in 1 .. ReportSize : report'.keys[i] \in {report.keys[i], NoKey} \ {u.code}
    <3>1. report.keys \in [1 .. ReportSize -> Keys \cup {NoKey}] /\ ReportSize \in Nat
      BY <1>2, HidAssumption DEF Report
    <3> QED
      BY <1>2, <1>3, <2>1, <3>1, ReleaseOnPage
  <2> HIDE DEF after
  <2> QED
    BY <1>1, <1>2, <1>3, <1>5, <2>1, <2>5, <2>6, <2>7
<1>8. CASE u.code \in ConsumerKeys
  <2>1. report'.keys = report.keys /\ report'.consumer = Deselect(report.consumer, u.code)
    BY <1>2, <1>5, <1>8, HidAssumption DEF ReleaseSlots, Report
  <2>2. u.code \notin Keys /\ u.code \notin Mods
    BY <1>8, HidAssumption
  <2>3. h1.mods = report.mods /\ h1.keys = report.keys
    <3> HIDE DEF released
    <3> QED
      BY <1>2, <1>4, <1>8, <2>2 DEF Send, Report
  <2>4. h2 \in Report /\ h2.mods = report'.mods /\ h2.keys = report'.keys
    <3> HIDE DEF h1, after
    <3> QED
      BY <1>1, <1>2, <1>6, <1>8, <2>1, <2>3, SendType DEF SendMods, Report
  <2>5. host' = [h2 EXCEPT !.consumer = report'.consumer]
    <3> HIDE DEF h2, after
    <3> QED
      BY <1>1, <1>8 DEF Send
  <2>6. host' = report'
    <3> HIDE DEF h1, h2
    <3> QED
      BY <1>2, <2>4, <2>5 DEF Report
  <2>7. \A i \in 1 .. ReportSize : report.keys[i] # u.code
    BY <1>2, <2>2, <1>3 DEF Report
  <2>8. /\ Distinct(report'.consumer)
        /\ \A i \in 1 .. ConsumerSize :
             report'.consumer[i] \in {report.consumer[i], NoKey} \ {u.code}
    <3>1. /\ report.consumer \in [1 .. ConsumerSize -> ConsumerKeys \cup {NoKey}]
          /\ ConsumerSize \in Nat
      BY <1>2, HidAssumption DEF Report
    <3> QED
      BY <1>2, <1>3, <2>1, <3>1, ReleaseOnPage
  <2> HIDE DEF after
  <2> QED
    BY <1>1, <1>2, <1>3, <1>5, <2>1, <2>6, <2>7, <2>8
<1>9. CASE u.code \in Mods
  <2>1. u.code \notin Keys /\ u.code \notin ConsumerKeys
    BY <1>9, HidAssumption
  <2>2. report'.keys = report.keys /\ report'.consumer = report.consumer
    BY <1>2, <1>5, <2>1 DEF ReleaseSlots, Report
  <2>3. h2 = h1 /\ h1.consumer = report.consumer
    <3> HIDE DEF released
    <3> QED
      BY <1>2, <1>4, <1>5, <2>1, <2>2 DEF Send, Report
  <2>4. host' = [h2 EXCEPT !.mods = report'.mods, !.keys = report'.keys]
    <3> HIDE DEF h2, after
    <3> QED
      BY <1>1, <2>1 DEF Send
  <2>5. host' = report'
    <3> HIDE DEF h1, h2
    <3> QED
      BY <1>2, <1>6, <2>2, <2>3, <2>4 DEF Report
  <2>6. /\ \A i \in 1 .. ReportSize : report.keys[i] # u.code
        /\ \A i \in 1 .. ConsumerSize : report.consumer[i] # u.code
    <3>1. /\ \A i \in 1 .. ReportSize : report.keys[i] \in Keys \cup {NoKey}
          /\ \A i \in 1 .. ConsumerSize : report.consumer[i] \in ConsumerKeys \cup {NoKey}
      BY <1>2 DEF Report
    <3>2. u.code \notin Keys \cup {NoKey} /\ u.code \notin ConsumerKeys \cup {NoKey}
      BY <1>3, <2>1
    <3> HIDE DEF released
    <3> QED
      BY <3>1, <3>2
  <2> HIDE DEF after
  <2> QED
    BY <1>1, <1>2, <1>3, <1>5, <2>2, <2>5, <2>6
<1> QED
  BY <1>3, <1>7, <1>8, <1>9
-----------------------------------------------------------------------------
\* A failed release is an unpaired one.
LEMMA FailedRelease ==
  ASSUME HidInv, NEW s \in Sources, NEW u \in Usages, KeycodeReleased(s, u),
         u.code \in Mods /\ modCounts[u.code] <= 0
  PROVE  unpaired'
<1> SUFFICES ASSUME ~unpaired, holding[s] = u PROVE FALSE
  BY DEF KeycodeReleased, HidInv, HidTypeOK
<1>1. modCounts[u.code] > 0 /\ modCounts[u.code] \in Nat
  BY ReleaseSucceeds DEF HidInv, HidTypeOK
<1> QED
  BY <1>1

LEMMA PressedInv ==
  ASSUME HidInv, NEW s \in Sources, NEW u \in Usages, KeycodePressed(s, u)
  PROVE  HidInv'
<1>1. HidTypeOK' /\ ModifierCounts'
  BY PressedType, PressedCounts DEF HidInv
<1>2. HostInSync' /\ NoGhostModifier'
  BY PressedReport DEF HostInSync, NoGhostModifier
<1>3. holding' = [holding EXCEPT ![s] = u] /\ unpaired' = (unpaired \/ holding[s] # NoKey)
  BY DEF KeycodePressed
<1>4. u # NoKey /\ holding \in [Sources -> Usages \cup {NoKey}]
  BY HidAssumption DEF HidInv, HidTypeOK
<1>5. NoImplicitAtRest'
  BY <1>3, <1>4 DEF NoImplicitAtRest, AllAtRest
<1>6. ASSUME ~unpaired', NEW k,
             k \in {u.code} \/ \E t \in Sources : holding[t] # NoKey /\ holding[t].code = k
      PROVE  \E t \in Sources : holding'[t] # NoKey /\ holding'[t].code = k
  <2>1. holding[s] = NoKey
    BY <1>3, <1>6
  <2>2. CASE k = u.code
    BY <1>3, <1>4, <2>2
  <2>3. CASE \E t \in Sources : holding[t] # NoKey /\ holding[t].code = k
    BY <1>3, <1>4, <2>1, <2>3
  <2> QED
    BY <1>6, <2>2, <2>3
<1>7. ASSUME ~unpaired' PROVE Backed(report.keys)'
  <2>1. \A i \in 1 .. ReportSize : report'.keys[i] \in {report.keys[i], u.code, NoKey}
    BY PressedReport
  <2>2. DOMAIN report.keys = 1 .. ReportSize /\ DOMAIN report'.keys = 1 .. ReportSize
    BY <1>1 DEF HidInv, HidTypeOK, Report
  <2>3. Backed(report.keys)
    BY <1>3, <1>7 DEF HidInv, NoGhostKey
  <2> SUFFICES ASSUME NEW i \in 1 .. ReportSize, report'.keys[i] # NoKey
               PROVE  \E t \in Sources : holding'[t] # NoKey /\ holding'[t].code = report'.keys[i]
    BY <2>2 DEF Backed, Holders
  <2>4. \/ report'.keys[i] = u.code
        \/ \E t \in Sources : holding[t] # NoKey /\ holding[t].code = report'.keys[i]
    BY <2>1, <2>2, <2>3 DEF Backed, Holders
  <2> QED
    BY <1>6, <1>7, <2>4
<1>8. ASSUME ~unpaired' PROVE Backed(report.consumer)'
  <2>1. \A i \in 1 .. ConsumerSize : report'.consumer[i] \in {report.consumer[i], u.code, NoKey}
    BY PressedReport
  <2>2. DOMAIN report.consumer = 1 .. ConsumerSize /\ DOMAIN report'.consumer = 1 .. ConsumerSize
    BY <1>1 DEF HidInv, HidTypeOK, Report
  <2>3. Backed(report.consumer)
    BY <1>3, <1>8 DEF HidInv, NoGhostKey
  <2> SUFFICES ASSUME NEW i \in 1 .. ConsumerSize, report'.consumer[i] # NoKey
               PROVE  \E t \in Sources :
                        holding'[t] # NoKey /\ holding'[t].code = report'.consumer[i]
    BY <2>2 DEF Backed, Holders
  <2>4. \/ report'.consumer[i] = u.code
        \/ \E t \in Sources : holding[t] # NoKey /\ holding[t].code = report'.consumer[i]
    BY <2>1, <2>2, <2>3 DEF Backed, Holders
  <2> QED
    BY <1>6, <1>8, <2>4
<1>9. Distinct(report.keys)' /\ Distinct(report.consumer)'
  BY PressedReport
<1> QED
  BY <1>1, <1>2, <1>5, <1>7, <1>8, <1>9 DEF HidInv, NoGhostKey

LEMMA ReleasedInv ==
  ASSUME HidInv, NEW s \in Sources, NEW u \in Usages, KeycodeReleased(s, u)
  PROVE  HidInv'
<1>1. HidTypeOK' /\ ModifierCounts'
  BY ReleasedType, ReleasedCounts DEF HidInv
<1>2. CASE u.code \in Mods /\ modCounts[u.code] <= 0
  <2>1. unpaired'
    BY <1>2, FailedRelease
  <2>2. UNCHANGED <<explicit, implicit, report, host>>
    BY <1>2 DEF KeycodeReleased
  <2> QED
    BY <1>1, <2>1, <2>2
    DEF HidInv, NoGhostKey, NoGhostModifier, HostInSync, NoImplicitAtRest
<1>3. CASE ~(u.code \in Mods /\ modCounts[u.code] <= 0)
  <2>1. HostInSync' /\ NoGhostModifier' /\ NoImplicitAtRest'
    BY <1>3, ReleasedReport DEF HostInSync, NoGhostModifier, NoImplicitAtRest
  <2>2. holding' = [holding EXCEPT ![s] = NoKey] /\ unpaired' = (unpaired \/ holding[s] # u)
    BY DEF KeycodeReleased
  <2>3. u # NoKey /\ holding \in [Sources -> Usages \cup {NoKey}]
    BY HidAssumption DEF HidInv, HidTypeOK
  <2>4. ASSUME ~unpaired', NEW k, k # u.code,
               \E t \in Sources : holding[t] # NoKey /\ holding[t].code = k
        PROVE  \E t \in Sources : holding'[t] # NoKey /\ holding'[t].code = k
    BY <2>2, <2>3, <2>4
  <2>5. ASSUME ~unpaired' PROVE Backed(report.keys)'
    <3>1. \A i \in 1 .. ReportSize : report'.keys[i] \in {report.keys[i], NoKey} \ {u.code}
      BY <1>3, ReleasedReport
    <3>2. DOMAIN report.keys = 1 .. ReportSize /\ DOMAIN report'.keys = 1 .. ReportSize
      BY <1>1 DEF HidInv, HidTypeOK, Report
    <3>3. Backed(report.keys)
      BY <2>2, <2>5 DEF HidInv, NoGhostKey
    <3> SUFFICES ASSUME NEW i \in 1 .. ReportSize, report'.keys[i] # NoKey
                 PROVE  \E t \in Sources : holding'[t] # NoKey /\ holding'[t].code = report'.keys[i]
      BY <3>2 DEF Backed, Holders
    <3>4. /\ report'.keys[i] # u.code
          /\ \E t \in Sources : holding[t] # NoKey /\ holding[t].code = report'.keys[i]
      BY <3>1, <3>2, <3>3 DEF Backed, Holders
    <3> QED
      BY <2>4, <2>5, <3>4
  <2>6. ASSUME ~unpaired' PROVE Backed(report.consumer)'
    <3>1. \A i \in 1 .. ConsumerSize :
            report'.consumer[i] \in {report.consumer[i], NoKey} \ {u.code}
      BY <1>3, ReleasedReport
    <3>2. DOMAIN report.consumer = 1 .. ConsumerSize /\ DOMAIN report'.consumer = 1 .. ConsumerSize
      BY <1>1 DEF HidInv, HidTypeOK, Report
    <3>3. Backed(report.consumer)
      BY <2>2, <2>6 DEF HidInv, NoGhostKey
    <3> SUFFICES ASSUME NEW i \in 1 .. ConsumerSize, report'.consumer[i] # NoKey
                 PROVE  \E t \in Sources :
                        holding'[t] # NoKey /\ holding'[t].code = report'.consumer[i]
      BY <3>2 DEF Backed, Holders
    <3>4. /\ report'.consumer[i] # u.code
          /\ \E t \in Sources : holding[t] # NoKey /\ holding[t].code = report'.consumer[i]
      BY <3>1, <3>2, <3>3 DEF Backed, Holders
    <3> QED
      BY <2>4, <2>6, <3>4
  <2>7. Distinct(report.keys)' /\ Distinct(report.consumer)'
    BY <1>3, ReleasedReport
  <2> QED
    BY <1>1, <2>1, <2>5, <2>6, <2>7 DEF HidInv, NoGhostKey
<1> QED
  BY <1>2, <1>3

LEMMA EmptySlots ==
  /\ Distinct(EmptyReport.keys) /\ Distinct(EmptyReport.consumer)
  /\ \A i \in DOMAIN EmptyReport.keys : EmptyReport.keys[i] = NoKey
  /\ \A i \in DOMAIN EmptyReport.consumer : EmptyReport.consumer[i] = NoKey
  /\ EmptyReport.mods = {}
BY DEF EmptyReport, Distinct

LEMMA ClearedInv == HidInv /\ ClearReports => HidInv'
<1> SUFFICES ASSUME HidInv, ClearReports PROVE HidInv'
  OBVIOUS
<1>1. /\ report' = EmptyReport /\ host' = EmptyReport /\ sent' = <<>>
      /\ UNCHANGED <<modCounts, explicit, implicit, holding, unpaired>>
  BY DEF ClearReports
<1>2. HidTypeOK'
  BY <1>1, EmptyType DEF HidInv, HidTypeOK
<1>3. NoGhostKey' /\ NoGhostModifier' /\ HostInSync'
  BY <1>1, EmptySlots DEF NoGhostKey, Backed, NoGhostModifier, HostInSync
<1>4. ModifierCounts'
  BY <1>1 DEF HidInv, ModifierCounts, Holders, Flaggers
<1>5. NoImplicitAtRest'
  BY <1>1 DEF HidInv, NoImplicitAtRest, AllAtRest
<1> QED
  BY <1>2, <1>3, <1>4, <1>5 DEF HidInv

LEMMA StutteredInv == HidInv /\ UNCHANGED hidVars => HidInv'
BY DEF HidInv, hidVars, HidTypeOK, ModifierCounts, Holders, Flaggers, NoGhostKey, Backed,
       NoGhostModifier, HostInSync, NoImplicitAtRest, AllAtRest

LEMMA InitialInv == HidInit => HidInv
<1> SUFFICES ASSUME HidInit PROVE HidInv
  OBVIOUS
<1>1. HidTypeOK
  <2>1. sent \in Seq(Report)
    BY DEF HidInit
  <2>2. modCounts \in [Mods -> Nat] /\ holding \in [Sources -> Usages \cup {NoKey}]
    BY DEF HidInit
  <2> QED
    BY <2>1, <2>2, EmptyType DEF HidInit, HidTypeOK
<1>2. ModifierCounts
  <2>1. \A m \in Mods : Holders(m) = {} /\ Flaggers(m) = {}
    BY DEF HidInit, Holders, Flaggers
  <2>2. \A m \in Mods : modCounts[m] = Cardinality(Holders(m)) + Cardinality(Flaggers(m))
    <3>1. Cardinality({}) = 0
      BY FS_EmptySet
    <3>2. \A m \in Mods : modCounts[m] = 0
      BY DEF HidInit
    <3> QED
      BY <2>1, <3>1, <3>2
  <2>3. explicit = {m \in Mods : modCounts[m] > 0}
    BY DEF HidInit
  <2> QED
    BY <2>2, <2>3 DEF HidInit, ModifierCounts
<1>3. NoGhostKey /\ NoGhostModifier /\ HostInSync /\ NoImplicitAtRest
  BY EmptySlots DEF HidInit, NoGhostKey, Backed, NoGhostModifier, HostInSync, NoImplicitAtRest
<1> QED
  BY <1>1, <1>2, <1>3 DEF HidInv

LEMMA InductiveInv == HidInv /\ [HidNext]_hidVars => HidInv'
<1> SUFFICES ASSUME HidInv, [HidNext]_hidVars PROVE HidInv'
  OBVIOUS
<1>1. ASSUME NEW s \in Sources, NEW u \in Usages, KeycodePressed(s, u) PROVE HidInv'
  BY <1>1, PressedInv
<1>2. ASSUME NEW s \in Sources, NEW u \in Usages, KeycodeReleased(s, u) PROVE HidInv'
  BY <1>2, ReleasedInv
<1>3. CASE ClearReports
  BY <1>3, ClearedInv
<1>4. CASE UNCHANGED hidVars
  BY <1>4, StutteredInv
<1> QED
  BY <1>1, <1>2, <1>3, <1>4 DEF HidNext
-----------------------------------------------------------------------------
\* HidInv holds in every state of every run of the two handlers.
THEOREM HidInvariant == HidSpec => []HidInv
BY InitialInv, InductiveInv, PTL DEF HidSpec

\* zmk_hid_register_mod and unregister_mod: the counts are those of the held bindings.
THEOREM HidModifierCounts == HidSpec => []ModifierCounts
<1>1. HidInv => ModifierCounts
  BY DEF HidInv
<1> QED
  BY <1>1, HidInvariant, PTL

\* Every key in a report is held by some binding and is in it once.
THEOREM HidNoGhostKey == HidSpec => []NoGhostKey
<1>1. HidInv => NoGhostKey
  BY DEF HidInv
<1> QED
  BY <1>1, HidInvariant, PTL

\* After each handler the host has the reports, and no modifier without a cause.
THEOREM HidHost == HidSpec => [](HostInSync /\ NoGhostModifier)
<1>1. HidInv => HostInSync /\ NoGhostModifier
  BY DEF HidInv
<1> QED
  BY <1>1, HidInvariant, PTL

\* With every binding released, the host has the empty reports.
THEOREM HidAtRest == HidSpec => []NothingHeldNothingSent
<1>1. HidInv => NothingHeldNothingSent
  <2> SUFFICES ASSUME HidInv, ~unpaired, AllAtRest PROVE host = EmptyReport
    BY DEF NothingHeldNothingSent
  <2>1. \A c : Holders(c) = {} /\ Flaggers(c) = {}
    BY DEF AllAtRest, Holders, Flaggers
  <2>2. explicit = {}
    <3>1. \A m \in Mods : modCounts[m] = Cardinality({}) + Cardinality({})
      BY <2>1 DEF HidInv, ModifierCounts
    <3>2. \A m \in Mods : modCounts[m] = 0
      BY <3>1, FS_EmptySet
    <3> QED
      BY <3>2 DEF HidInv, ModifierCounts
  <2>3. report.mods = {}
    BY <2>2 DEF HidInv, NoImplicitAtRest, NoGhostModifier
  <2>4. \A i \in DOMAIN report.keys : report.keys[i] = NoKey
    BY <2>1 DEF HidInv, NoGhostKey, Backed
  <2>5. \A i \in DOMAIN report.consumer : report.consumer[i] = NoKey
    BY <2>1 DEF HidInv, NoGhostKey, Backed
  <2>6. report \in Report
    BY DEF HidInv, HidTypeOK
  <2>7. report.keys = EmptyReport.keys /\ report.consumer = EmptyReport.consumer
    BY <2>4, <2>5, <2>6 DEF Report, EmptyReport
  <2>8. report.mods = EmptyReport.mods
    BY <2>3 DEF EmptyReport
  <2>9. report = EmptyReport
    BY <2>6, <2>7, <2>8, EmptyType DEF Report
  <2> QED
    BY <2>9 DEF HidInv, HostInSync
<1> QED
  BY <1>1, HidInvariant, PTL

\* zmk_hid_press of a key in the report: the handler first reports it released, so that
\* the host sees a press of its own for every key event, whatever else is held.
THEOREM HidFreshPress == HidSpec => FreshPress
<1> DEFINE Fresh == \A s \in Sources :
       LET u == holding'[s]
       IN holding[s] = NoKey /\ u # NoKey /\ u.code \notin Mods /\ Reported(host', u)
            => \/ ~Reported(host, u)
               \/ \E i \in DOMAIN sent' : ~Reported(sent'[i], u)
<1>1. HidInv /\ [HidNext]_hidVars => [Fresh]_hidVars
  <2> SUFFICES ASSUME HidInv, HidNext, NEW s \in Sources, holding[s] = NoKey,
                      holding'[s] # NoKey, Reported(host, holding'[s]),
                      holding'[s].code \notin Mods
               PROVE  \E i \in DOMAIN sent' : ~Reported(sent'[i], holding'[s])
    BY DEF HidNext
  <2>1. holding \in [Sources -> Usages \cup {NoKey}] /\ host = report /\ report \in Report
    BY DEF HidInv, HidTypeOK, HostInSync
  <2>2. PICK u \in Usages : KeycodePressed(s, u)
    <3>1. ~ClearReports
      BY DEF ClearReports
    <3>2. ASSUME NEW t \in Sources, NEW u \in Usages, KeycodeReleased(t, u) PROVE FALSE
      BY <2>1, <3>2 DEF KeycodeReleased
    <3>3. ASSUME NEW t \in Sources, NEW u \in Usages, KeycodePressed(t, u) PROVE t = s
      BY <2>1, <3>3 DEF KeycodePressed
    <3> QED
      BY <3>1, <3>2, <3>3 DEF HidNext
  <2>3. holding'[s] = u
    BY <2>1, <2>2 DEF KeycodePressed
  <2> DEFINE before == ReleaseSlots(report, u)
             after == [PressSlots(before, u) EXCEPT !.mods = explicit' \cup implicit']
             h1 == Send(host, before, u)
             h2 == IF u.code \in ConsumerKeys /\ after.mods # report.mods
                   THEN SendMods(h1, after) ELSE h1
  <2>4. Reported(report, u)
    BY <2>1, <2>3
  <2>5. sent' = Extra(host, h1) \o Extra(h1, h2)
    BY <2>2, <2>4 DEF KeycodePressed, PressedAgain
  <2>6. ~Reported(h1, u)
    <3>1. u.code # NoKey /\ (u.code \in Keys => u.code \notin ConsumerKeys)
      BY HidAssumption DEF Usage, Codes
    <3>2. /\ u.code \in Keys => h1.keys = Deselect(report.keys, u.code)
          /\ u.code \in ConsumerKeys => h1.consumer = Deselect(report.consumer, u.code)
      BY <2>1, <3>1 DEF Send, ReleaseSlots, Report
    <3>3. \A slots : ~IsPressed(Deselect(slots, u.code), u.code)
      BY <3>1 DEF Deselect, IsPressed
    <3> QED
      BY <3>1, <3>2, <3>3 DEF Reported
  <2>7. h1 # host
    BY <2>1, <2>4, <2>6
  <2>8. h1 \in Report /\ h2 \in Report
    <3>1. before \in Report
      BY <2>1, SlotsType
    <3>2. after \in Report
      <4>1. PressSlots(before, u) \in Report
        BY <3>1, SlotsType
      <4>2. explicit' \cup implicit' \subseteq Mods
        BY <2>2, PressedType DEF HidInv, HidTypeOK
      <4> QED
        BY <4>1, <4>2 DEF Report
    <3> QED
      BY <2>1, <3>1, <3>2, SendType
  <2> HIDE DEF h1, h2
  <2>9. Len(sent') >= 1 /\ sent'[1] = h1
    BY <2>5, <2>7, <2>8 DEF Extra
  <2>10. 1 \in DOMAIN sent'
    BY <2>5, <2>8, <2>9, ExtraType
  <2> QED
    BY <2>3, <2>6, <2>9, <2>10
<1> QED
  BY <1>1, HidInvariant, PTL DEF HidSpec, FreshPress

-----------------------------------------------------------------------------
(* Keyboard *)

\* What a key event does to each component
LEMMA KeyEventBinding ==
  ASSUME KeymapTypeOK, NEW p \in Positions, NEW state, NEW b, b = Resolve(p, state),
         IsKeyPress(b)
  PROVE  b.arg \in Usages /\ p \in Sources
BY ResolveType, KeyboardAssumption, KeymapAssumption DEF IsKeyPress, Bound

LEMMA StepKeymap == [Next]_vars => [KeymapNext]_keymapVars
BY DEF Next, vars, keymapVars, KeymapNext, KeyDown, KeyUp, EndpointChanged

LEMMA StepHid == KeymapTypeOK /\ [Next]_vars => [HidNext]_hidVars
<1> SUFFICES ASSUME KeymapTypeOK, [Next]_vars PROVE [HidNext]_hidVars
  OBVIOUS
<1>1. ASSUME NEW p \in Positions, KeyDown(p) PROVE [HidNext]_hidVars
  <2> DEFINE b == Resolve(p, active)
  <2>1. CASE IsKeyPress(b)
    <3>1. KeycodePressed(p, b.arg)
      BY <1>1, <2>1 DEF KeyDown
    <3>2. b.arg \in Usages /\ p \in Sources
      BY <2>1, KeyEventBinding
    <3> QED
      BY <3>1, <3>2 DEF HidNext
  <2>2. CASE ~IsKeyPress(b)
    BY <1>1, <2>2 DEF KeyDown
  <2> QED
    BY <2>1, <2>2
<1>2. ASSUME NEW p \in Positions, KeyUp(p) PROVE [HidNext]_hidVars
  <2> DEFINE b == Resolve(p, recorded[p])
  <2>1. CASE IsKeyPress(b)
    <3>1. KeycodeReleased(p, b.arg)
      BY <1>2, <2>1 DEF KeyUp
    <3>2. b.arg \in Usages /\ p \in Sources
      BY <2>1, KeyEventBinding
    <3> QED
      BY <3>1, <3>2 DEF HidNext
  <2>2. CASE ~IsKeyPress(b)
    BY <1>2, <2>2 DEF KeyUp
  <2> QED
    BY <2>1, <2>2
<1>3. CASE EndpointChanged
  BY <1>3 DEF EndpointChanged, HidNext
<1>4. CASE UNCHANGED hidVars
  BY <1>4
<1>5. UNCHANGED vars => UNCHANGED hidVars
  BY DEF vars, hidVars
<1> QED
  BY <1>1, <1>2, <1>3, <1>4, <1>5 DEF Next

\* The keymap of a keyboard behaves as Keymap says.
THEOREM KeyboardImplementsKeymap == Spec => KeymapSpec
<1>1. Init => KeymapInit
  BY DEF Init
<1> QED
  BY <1>1, StepKeymap, PTL DEF Spec, KeymapSpec

\* The report state of a keyboard behaves as Hid says: every binding that a key event
\* resolves to sends a usage that Hid knows.
THEOREM KeyboardImplementsHid == Spec => HidSpec
<1>1. Init => HidInit
  BY DEF Init
<1> QED
  BY <1>1, StepHid, KeyboardImplementsKeymap, KeymapTyping, PTL DEF Spec, HidSpec
-----------------------------------------------------------------------------
\* The inductive invariant of the composition: a key that is down holds the usage of the
\* binding its press invoked, and no other key holds any.
SourcesHold ==
  ~misrouted => \A p \in Positions :
                  holding[p] = IF p \in down /\ IsKeyPress(held[p]) THEN held[p].arg ELSE NoKey
Pairing == SourcesHold /\ PairedByKeymap

LEMMA PressedPairing ==
  ASSUME KeymapInv, HidTypeOK, Pairing, NEW p \in Positions, KeyDown(p)
  PROVE  Pairing'
<1> DEFINE b == Resolve(p, active)
<1>1. /\ p \notin down /\ down' = down \cup {p} /\ misrouted' = misrouted
      /\ held' = [held EXCEPT ![p] = b]
  BY DEF KeyDown, PositionPressed
<1>2. /\ IF IsKeyPress(b)
         THEN /\ holding' = [holding EXCEPT ![p] = b.arg]
              /\ unpaired' = (unpaired \/ holding[p] # NoKey)
         ELSE holding' = holding /\ unpaired' = unpaired
  BY DEF KeyDown, KeycodePressed, hidVars
<1>3. held \in [Positions -> Bound] /\ holding \in [Positions -> Usages \cup {NoKey}]
  BY KeyboardAssumption DEF KeymapInv, KeymapTypeOK, HidTypeOK
<1> HIDE DEF b
<1>4. ~misrouted => holding[p] = NoKey
  BY <1>1 DEF Pairing, SourcesHold
<1>5. PairedByKeymap'
  BY <1>1, <1>2, <1>4 DEF Pairing, PairedByKeymap
<1>6. SourcesHold'
  <2> SUFFICES ASSUME ~misrouted, NEW q \in Positions
               PROVE  holding'[q] = IF q \in down' /\ IsKeyPress(held'[q])
                                    THEN held'[q].arg ELSE NoKey
    BY <1>1 DEF SourcesHold, IsKeyPress
  <2>1. CASE q = p
    BY <1>1, <1>2, <1>3, <1>4, <2>1
  <2>2. CASE q # p
    <3>1. holding'[q] = holding[q] /\ held'[q] = held[q] /\ (q \in down' <=> q \in down)
      BY <1>1, <1>2, <1>3, <2>2
    <3>2. holding[q] = IF q \in down /\ IsKeyPress(held[q]) THEN held[q].arg ELSE NoKey
      BY DEF Pairing, SourcesHold
    <3> QED
      BY <3>1, <3>2
  <2> QED
    BY <2>1, <2>2
<1> QED
  BY <1>5, <1>6 DEF Pairing

LEMMA ReleasedPairing ==
  ASSUME KeymapInv, HidTypeOK, Pairing, NEW p \in Positions, KeyUp(p)
  PROVE  Pairing'
<1> DEFINE b == Resolve(p, recorded[p])
<1>1. /\ p \in down /\ down' = down \ {p} /\ misrouted' = (misrouted \/ held[p] # b)
      /\ held' = [held EXCEPT ![p] = NoBinding]
  BY DEF KeyUp, PositionReleased
<1>2. /\ IF IsKeyPress(b)
         THEN /\ holding' = [holding EXCEPT ![p] = NoKey]
              /\ unpaired' = (unpaired \/ holding[p] # b.arg)
         ELSE holding' = holding /\ unpaired' = unpaired
  BY DEF KeyUp, KeycodeReleased, hidVars
<1>3. /\ held \in [Positions -> Bound] /\ holding \in [Positions -> Usages \cup {NoKey}]
      /\ misrouted \in BOOLEAN
  BY KeyboardAssumption DEF KeymapInv, KeymapTypeOK, HidTypeOK
<1> HIDE DEF b
<1>4. ~misrouted' => /\ ~misrouted /\ held[p] = b
                     /\ holding[p] = IF IsKeyPress(b) THEN b.arg ELSE NoKey
  BY <1>1, <1>3 DEF Pairing, SourcesHold
<1>5. PairedByKeymap'
  BY <1>1, <1>2, <1>3, <1>4 DEF Pairing, PairedByKeymap
<1>6. SourcesHold'
  <2> SUFFICES ASSUME ~misrouted', NEW q \in Positions
               PROVE  holding'[q] = IF q \in down' /\ IsKeyPress(held'[q])
                                    THEN held'[q].arg ELSE NoKey
    BY DEF SourcesHold, IsKeyPress
  <2>1. CASE q = p
    BY <1>1, <1>2, <1>3, <1>4, <2>1
  <2>2. CASE q # p
    <3>1. holding'[q] = holding[q] /\ held'[q] = held[q] /\ (q \in down' <=> q \in down)
      BY <1>1, <1>2, <1>3, <2>2
    <3>2. holding[q] = IF q \in down /\ IsKeyPress(held[q]) THEN held[q].arg ELSE NoKey
      BY <1>4 DEF Pairing, SourcesHold
    <3> QED
      BY <3>1, <3>2
  <2> QED
    BY <2>1, <2>2
<1> QED
  BY <1>5, <1>6 DEF Pairing

LEMMA OtherPairing ==
  ASSUME Pairing, UNCHANGED <<misrouted, down, held, holding, unpaired>>
  PROVE  Pairing'
BY DEF Pairing, SourcesHold, PairedByKeymap, IsKeyPress

\* Pairing holds in every state: key events keep it, and edits and endpoint changes leave
\* alone what it relates.
THEOREM KeyboardHolding == Spec => []Pairing
<1>1. Init => Pairing
  BY KeyboardAssumption DEF Init, KeymapInit, HidInit, Pairing, SourcesHold, PairedByKeymap
<1>2. KeymapInv /\ HidTypeOK /\ Pairing /\ [Next]_vars => Pairing'
  <2> SUFFICES ASSUME KeymapInv, HidTypeOK, Pairing, [Next]_vars PROVE Pairing'
    OBVIOUS
  <2>1. CASE EndpointChanged
    BY <2>1, OtherPairing DEF EndpointChanged, ClearReports, keymapVars
  <2>2. CASE Edit /\ UNCHANGED hidVars
    <3>1. UNCHANGED <<misrouted, down, held>>
      BY <2>2 DEF Edit, MoveLayer, RestoreLayer, AddLayer, RemoveLayer, EditOrder, WriteOrder,
                  SetLayerBinding, LeaveKeys
    <3> QED
      BY <2>2, <3>1, OtherPairing DEF hidVars
  <2>3. CASE UNCHANGED vars
    BY <2>3, OtherPairing DEF vars
  <2> QED
    BY <2>1, <2>2, <2>3, PressedPairing, ReleasedPairing DEF Next
<1> QED
  BY <1>1, <1>2, KeyboardImplementsKeymap, KeymapInvariant, KeyboardImplementsHid, HidTyping,
     PTL DEF Spec

\* Hid's assumption that presses and releases come in pairs is the keymap's guarantee.
THEOREM KeyboardPairing == Spec => []PairedByKeymap
<1>1. Pairing => PairedByKeymap
  BY DEF Pairing
<1> QED
  BY <1>1, KeyboardHolding, PTL

\* With all keys up the host holds nothing and no momentary layer is left on, unless an
\* edit has sent the release of a key elsewhere.
THEOREM KeyboardAtRest == Spec => []NothingStuck
<1>1. Pairing /\ KeymapInv /\ NothingHeldNothingSent => NothingStuck
  <2> SUFFICES ASSUME Pairing, KeymapInv, NothingHeldNothingSent, down = {}, ~misrouted
               PROVE  host = EmptyReport /\ active \subseteq locks \cup {Default}
    BY DEF NothingStuck
  <2>1. ~unpaired /\ AllAtRest
    BY KeyboardAssumption DEF Pairing, SourcesHold, PairedByKeymap, AllAtRest
  <2>2. active \subseteq locks \cup {Default}
    BY DEF KeymapInv, MomentaryHeld
  <2> QED
    BY <2>1, <2>2 DEF NothingHeldNothingSent
<1> QED
  BY <1>1, KeyboardHolding, KeyboardImplementsKeymap, KeymapInvariant, KeyboardImplementsHid,
     HidAtRest, PTL

\* The variables of both components keep their types.
THEOREM KeyboardTyping == Spec => []TypeOK
<1>1. KeymapInv /\ HidInv => TypeOK
  BY DEF KeymapInv, HidInv, TypeOK
<1> QED
  BY <1>1, KeyboardImplementsKeymap, KeymapInvariant, KeyboardImplementsHid, HidInvariant, PTL

\* What the keymap promises, of the whole: no layer is on without a lock or a key.
THEOREM KeyboardLayers == Spec => []LayersFollowKeys
<1>1. KeymapInv => LayersFollowKeys
  BY DEF KeymapInv, LayersFollowKeys
<1> QED
  BY <1>1, KeyboardImplementsKeymap, KeymapInvariant, PTL

\* What the report state promises, of the whole: no key or modifier in the reports, or at
\* the host, without a binding that holds it.
THEOREM KeyboardReports == Spec => []ReportsFollowKeys
<1>1. HidInv => ReportsFollowKeys
  BY DEF HidInv, ReportsFollowKeys
<1> QED
  BY <1>1, KeyboardImplementsHid, HidInvariant, PTL

\* And the action properties
THEOREM KeyboardSteps == Spec => ReleaseFollowsPress /\ FreshPress
BY KeyboardImplementsKeymap, KeymapReleases, KeyboardImplementsHid, HidFreshPress

-----------------------------------------------------------------------------
(* Output: types *)

EpType == [current : Instances, preferred : {"usb", "ble"}]
HistType == [lost : BOOLEAN, twice : BOOLEAN, started : BOOLEAN]
HogType == [queue : Seq(0 .. 1), running : BOOLEAN]
ViewType == [Hosts \cup {"usb"} -> 0 .. 1]

Types ==
  /\ ble \in BleStates /\ works \subseteq Works /\ bonded \subseteq Hosts
  /\ usb \in {"none", "ready", "suspended"}
  /\ ep \in EpType /\ flash \in [active : Profiles, preferred : {"usb", "ble"}]
  /\ keyReport \in 0 .. 1 /\ view \in ViewType
  /\ hog \in HogType /\ Len(hog.queue) <= QueueSize
  /\ history \in HistType

-----------------------------------------------------------------------------
(* The operators *)

\* update_advertising changes nothing but what is on the air
LEMMA Advertised ==
  ASSUME NEW b \in BleStates
  PROVE  /\ UpdateAdvertising(b) \in BleStates
         /\ UpdateAdvertising(b).bond = b.bond /\ UpdateAdvertising(b).active = b.active
         /\ UpdateAdvertising(b).up = b.up /\ UpdateAdvertising(b).linked = b.linked
         /\ UpdateAdvertising(b).pairing = b.pairing
         /\ b.up => UpdateAdvertising(b).adv = ~ActiveConnected(b)
BY DEF UpdateAdvertising, BleStates, ActiveConnected

\* The queue of reports keeps the newest
LEMMA PutNewestLast ==
  ASSUME NEW q \in Seq(0 .. 1), Len(q) <= QueueSize, NEW r \in 0 .. 1
  PROVE  /\ Put(q, r) \in Seq(0 .. 1) /\ Len(Put(q, r)) <= QueueSize
         /\ Put(q, r) # <<>> /\ Put(q, r)[Len(Put(q, r))] = r
<1> DEFINE kept == IF Len(q) = QueueSize THEN Tail(q) ELSE q
<1>1. kept \in Seq(0 .. 1) /\ Len(kept) \in Nat /\ Len(kept) + 1 <= QueueSize
  <2>1. CASE Len(q) = QueueSize
    <3>1. q # <<>>
      BY <2>1, OutputAssumption, EmptySeq
    <3>2. Tail(q) \in Seq(0 .. 1) /\ Len(Tail(q)) = Len(q) - 1
      BY <3>1, HeadTailProperties
    <3> QED
      BY <2>1, <3>2, OutputAssumption
  <2>2. CASE Len(q) # QueueSize
    BY <2>2, OutputAssumption, LenProperties
  <2> QED
    BY <2>1, <2>2
<1>2. Put(q, r) = Append(kept, r)
  BY DEF Put
<1> HIDE DEF kept
<1>3. /\ Append(kept, r) \in Seq(0 .. 1) /\ Append(kept, r) # <<>>
      /\ Len(Append(kept, r)) = Len(kept) + 1 /\ Append(kept, r)[Len(kept) + 1] = r
  BY <1>1, AppendProperties
<1> QED
  BY <1>1, <1>2, <1>3

LEMMA LastOfTail ==
  ASSUME NEW S, NEW q \in Seq(S), q # <<>>
  PROVE  /\ Head(q) \in S /\ Tail(q) \in Seq(S) /\ Len(Tail(q)) = Len(q) - 1
         /\ Len(q) \in Nat /\ Len(q) >= 1
         /\ Tail(q) = <<>> <=> Len(q) = 1
         /\ Tail(q) = <<>> => Head(q) = q[Len(q)]
         /\ Tail(q) # <<>> => Tail(q)[Len(Tail(q))] = q[Len(q)]
<1>1. Len(q) \in Nat \ {0}
  BY EmptySeq
<1>2. /\ Head(q) \in S /\ Tail(q) \in Seq(S) /\ Len(Tail(q)) = Len(q) - 1
      /\ \A i \in 1 .. Len(Tail(q)) : Tail(q)[i] = q[i + 1]
  BY HeadTailProperties
<1>3. Head(q) = q[1]
  OBVIOUS
<1>4. Tail(q) = <<>> => Len(q) = 1
  BY <1>1, <1>2, EmptySeq
<1>5. Tail(q) # <<>> => Len(Tail(q)) \in Nat \ {0}
  BY <1>2, EmptySeq
<1>6. Tail(q) # <<>> => Tail(q)[Len(Tail(q))] = q[Len(q)]
  BY <1>1, <1>2, <1>5
<1>7. Len(q) = 1 => Tail(q) = <<>>
  BY <1>2, <1>5
<1> QED
  BY <1>1, <1>2, <1>3, <1>4, <1>6, <1>7

\* A report is at the host, or the last one of the queue
Delivered(e, h, v, r) ==
  IF e.current[1] = "usb" THEN v["usb"] = r
  ELSE h.queue # <<>> /\ h.queue[Len(h.queue)] = r

LEMMA SendSound ==
  ASSUME Types, NEW e \in EpType, NEW r \in 0 .. 1, NEW hist \in HistType, SendReport(e, r, hist)
  PROVE  /\ hog' \in HogType /\ Len(hog'.queue) <= QueueSize /\ view' \in ViewType
         /\ history' \in HistType
         /\ history'.twice = hist.twice /\ history'.started = hist.started
         /\ ~history'.lost => Delivered(e, hog', view', r)
<1>0. e.current[1] \in {"usb", "ble"}
  BY DEF EpType, Instances
<1>1. CASE e.current[1] = "ble"
  <2>1. /\ hog' = [queue |-> Put(hog.queue, r), running |-> TRUE]
        /\ history' = [hist EXCEPT !.lost = FALSE] /\ view' = view
    BY <1>1 DEF SendReport
  <2>2. /\ Put(hog.queue, r) \in Seq(0 .. 1) /\ Len(Put(hog.queue, r)) <= QueueSize
        /\ Put(hog.queue, r) # <<>> /\ Put(hog.queue, r)[Len(Put(hog.queue, r))] = r
    BY PutNewestLast DEF Types, HogType
  <2> HIDE DEF Put
  <2>3. hog' \in HogType /\ hog'.queue = Put(hog.queue, r)
    BY <2>1, <2>2 DEF HogType
  <2>4. history' \in HistType /\ history'.twice = hist.twice /\ history'.started = hist.started
    BY <2>1 DEF HistType
  <2> QED
    BY <1>1, <2>1, <2>2, <2>3, <2>4 DEF Types, Delivered
<1>2. CASE e.current[1] = "usb"
  <2>1. /\ view' = IF usb = "ready" THEN [view EXCEPT !["usb"] = r] ELSE view
        /\ history' = [hist EXCEPT !.lost = (usb # "ready")] /\ hog' = hog
    BY <1>2 DEF SendReport
  <2>2. /\ history' \in HistType /\ history'.twice = hist.twice /\ history'.started = hist.started
        /\ history'.lost = (usb # "ready")
    BY <2>1 DEF HistType
  <2>3. view' \in ViewType /\ (usb = "ready" => view'["usb"] = r)
    BY <2>1 DEF Types, ViewType
  <2> QED
    BY <1>2, <2>1, <2>2, <2>3 DEF Types, Delivered
<1> QED
  BY <1>0, <1>1, <1>2

LEMMA Selected ==
  ASSUME NEW e \in EpType, NEW b \in BleStates
  PROVE  /\ SelectedInstance(e, b) \in Instances
         /\ SelectedInstance(e, b)[1] = "ble" => SelectedInstance(e, b)[2] = b.active
BY DEF SelectedInstance, EpType, Instances, BleStates

\* update_current_endpoint: nothing happens, or the new endpoint gets the empty report
LEMMA UpdateSound ==
  ASSUME Types, NEW e \in EpType, NEW b \in BleStates, NEW hist \in HistType, UpdateCurrent(e, b, hist)
  PROVE  /\ ep' \in EpType /\ ep'.preferred = e.preferred
         /\ ep'.current = SelectedInstance(e, b) /\ ep'.current = SelectedInstance(ep', b)
         /\ keyReport' \in 0 .. 1 /\ hog' \in HogType /\ Len(hog'.queue) <= QueueSize /\ view' \in ViewType
         /\ history' \in HistType /\ history'.started = FALSE /\ history'.twice = hist.twice
         /\ \/ /\ ep'.current = e.current /\ UNCHANGED <<keyReport, hog, view>>
               /\ history'.lost = (hist.lost \/ hist.started)
            \/ ~history'.lost => Delivered(ep', hog', view', keyReport')
<1> DEFINE to == [e EXCEPT !.current = SelectedInstance(e, b)]
           at == [hist EXCEPT !.started = FALSE, !.lost = @ \/ hist.started]
<1>1. /\ ep' = to
      /\ IF to.current # e.current THEN keyReport' = 0 /\ SendReport(to, 0, at)
         ELSE history' = at /\ UNCHANGED <<keyReport, hog, view>>
  BY DEF UpdateCurrent
<1>2. /\ to \in EpType /\ to.preferred = e.preferred /\ to.current = SelectedInstance(e, b)
  BY Selected DEF EpType
<1>3. SelectedInstance(to, b) = SelectedInstance(e, b)
  BY <1>2 DEF SelectedInstance
<1>4. at \in HistType /\ at.started = FALSE /\ at.twice = hist.twice /\ at.lost = (hist.lost \/ hist.started)
  BY DEF HistType
<1> HIDE DEF to, at
<1>5. CASE to.current # e.current
  <2>1. 0 \in 0 .. 1 /\ keyReport' = 0 /\ SendReport(to, 0, at)
    BY <1>1, <1>5
  <2>2. /\ hog' \in HogType /\ Len(hog'.queue) <= QueueSize /\ view' \in ViewType
        /\ history' \in HistType
        /\ history'.twice = at.twice /\ history'.started = at.started
        /\ ~history'.lost => Delivered(to, hog', view', 0)
    BY <1>2, <1>4, <2>1, SendSound
  <2> QED
    BY <1>1, <1>2, <1>3, <1>4, <2>1, <2>2
<1>6. CASE to.current = e.current
  BY <1>1, <1>2, <1>3, <1>4, <1>6 DEF Types
<1> QED
  BY <1>5, <1>6
-----------------------------------------------------------------------------
(* What each action does to the profiles, field by field *)

LEMMA SelectProfileDoes ==
  ASSUME Types, NEW i \in Profiles, SelectProfile(i)
  PROVE  /\ i # ble.active /\ ble' \in BleStates /\ ble'.bond = ble.bond /\ ble'.active = i
         /\ ble'.up = ble.up /\ (ble.up => ble'.adv = ~ActiveConnected(ble'))
         /\ works' = works \cup {"save_profile"} /\ UpdateCurrent(ep, ble', history)
         /\ UNCHANGED <<bonded, usb, flash>>
<1> DEFINE b == [ble EXCEPT !.active = i]
<1>1. /\ i # ble.active /\ ble' = UpdateAdvertising(b)
      /\ works' = works \cup {"save_profile"} /\ UpdateCurrent(ep, ble', history)
      /\ UNCHANGED <<bonded, usb, flash>>
  BY DEF SelectProfile, ProfSelect
<1>2. b \in BleStates /\ b.bond = ble.bond /\ b.active = i /\ b.up = ble.up
  BY DEF Types, BleStates
<1> HIDE DEF b
<1>3. ActiveConnected(UpdateAdvertising(b)) = ActiveConnected(b)
  BY <1>2, Advertised DEF ActiveConnected
<1> QED
  BY <1>1, <1>2, <1>3, Advertised

LEMMA ClearBondsDoes ==
  ASSUME Types, ClearBonds
  PROVE  /\ ble.bond[ble.active] # Nobody
         /\ ble' \in BleStates /\ ble'.bond = [ble.bond EXCEPT ![ble.active] = Nobody]
         /\ ble'.active = ble.active /\ ble'.up = ble.up /\ (ble.up => ble'.adv = ~ActiveConnected(ble'))
         /\ bonded' = bonded \ {ble.bond[ble.active]} /\ works' = works \cup {"profile"}
         /\ history' = [history EXCEPT !.lost = TRUE]
         /\ UNCHANGED <<usb, ep, flash, keyReport, hog, view>>
<1> DEFINE b == [ble EXCEPT !.bond[ble.active] = Nobody]
<1>1. /\ ble.bond[ble.active] # Nobody /\ ble' = UpdateAdvertising(b)
      /\ bonded' = bonded \ {ble.bond[ble.active]} /\ works' = works \cup {"profile"}
      /\ history' = [history EXCEPT !.lost = TRUE]
      /\ UNCHANGED <<usb, ep, flash, keyReport, hog, view>>
  BY DEF ClearBonds, Orphan, IsOpen
<1>2. /\ b \in BleStates /\ b.bond = [ble.bond EXCEPT ![ble.active] = Nobody] /\ b.active = ble.active
      /\ b.up = ble.up
  BY DEF Types, BleStates
<1> HIDE DEF b
<1>3. ActiveConnected(UpdateAdvertising(b)) = ActiveConnected(b)
  BY <1>2, Advertised DEF ActiveConnected
<1> QED
  BY <1>1, <1>2, <1>3, Advertised

LEMMA ClearAllBondsDoes ==
  ASSUME Types, ClearAllBonds
  PROVE  /\ ble' \in BleStates /\ ble'.bond = [i \in Profiles |-> Nobody] /\ ble'.active = 0
         /\ ble'.up = ble.up /\ (ble.up => ble'.adv = ~ActiveConnected(ble'))
         /\ "profile" \in works' /\ works' \subseteq Works /\ works \subseteq works'
         /\ bonded' = bonded \ {ble.bond[i] : i \in Profiles}
         /\ UNCHANGED <<usb, flash>>
         /\ IF ble.active = 0
            THEN history' = [history EXCEPT !.lost = TRUE] /\ UNCHANGED <<ep, keyReport, hog, view>>
            ELSE UpdateCurrent(ep, ble', [history EXCEPT !.lost = TRUE])
<1> DEFINE c == [ble EXCEPT !.bond = [i \in Profiles |-> Nobody]]
           b == [c EXCEPT !.active = 0]
<1>1. /\ ble' = UpdateAdvertising(b)
      /\ works' = works \cup {"profile"} \cup (IF ble.active = 0 THEN {} ELSE {"save_profile"})
      /\ bonded' = bonded \ {ble.bond[i] : i \in Profiles}
      /\ UNCHANGED <<usb, flash>>
      /\ IF ble.active = 0
         THEN history' = [history EXCEPT !.lost = TRUE] /\ UNCHANGED <<ep, keyReport, hog, view>>
         ELSE UpdateCurrent(ep, ble', [history EXCEPT !.lost = TRUE])
  BY DEF ClearAllBonds, Orphan
<1>2. b \in BleStates /\ b.bond = [i \in Profiles |-> Nobody] /\ b.active = 0 /\ b.up = ble.up
  BY BleAssumption DEF Types, BleStates
<1> HIDE DEF b
<1>3. ActiveConnected(UpdateAdvertising(b)) = ActiveConnected(b)
  BY <1>2, Advertised DEF ActiveConnected
<1>4. "profile" \in works' /\ works' \subseteq Works /\ works \subseteq works'
  BY <1>1 DEF Types, Works
<1> QED
  BY <1>1, <1>2, <1>3, <1>4, Advertised

LEMMA StudioUnpairsDoes ==
  ASSUME Types, NEW i \in Profiles, StudioUnpairs(i)
  PROVE  /\ i # ble.active /\ ble.bond[i] # Nobody
         /\ ble' \in BleStates /\ ble'.bond = [ble.bond EXCEPT ![i] = Nobody]
         /\ ble'.active = ble.active /\ ble'.up = ble.up /\ ble'.adv = ble.adv /\ ble'.linked = ble.linked
         /\ bonded' = bonded \ {ble.bond[i]} /\ works' = works \cup {"profile"}
         /\ UNCHANGED <<usb, ep, flash, keyReport, hog, view, history>>
BY DEF StudioUnpairs, Types, BleStates

LEMMA StudioUnpairsKeeps ==
  ASSUME Types, NEW i \in Profiles, StudioUnpairs(i)
  PROVE  ble'.bond[ble'.active] = ble.bond[ble.active]
<1>1. /\ ble.bond \in [Profiles -> Hosts \cup {Nobody}] /\ ble.active \in Profiles
      /\ ble'.bond = [ble.bond EXCEPT ![i] = Nobody] /\ ble'.active = ble.active /\ i # ble.active
  BY StudioUnpairsDoes DEF Types, BleStates
<1> QED
  BY <1>1

\* A host connects or disconnects
LEMMA HostConnectsDoes ==
  ASSUME Types, NEW h \in Hosts, HostConnects(h)
  PROVE  /\ ble' \in BleStates /\ ble'.bond = ble.bond /\ ble'.active = ble.active /\ ble'.up = ble.up
         /\ ble'.linked = ble.linked \cup {h} /\ (ble.up => ble'.adv = ~ActiveConnected(ble'))
         /\ works' = works \cup IfActive(h)
         /\ UNCHANGED <<bonded, usb, ep, flash, keyReport, hog, view, history>>
<1> DEFINE b == [ble EXCEPT !.linked = @ \cup {h}, !.adv = FALSE]
<1>1. /\ ble' = UpdateAdvertising(b) /\ works' = works \cup IfActive(h)
      /\ UNCHANGED <<bonded, usb, ep, flash, keyReport, hog, view, history>>
  BY DEF HostConnects, Connected
<1>2. /\ b \in BleStates /\ b.bond = ble.bond /\ b.active = ble.active /\ b.up = ble.up
      /\ b.linked = ble.linked \cup {h}
  BY DEF Types, BleStates
<1> HIDE DEF b
<1>3. ActiveConnected(UpdateAdvertising(b)) = ActiveConnected(b)
  BY <1>2, Advertised DEF ActiveConnected
<1> QED
  BY <1>1, <1>2, <1>3, Advertised

LEMMA HostDisconnectsDoes ==
  ASSUME Types, NEW h \in Hosts, HostDisconnects(h)
  PROVE  /\ ble' \in BleStates /\ ble'.bond = ble.bond /\ ble'.active = ble.active /\ ble'.up = ble.up
         /\ ble'.linked = ble.linked \ {h} /\ works' = works \cup {"advertising"} \cup IfActive(h)
         /\ view' = [view EXCEPT ![h] = 0]
         /\ history' = [history EXCEPT !.lost = @ \/ ble.bond[ble.active] = h]
         /\ UNCHANGED <<bonded, usb, ep, flash, keyReport, hog>>
BY DEF HostDisconnects, Disconnected, IsActiveProfile, Types, BleStates

LEMMA PairingAcceptDoes ==
  ASSUME Types, NEW h \in Hosts, PairingAccept(h)
  PROVE  /\ ble' \in BleStates /\ ble'.bond = ble.bond /\ ble'.active = ble.active /\ ble'.up = ble.up
         /\ ble'.linked = ble.linked /\ ble'.adv = ble.adv
         /\ UNCHANGED <<works, bonded, usb, ep, flash, keyReport, hog, view, history>>
BY DEF PairingAccept, Types, BleStates

\* A pairing that completes takes the active profile, or is undone
PairingTaken(h) ==
  /\ ble.bond[ble.active] \in {h, Nobody}
  /\ ble'.bond = [ble.bond EXCEPT ![ble.active] = h]
  /\ ble.up => ble'.adv = ~ActiveConnected(ble')
  /\ bonded' = bonded \cup {h} /\ works' = works \cup {"profile"}
  /\ history' = [history EXCEPT !.lost = TRUE, !.twice = @ \/
                   \E i \in Profiles \ {ble.active} : ble.bond[i] = h]
PairingUndone(h) ==
  /\ ble'.bond = ble.bond /\ ble'.linked = ble.linked /\ ble'.adv = ble.adv
  /\ bonded' = bonded \ {h} /\ works' = works
  /\ history' = [history EXCEPT !.twice = @ \/ \E i \in Profiles : ble.bond[i] = h]

LEMMA PairingCompleteDoes ==
  ASSUME Types, NEW h \in Hosts, PairingComplete(h)
  PROVE  /\ ble' \in BleStates /\ ble'.active = ble.active /\ ble'.up = ble.up
         /\ PairingTaken(h) \/ PairingUndone(h)
         /\ UNCHANGED <<usb, ep, flash, keyReport, hog, view>>
<1> DEFINE done == [ble EXCEPT !.pairing = @ \ {h}]
           b == [done EXCEPT !.bond[ble.active] = h]
<1>1. UNCHANGED <<usb, ep, flash, keyReport, hog, view>>
  BY DEF PairingComplete
<1>2. CASE PairingAllowed(h)
  <2>1. /\ ble' = UpdateAdvertising(b) /\ bonded' = bonded \cup {h} /\ works' = works \cup {"profile"}
        /\ history' = [history EXCEPT !.lost = TRUE, !.twice = @ \/
                         \E i \in Profiles \ {ble.active} : ble.bond[i] = h]
        /\ ble.bond[ble.active] \in {h, Nobody}
    BY <1>2 DEF PairingComplete, PairingAllowed, IsOpen, IsActiveProfile
  <2>2. /\ b \in BleStates /\ b.bond = [ble.bond EXCEPT ![ble.active] = h] /\ b.active = ble.active
        /\ b.up = ble.up
    BY DEF Types, BleStates
  <2> HIDE DEF b
  <2>3. ActiveConnected(UpdateAdvertising(b)) = ActiveConnected(b)
    BY <2>2, Advertised DEF ActiveConnected
  <2> QED
    BY <1>1, <2>1, <2>2, <2>3, Advertised DEF PairingTaken
<1>3. CASE ~PairingAllowed(h)
  <2>1. /\ ble' = done /\ bonded' = bonded \ {h} /\ works' = works
        /\ history' = [history EXCEPT !.twice = @ \/ \E i \in Profiles : ble.bond[i] = h]
    BY <1>3 DEF PairingComplete
  <2>2. /\ done \in BleStates /\ done.bond = ble.bond /\ done.active = ble.active /\ done.up = ble.up
        /\ done.linked = ble.linked /\ done.adv = ble.adv
    BY DEF Types, BleStates
  <2> HIDE DEF done
  <2> QED
    BY <1>1, <2>1, <2>2 DEF PairingUndone
<1> QED
  BY <1>2, <1>3

LEMMA AdvertiseWorkDoes ==
  ASSUME Types, AdvertiseWork
  PROVE  /\ ble' \in BleStates /\ ble'.bond = ble.bond /\ ble'.active = ble.active /\ ble'.up = ble.up
         /\ ble'.linked = ble.linked /\ (ble.up => ble'.adv = ~ActiveConnected(ble'))
         /\ works' = works \ {"advertising"}
         /\ UNCHANGED <<bonded, usb, ep, flash, keyReport, hog, view, history>>
<1>1. /\ ble' = UpdateAdvertising(ble) /\ works' = works \ {"advertising"}
      /\ UNCHANGED <<bonded, usb, ep, flash, keyReport, hog, view, history>>
  BY DEF AdvertiseWork, AdvertisingWork
<1>2. ActiveConnected(UpdateAdvertising(ble)) = ActiveConnected(ble)
  BY Advertised DEF ActiveConnected, Types
<1> QED
  BY <1>1, <1>2, Advertised DEF Types

LEMMA RestartDoes ==
  ASSUME Types, Restart
  PROVE  /\ ble' \in BleStates /\ ble'.bond = ble.bond /\ ble'.active = flash.active
         /\ ble'.up /\ ble'.adv = ~ActiveConnected(ble')
         /\ ep' = [current |-> <<"ble", 0>>, preferred |-> flash.preferred]
         /\ works' = {} /\ usb' = "none" /\ keyReport' = 0
         /\ hog' = [queue |-> <<>>, running |-> FALSE]
         /\ view' = [t \in Hosts \cup {"usb"} |-> 0]
         /\ history' = [history EXCEPT !.lost = TRUE, !.started = TRUE]
         /\ UNCHANGED <<bonded, flash>>
<1> DEFINE off == [ble EXCEPT !.active = flash.active, !.adv = FALSE, !.up = FALSE,
                              !.linked = {}, !.pairing = {}]
           b == [off EXCEPT !.up = TRUE]
<1>1. /\ ble' = BleStart(off)
      /\ ep' = [current |-> <<"ble", 0>>, preferred |-> flash.preferred]
      /\ works' = {} /\ usb' = "none" /\ keyReport' = 0
      /\ hog' = [queue |-> <<>>, running |-> FALSE]
      /\ view' = [t \in Hosts \cup {"usb"} |-> 0]
      /\ history' = [history EXCEPT !.lost = TRUE, !.started = TRUE]
      /\ UNCHANGED <<bonded, flash>>
  BY DEF Restart
<1>2. off \in BleStates /\ off.up = FALSE /\ off.bond = ble.bond /\ off.active = flash.active
  BY DEF Types, BleStates
<1>3. ble' = UpdateAdvertising(b)
  BY <1>1, <1>2 DEF BleStart
<1> HIDE DEF off
<1>4. b \in BleStates /\ b.up = TRUE /\ b.bond = ble.bond /\ b.active = flash.active
  BY <1>2 DEF BleStates
<1> HIDE DEF b
<1>5. ActiveConnected(UpdateAdvertising(b)) = ActiveConnected(b)
  BY <1>4, Advertised DEF ActiveConnected
<1> QED
  BY <1>1, <1>3, <1>4, <1>5, Advertised

LEMMA Replaced ==
  ASSUME NEW S, NEW h \in [queue : S, running : BOOLEAN], NEW q \in S,
         NEW r, r = [queue |-> q, running |-> FALSE] \/ r = [h EXCEPT !.queue = q]
  PROVE  r \in [queue : S, running : BOOLEAN] /\ r.queue = q
<1>1. CASE r = [queue |-> q, running |-> FALSE]
  BY <1>1
<1>2. CASE r = [h EXCEPT !.queue = q]
  BY <1>2
<1> QED
  BY <1>1, <1>2

\* The work queue of hog.c hands one report to the stack
LEMMA HogRoundDoes ==
  ASSUME Types, HogRound
  PROVE  /\ UNCHANGED <<ble, works, bonded, usb, ep, flash, keyReport>>
         /\ hog' \in HogType /\ Len(hog'.queue) <= QueueSize /\ view' \in ViewType
         /\ history' \in HistType /\ history'.twice = history.twice
         /\ history'.started = history.started /\ view'["usb"] = view["usb"]
         /\ ~history'.lost =>
              /\ ~history.lost
              /\ IF hog'.queue # <<>>
                 THEN hog.queue # <<>> /\ hog'.queue[Len(hog'.queue)] = hog.queue[Len(hog.queue)]
                 ELSE IF hog.queue # <<>> THEN view'[ble.bond[ble.active]] = hog.queue[Len(hog.queue)]
                 ELSE view' = view
<1> DEFINE q == hog.queue
           last == Len(q) = 1
           target == ble.bond[ble.active]
           hist == [history EXCEPT !.lost = @ \/ last]
<1>0. /\ hog.running
      /\ IF q = <<>> THEN hog' = [hog EXCEPT !.running = FALSE] /\ UNCHANGED <<view, history>>
         ELSE IF ~ActiveConnected(ble)
         THEN hog' = [queue |-> Tail(q), running |-> FALSE] /\ history' = hist /\ UNCHANGED view
         ELSE /\ hog' = [hog EXCEPT !.queue = Tail(@)]
              /\ \/ view' = [view EXCEPT ![target] = Head(q)] /\ UNCHANGED history
                 \/ history' = hist /\ UNCHANGED view
      /\ UNCHANGED <<ble, works, bonded, usb, ep, flash, keyReport>>
  BY DEF HogRound
<1>1. /\ q \in Seq(0 .. 1) /\ Len(q) <= QueueSize /\ hog \in HogType /\ view \in ViewType
      /\ history \in HistType
  BY DEF Types, HogType
<1>2. /\ hist \in HistType /\ hist.twice = history.twice /\ hist.started = history.started
      /\ hist.lost = (history.lost \/ last)
  BY <1>1 DEF HistType
<1>3. CASE q = <<>>
  <2>1. hog' \in HogType /\ hog'.queue = q /\ view' = view /\ history' = history
    BY <1>0, <1>1, <1>3 DEF HogType
  <2> QED
    BY <1>0, <1>1, <1>3, <2>1
<1>4. CASE q # <<>>
  <2>1. /\ Head(q) \in 0 .. 1 /\ Tail(q) \in Seq(0 .. 1) /\ Len(Tail(q)) = Len(q) - 1
        /\ Len(q) \in Nat /\ Len(q) >= 1
        /\ Tail(q) = <<>> <=> last
        /\ Tail(q) = <<>> => Head(q) = q[Len(q)]
        /\ Tail(q) # <<>> => Tail(q)[Len(Tail(q))] = q[Len(q)]
    BY <1>1, <1>4, LastOfTail
  <2>2. Len(Tail(q)) <= QueueSize
    BY <1>1, <2>1, OutputAssumption
  <2>3. hog' \in HogType /\ hog'.queue = Tail(q)
    <3>1. hog' = [queue |-> Tail(q), running |-> FALSE] \/ hog' = [hog EXCEPT !.queue = Tail(q)]
      BY <1>0, <1>4
    <3> QED
      BY <1>1, <2>1, <3>1, Replaced DEF HogType
  <2>4. CASE history' = hist /\ view' = view
    BY <1>0, <1>1, <1>2, <1>4, <2>1, <2>2, <2>3, <2>4
  <2>5. CASE ActiveConnected(ble) /\ view' = [view EXCEPT ![target] = Head(q)] /\ history' = history
    <3>1. target \in Hosts /\ target # "usb"
      BY <2>5, OutputAssumption DEF ActiveConnected, Types, BleStates
    <3>2. view' \in ViewType /\ view'["usb"] = view["usb"] /\ view'[target] = Head(q)
      BY <1>1, <2>1, <2>5, <3>1 DEF ViewType
    <3> QED
      BY <1>0, <1>1, <1>4, <2>1, <2>2, <2>3, <2>5, <3>2
  <2> QED
    BY <1>0, <1>4, <2>4, <2>5
<1> QED
  BY <1>3, <1>4

LEMMA TypeDoes ==
  ASSUME Types, Type
  PROVE  /\ UNCHANGED <<ble, works, bonded, usb, ep, flash>>
         /\ keyReport' \in 0 .. 1 /\ hog' \in HogType /\ Len(hog'.queue) <= QueueSize /\ view' \in ViewType
         /\ history' \in HistType /\ history'.twice = history.twice
         /\ history'.started = history.started
         /\ ~history'.lost => Delivered(ep, hog', view', keyReport')
<1>1. 1 - keyReport \in 0 .. 1 /\ ep \in EpType /\ history \in HistType
  BY DEF Types
<1>2. /\ keyReport' = 1 - keyReport /\ SendReport(ep, 1 - keyReport, history)
      /\ UNCHANGED <<ble, works, bonded, usb, ep, flash>>
  BY DEF Type
<1> QED
  BY <1>1, <1>2, SendSound

LEMMA UsbChangesDoes ==
  ASSUME Types, NEW status \in {"none", "ready", "suspended"}, UsbChanges(status)
  PROVE  /\ usb' = status /\ works' = works \cup {"usb"} /\ view' \in ViewType
         /\ \A h \in Hosts : view'[h] = view[h]
         /\ view'["usb"] = view["usb"] \/ (view'["usb"] = 0 /\ status = "none")
         /\ history' \in HistType /\ history'.twice = history.twice /\ history'.started = history.started
         /\ ~history'.lost => ~history.lost /\ (ep.current[1] = "usb" => status # "none")
         /\ UNCHANGED <<ble, bonded, ep, flash, keyReport, hog>>
<1>1. /\ usb' = status /\ works' = works \cup {"usb"}
      /\ view' = IF status = "none" THEN [view EXCEPT !["usb"] = 0] ELSE view
      /\ history' = [history EXCEPT !.lost = @ \/ (ep.current[1] = "usb" /\ status = "none")]
      /\ UNCHANGED <<ble, bonded, ep, flash, keyReport, hog>>
  BY DEF UsbChanges
<1>2. /\ view' \in ViewType /\ \A h \in Hosts : view'[h] = view[h]
      /\ view'["usb"] = view["usb"] \/ (view'["usb"] = 0 /\ status = "none")
  BY <1>1, OutputAssumption DEF Types, ViewType
<1>3. /\ history' \in HistType /\ history'.twice = history.twice /\ history'.started = history.started
      /\ ~history'.lost => ~history.lost /\ (ep.current[1] = "usb" => status # "none")
  BY <1>1 DEF Types, HistType
<1> QED
  BY <1>1, <1>2, <1>3
-----------------------------------------------------------------------------
(* The invariant *)

AdvInv == ble.up /\ Advertises
FollowInv ==
  /\ EndpointFollows
  /\ ~history.started /\ ep.current[1] = "ble" => ep.current[2] = ble.active
Bonds(b) == {b[i] : i \in Profiles} \ {Nobody}
BondsInv ==
  ~history.twice =>
    /\ bonded = Bonds(ble.bond)
    /\ \A i, j \in Profiles : ble.bond[i] = ble.bond[j] /\ ble.bond[i] # Nobody => i = j
Arrived ==
  IF ep.current[1] = "usb" THEN view["usb"] = keyReport
  ELSE IF hog.queue # <<>> THEN hog.queue[Len(hog.queue)] = keyReport
  ELSE ble.bond[ble.active] # Nobody => view[ble.bond[ble.active]] = keyReport
ArriveInv == ~history.lost /\ ~history.started => Arrived

OutputInv == Types /\ AdvInv /\ FollowInv /\ BondsInv /\ ArriveInv

LEMMA TypesInit == OutputInit => Types
<1> SUFFICES ASSUME OutputInit
             PROVE  Types
  OBVIOUS
<1>1. PICK bond \in [Profiles -> Hosts \cup {Nobody}] :
        /\ ble = [bond |-> bond, active |-> 0, adv |-> TRUE, up |-> TRUE, linked |-> {}, pairing |-> {}]
        /\ bonded = {bond[i] : i \in Profiles} \ {Nobody}
  BY DEF OutputInit
<1>2. ble \in BleStates
  BY <1>1, BleAssumption DEF BleStates
<1>3. bonded \subseteq Hosts
  BY <1>1
<1>4. /\ works = {} /\ usb = "none" /\ keyReport = 0
      /\ ep = [current |-> <<"ble", 0>>, preferred |-> "usb"]
      /\ flash = [active |-> 0, preferred |-> "usb"]
      /\ hog = [queue |-> <<>>, running |-> FALSE]
      /\ view = [t \in Hosts \cup {"usb"} |-> 0]
      /\ history = [lost |-> FALSE, twice |-> FALSE, started |-> TRUE]
  BY DEF OutputInit
<1>5. ep \in EpType /\ flash \in [active : Profiles, preferred : {"usb", "ble"}]
  BY <1>4, BleAssumption DEF EpType, Instances
<1>6. hog \in HogType /\ Len(hog.queue) <= QueueSize
  <2>1. <<>> \in Seq(0 .. 1) /\ Len(<<>>) = 0
    BY EmptySeq
  <2>2. hog.queue = <<>>
    BY <1>4
  <2> QED
    BY <1>4, <2>1, <2>2, OutputAssumption DEF HogType
<1>7. view \in ViewType /\ history \in HistType /\ keyReport \in 0 .. 1
  BY <1>4 DEF ViewType, HistType
<1> QED
  BY <1>2, <1>3, <1>4, <1>5, <1>6, <1>7 DEF Types

LEMMA OutputStarts == OutputInit => OutputInv
<1> SUFFICES ASSUME OutputInit
             PROVE  OutputInv
  OBVIOUS
<1>1. PICK bond \in [Profiles -> Hosts \cup {Nobody}] :
        /\ \A i, j \in Profiles : bond[i] = bond[j] => i = j \/ bond[i] = Nobody
        /\ ble = [bond |-> bond, active |-> 0, adv |-> TRUE, up |-> TRUE, linked |-> {}, pairing |-> {}]
        /\ bonded = {bond[i] : i \in Profiles} \ {Nobody}
  BY DEF OutputInit
<1>2. history = [lost |-> FALSE, twice |-> FALSE, started |-> TRUE]
  BY DEF OutputInit
<1>3. AdvInv
  BY <1>1 DEF AdvInv, Advertises, ActiveConnected
<1>4. FollowInv /\ ArriveInv
  BY <1>2 DEF FollowInv, EndpointFollows, ArriveInv
<1>5. BondsInv
  BY <1>1 DEF BondsInv, Bonds
<1> QED
  BY <1>3, <1>4, <1>5, TypesInit DEF OutputInv

LEMMA TypesStep ==
  ASSUME Types, OutputNext
  PROVE  Types'
<1>0. ep \in EpType /\ history \in HistType /\ [history EXCEPT !.lost = TRUE] \in HistType
  BY DEF Types, HistType
<1>1. CASE Type
  BY <1>1, TypeDoes DEF Types
<1>2. CASE HogRound
  BY <1>2, HogRoundDoes DEF Types
<1>3. ASSUME NEW i \in Profiles, SelectProfile(i)
      PROVE  Types'
  <2>1. /\ ble' \in BleStates /\ works' = works \cup {"save_profile"} /\ UpdateCurrent(ep, ble', history)
        /\ UNCHANGED <<bonded, usb, flash>>
    BY <1>3, SelectProfileDoes
  <2>2. /\ ep' \in EpType /\ keyReport' \in 0 .. 1 /\ hog' \in HogType /\ Len(hog'.queue) <= QueueSize
        /\ view' \in ViewType /\ history' \in HistType
    BY <1>0, <2>1, UpdateSound
  <2> QED
    BY <2>1, <2>2 DEF Types, Works
<1>4. ASSUME NEW i \in Profiles, StudioUnpairs(i)
      PROVE  Types'
  BY <1>4, StudioUnpairsDoes DEF Types, Works
<1>5. CASE ClearBonds
  BY <1>0, <1>5, ClearBondsDoes DEF Types, Works
<1>6. CASE ClearAllBonds
  <2>1. /\ ble' \in BleStates /\ works' \subseteq Works /\ bonded' \subseteq Hosts
        /\ UNCHANGED <<usb, flash>>
        /\ \/ history' = [history EXCEPT !.lost = TRUE] /\ UNCHANGED <<ep, keyReport, hog, view>>
           \/ UpdateCurrent(ep, ble', [history EXCEPT !.lost = TRUE])
    BY <1>6, ClearAllBondsDoes DEF Types
  <2>2. CASE history' = [history EXCEPT !.lost = TRUE] /\ UNCHANGED <<ep, keyReport, hog, view>>
    BY <1>0, <2>1, <2>2 DEF Types
  <2>3. CASE UpdateCurrent(ep, ble', [history EXCEPT !.lost = TRUE])
    <3>1. /\ ep' \in EpType /\ keyReport' \in 0 .. 1 /\ hog' \in HogType /\ Len(hog'.queue) <= QueueSize
          /\ view' \in ViewType /\ history' \in HistType
      BY <1>0, <2>1, <2>3, UpdateSound
    <3> QED
      BY <2>1, <3>1 DEF Types
  <2> QED
    BY <2>1, <2>2, <2>3
<1>7. ASSUME NEW t \in {"usb", "ble"}, SelectTransport(t)
      PROVE  Types'
  <2> DEFINE e == [ep EXCEPT !.preferred = t]
  <2>1. /\ works' = works \cup {"save_preferred"} /\ UpdateCurrent(e, ble, history)
        /\ UNCHANGED <<ble, bonded, usb, flash>>
    BY <1>7 DEF SelectTransport
  <2>2. e \in EpType /\ ble \in BleStates
    BY <1>0 DEF EpType, Types
  <2> HIDE DEF e
  <2>3. /\ ep' \in EpType /\ keyReport' \in 0 .. 1 /\ hog' \in HogType /\ Len(hog'.queue) <= QueueSize
        /\ view' \in ViewType /\ history' \in HistType
    BY <1>0, <2>1, <2>2, UpdateSound
  <2> QED
    BY <2>1, <2>3 DEF Types, Works
<1>8. ASSUME NEW h \in Hosts, HostConnects(h)
      PROVE  Types'
  BY <1>8, HostConnectsDoes DEF Types, Works, IfActive
<1>9. ASSUME NEW h \in Hosts, HostDisconnects(h)
      PROVE  Types'
  <2>1. /\ view' = [view EXCEPT ![h] = 0]
        /\ history' = [history EXCEPT !.lost = @ \/ ble.bond[ble.active] = h]
    BY <1>9, HostDisconnectsDoes
  <2>2. view' \in ViewType
    BY <2>1 DEF Types, ViewType
  <2>3. history' \in HistType
    BY <1>0, <2>1 DEF HistType
  <2>4. works' \subseteq Works
    BY <1>9, HostDisconnectsDoes DEF Types, Works, IfActive
  <2> QED
    BY <1>9, <2>2, <2>3, <2>4, HostDisconnectsDoes DEF Types
<1>10. ASSUME NEW h \in Hosts, PairingAccept(h)
       PROVE  Types'
  BY <1>10, PairingAcceptDoes DEF Types
<1>11. ASSUME NEW h \in Hosts, PairingComplete(h)
       PROVE  Types'
  <2>1. ble' \in BleStates /\ UNCHANGED <<usb, ep, flash, keyReport, hog, view>> /\ (PairingTaken(h) \/ PairingUndone(h))
    BY <1>11, PairingCompleteDoes
  <2>2. history' \in HistType
    BY <2>1 DEF PairingTaken, PairingUndone, Types, HistType
  <2>3. bonded' \subseteq Hosts /\ works' \subseteq Works
    BY <2>1 DEF PairingTaken, PairingUndone, Types, Works
  <2> QED
    BY <2>1, <2>2, <2>3 DEF Types
<1>12. ASSUME NEW status \in {"none", "ready", "suspended"}, UsbChanges(status)
       PROVE  Types'
  BY <1>12, UsbChangesDoes DEF Types, Works
<1>13. ASSUME NEW w \in Works, EndpointWork(w)
       PROVE  Types'
  <2>1. /\ works' = works \ {w} /\ UpdateCurrent(ep, ble, history) /\ ble \in BleStates
        /\ UNCHANGED <<ble, bonded, usb, flash>>
    BY <1>13 DEF EndpointWork, Types
  <2>2. /\ ep' \in EpType /\ keyReport' \in 0 .. 1 /\ hog' \in HogType /\ Len(hog'.queue) <= QueueSize
        /\ view' \in ViewType /\ history' \in HistType
    BY <1>0, <2>1, UpdateSound
  <2> QED
    BY <2>1, <2>2 DEF Types
<1>14. ASSUME NEW w \in Works, SaveWork(w)
       PROVE  Types'
  <2>1. /\ works' = works \ {w} /\ UNCHANGED <<ble, bonded, usb, ep, keyReport, hog, view, history>>
        /\ flash' = IF w = "save_profile" THEN [flash EXCEPT !.active = ble.active]
                    ELSE [flash EXCEPT !.preferred = ep.preferred]
    BY <1>14 DEF SaveWork
  <2>2. flash' \in [active : Profiles, preferred : {"usb", "ble"}]
    BY <2>1 DEF Types, BleStates, EpType
  <2> QED
    BY <2>1, <2>2 DEF Types
<1>15. CASE AdvertiseWork
  BY <1>15, AdvertiseWorkDoes DEF Types
<1>16. CASE Restart
  <2>1. /\ ble' \in BleStates
        /\ ep' = [current |-> <<"ble", 0>>, preferred |-> flash.preferred]
        /\ works' = {} /\ usb' = "none" /\ keyReport' = 0
        /\ hog' = [queue |-> <<>>, running |-> FALSE]
        /\ view' = [t \in Hosts \cup {"usb"} |-> 0]
        /\ history' = [history EXCEPT !.lost = TRUE, !.started = TRUE]
        /\ UNCHANGED <<bonded, flash>>
    BY <1>16, RestartDoes
  <2>2. ep' \in EpType
    BY <2>1, BleAssumption DEF Types, EpType, Instances
  <2>3. hog' \in HogType /\ Len(hog'.queue) <= QueueSize
    <3>1. <<>> \in Seq(0 .. 1) /\ Len(<<>>) = 0
      BY EmptySeq
    <3>2. hog'.queue = <<>>
      BY <2>1
    <3> QED
      BY <2>1, <3>1, <3>2, OutputAssumption DEF HogType
  <2>4. view' \in ViewType
    BY <2>1 DEF ViewType
  <2>5. history' \in HistType
    BY <1>0, <2>1 DEF HistType
  <2>6. keyReport' \in 0 .. 1
    BY <2>1
  <2> QED
    BY <2>1, <2>2, <2>3, <2>4, <2>5, <2>6 DEF Types
<1>17. CASE ToggleTransport
  BY <1>7, <1>17 DEF ToggleTransport
<1> QED
  BY <1>1, <1>2, <1>3, <1>4, <1>5, <1>6, <1>7, <1>8, <1>9, <1>10, <1>11, <1>12, <1>13, <1>14, <1>15,
     <1>16, <1>17 DEF OutputNext
-----------------------------------------------------------------------------
(* Advertising *)

LEMMA AdvFresh ==
  ASSUME ble'.up, ble'.adv = ~ActiveConnected(ble')
  PROVE  AdvInv'
BY DEF AdvInv, Advertises, ActiveConnected

LEMMA AdvKept ==
  ASSUME AdvInv, ble'.up = ble.up, ble'.adv = ble.adv, ActiveConnected(ble') = ActiveConnected(ble),
         "advertising" \in works => "advertising" \in works'
  PROVE  AdvInv'
BY DEF AdvInv, Advertises, ActiveConnected

LEMMA AdvStep ==
  ASSUME Types, AdvInv, OutputNext
  PROVE  AdvInv'
<1>0. ble.up
  BY DEF AdvInv
<1>1. CASE Type
  BY <1>1, TypeDoes, AdvKept
<1>2. CASE HogRound
  BY <1>2, HogRoundDoes, AdvKept
<1>3. ASSUME NEW i \in Profiles, SelectProfile(i)
      PROVE  AdvInv'
  BY <1>0, <1>3, SelectProfileDoes, AdvFresh
<1>4. ASSUME NEW i \in Profiles, StudioUnpairs(i)
      PROVE  AdvInv'
  <2>1. ActiveConnected(ble') = ActiveConnected(ble)
    BY <1>4, StudioUnpairsDoes, StudioUnpairsKeeps DEF ActiveConnected
  <2> QED
    BY <1>4, <2>1, StudioUnpairsDoes, AdvKept
<1>5. CASE ClearBonds
  BY <1>0, <1>5, ClearBondsDoes, AdvFresh
<1>6. CASE ClearAllBonds
  BY <1>0, <1>6, ClearAllBondsDoes, AdvFresh
<1>7. ASSUME NEW t \in {"usb", "ble"}, SelectTransport(t)
      PROVE  AdvInv'
  <2>1. works' = works \cup {"save_preferred"} /\ ble' = ble
    BY <1>7 DEF SelectTransport
  <2> QED
    BY <2>1, AdvKept
<1>8. ASSUME NEW h \in Hosts, HostConnects(h)
      PROVE  AdvInv'
  BY <1>0, <1>8, HostConnectsDoes, AdvFresh
<1>9. ASSUME NEW h \in Hosts, HostDisconnects(h)
      PROVE  AdvInv'
  <2>1. ble'.up /\ "advertising" \in works'
    BY <1>0, <1>9, HostDisconnectsDoes
  <2> QED
    BY <2>1 DEF AdvInv, Advertises
<1>10. ASSUME NEW h \in Hosts, PairingAccept(h)
       PROVE  AdvInv'
  <2>1. ActiveConnected(ble') = ActiveConnected(ble)
    BY <1>10, PairingAcceptDoes DEF ActiveConnected
  <2> QED
    BY <1>10, <2>1, PairingAcceptDoes, AdvKept
<1>11. ASSUME NEW h \in Hosts, PairingComplete(h)
       PROVE  AdvInv'
  <2>1. /\ ble'.active = ble.active /\ ble'.up = ble.up
        /\ PairingTaken(h) \/ PairingUndone(h)
    BY <1>11, PairingCompleteDoes
  <2>2. CASE PairingTaken(h)
    BY <1>0, <2>1, <2>2, AdvFresh DEF PairingTaken
  <2>3. CASE PairingUndone(h)
    <3>1. ActiveConnected(ble') = ActiveConnected(ble)
      BY <2>1, <2>3 DEF PairingUndone, ActiveConnected
    <3> QED
      BY <2>1, <2>3, <3>1, AdvKept DEF PairingUndone
  <2> QED
    BY <2>1, <2>2, <2>3
<1>12. ASSUME NEW status \in {"none", "ready", "suspended"}, UsbChanges(status)
       PROVE  AdvInv'
  BY <1>12, UsbChangesDoes, AdvKept
<1>13. ASSUME NEW w \in Works, EndpointWork(w)
       PROVE  AdvInv'
  <2>1. w \in {"usb", "profile"} /\ works' = works \ {w} /\ ble' = ble
    BY <1>13 DEF EndpointWork
  <2> QED
    BY <2>1, AdvKept
<1>14. ASSUME NEW w \in Works, SaveWork(w)
       PROVE  AdvInv'
  <2>1. w \in {"save_profile", "save_preferred"} /\ works' = works \ {w} /\ ble' = ble
    BY <1>14 DEF SaveWork
  <2> QED
    BY <2>1, AdvKept
<1>15. CASE AdvertiseWork
  BY <1>0, <1>15, AdvertiseWorkDoes, AdvFresh
<1>16. CASE Restart
  BY <1>16, RestartDoes, AdvFresh
<1>17. CASE ToggleTransport
  BY <1>7, <1>17 DEF ToggleTransport
<1> QED
  BY <1>1, <1>2, <1>3, <1>4, <1>5, <1>6, <1>7, <1>8, <1>9, <1>10, <1>11, <1>12, <1>13, <1>14, <1>15,
     <1>16, <1>17 DEF OutputNext
-----------------------------------------------------------------------------
(* The endpoint *)

\* The endpoint was chosen in this step
LEMMA FollowFresh ==
  ASSUME ep' \in EpType, ble' \in BleStates, usb' = usb, ep'.current = SelectedInstance(ep', ble')
  PROVE  FollowInv'
<1>1. ep'.current[1] = "ble" => ep'.current[2] = ble'.active
  BY Selected
<1>2. SelectedInstance(ep, ble)' = SelectedInstance(ep', ble')
  BY DEF SelectedInstance, ActiveConnected
<1> QED
  BY <1>1, <1>2 DEF FollowInv, EndpointFollows

\* The endpoint stays, and a work item is there when it should not
LEMMA FollowKept ==
  ASSUME FollowInv, ep' = ep, ble'.active = ble.active, history'.started = history.started,
         works' \cap {"usb", "profile"} = {} =>
           /\ works \cap {"usb", "profile"} = {} /\ usb' = usb
           /\ ActiveConnected(ble') = ActiveConnected(ble)
  PROVE  FollowInv'
<1>1. ASSUME usb' = usb, ActiveConnected(ble') = ActiveConnected(ble)
      PROVE  SelectedInstance(ep, ble)' = SelectedInstance(ep, ble)
  BY <1>1 DEF SelectedInstance, ActiveConnected
<1>2. EndpointFollows'
  BY <1>1 DEF EndpointFollows, FollowInv
<1> QED
  BY <1>2 DEF FollowInv

LEMMA FollowStep ==
  ASSUME Types, Types', FollowInv, OutputNext
  PROVE  FollowInv'
<1>0. ep' \in EpType /\ ble' \in BleStates /\ ep \in EpType /\ ble \in BleStates /\ history \in HistType
  BY DEF Types
<1>1. CASE Type
  BY <1>1, TypeDoes, FollowKept
<1>2. CASE HogRound
  BY <1>2, HogRoundDoes, FollowKept
<1>3. ASSUME NEW i \in Profiles, SelectProfile(i)
      PROVE  FollowInv'
  <2>1. UpdateCurrent(ep, ble', history) /\ usb' = usb
    BY <1>3, SelectProfileDoes
  <2>2. ep'.current = SelectedInstance(ep', ble')
    BY <1>0, <2>1, UpdateSound
  <2> QED
    BY <1>0, <2>1, <2>2, FollowFresh
<1>4. ASSUME NEW i \in Profiles, StudioUnpairs(i)
      PROVE  FollowInv'
  <2>1. "profile" \in works'
    BY <1>4, StudioUnpairsDoes
  <2> QED
    BY <1>4, <2>1, StudioUnpairsDoes, FollowKept
<1>5. CASE ClearBonds
  <2>1. "profile" \in works' /\ history'.started = history.started
    BY <1>0, <1>5, ClearBondsDoes DEF HistType
  <2> QED
    BY <1>5, <2>1, ClearBondsDoes, FollowKept
<1>6. CASE ClearAllBonds
  <2> DEFINE hist == [history EXCEPT !.lost = TRUE]
  <2>0. hist \in HistType /\ hist.started = history.started
    BY <1>0 DEF HistType
  <2> HIDE DEF hist
  <2>1. /\ ble'.active = 0 /\ "profile" \in works' /\ usb' = usb
        /\ \/ ble.active = 0 /\ history' = hist /\ UNCHANGED ep
           \/ UpdateCurrent(ep, ble', hist)
    BY <1>6, ClearAllBondsDoes DEF hist
  <2>2. CASE ble.active = 0 /\ history' = hist /\ UNCHANGED ep
    BY <2>0, <2>1, <2>2, FollowKept
  <2>3. CASE UpdateCurrent(ep, ble', hist)
    <3>1. ep'.current = SelectedInstance(ep', ble')
      BY <1>0, <2>0, <2>3, UpdateSound
    <3> QED
      BY <1>0, <2>1, <3>1, FollowFresh
  <2> QED
    BY <2>1, <2>2, <2>3
<1>7. ASSUME NEW t \in {"usb", "ble"}, SelectTransport(t)
      PROVE  FollowInv'
  <2> DEFINE e == [ep EXCEPT !.preferred = t]
  <2>1. UpdateCurrent(e, ble, history) /\ ble' = ble /\ usb' = usb
    BY <1>7 DEF SelectTransport
  <2>2. e \in EpType
    BY <1>0 DEF EpType
  <2> HIDE DEF e
  <2>3. ep'.current = SelectedInstance(ep', ble)
    BY <1>0, <2>1, <2>2, UpdateSound
  <2> QED
    BY <1>0, <2>1, <2>3, FollowFresh
<1>8. ASSUME NEW h \in Hosts, HostConnects(h)
      PROVE  FollowInv'
  <2>1. /\ ble'.bond = ble.bond /\ ble'.active = ble.active /\ ble'.linked = ble.linked \cup {h}
        /\ works' = works \cup IfActive(h) /\ UNCHANGED <<usb, ep, history>>
    BY <1>8, HostConnectsDoes
  <2>2. "profile" \in works' \/ ActiveConnected(ble') = ActiveConnected(ble)
    BY <2>1 DEF IfActive, IsActiveProfile, ActiveConnected
  <2>3. works \subseteq works'
    BY <2>1
  <2> QED
    BY <2>1, <2>2, <2>3, FollowKept
<1>9. ASSUME NEW h \in Hosts, HostDisconnects(h)
      PROVE  FollowInv'
  <2>1. /\ ble'.bond = ble.bond /\ ble'.active = ble.active /\ ble'.linked = ble.linked \ {h}
        /\ works' = works \cup {"advertising"} \cup IfActive(h) /\ UNCHANGED <<usb, ep>>
        /\ history' = [history EXCEPT !.lost = @ \/ ble.bond[ble.active] = h]
    BY <1>9, HostDisconnectsDoes
  <2>2. "profile" \in works' \/ ActiveConnected(ble') = ActiveConnected(ble)
    BY <2>1 DEF IfActive, IsActiveProfile, ActiveConnected
  <2>3. works \subseteq works'
    BY <2>1
  <2>4. history'.started = history.started
    BY <1>0, <2>1 DEF HistType
  <2> QED
    BY <2>1, <2>2, <2>3, <2>4, FollowKept
<1>10. ASSUME NEW h \in Hosts, PairingAccept(h)
       PROVE  FollowInv'
  <2>1. ActiveConnected(ble') = ActiveConnected(ble)
    BY <1>10, PairingAcceptDoes DEF ActiveConnected
  <2> QED
    BY <1>10, <2>1, PairingAcceptDoes, FollowKept
<1>11. ASSUME NEW h \in Hosts, PairingComplete(h)
       PROVE  FollowInv'
  <2>1. /\ ble'.active = ble.active /\ UNCHANGED <<usb, ep>>
        /\ PairingTaken(h) \/ PairingUndone(h)
    BY <1>11, PairingCompleteDoes
  <2>2. history'.started = history.started
    BY <1>0, <2>1 DEF PairingTaken, PairingUndone, HistType
  <2>3. CASE PairingTaken(h)
    <3>1. "profile" \in works'
      BY <2>3 DEF PairingTaken
    <3> QED
      BY <2>1, <2>2, <3>1, FollowKept
  <2>4. CASE PairingUndone(h)
    <3>1. ActiveConnected(ble') = ActiveConnected(ble) /\ works' = works
      BY <2>1, <2>4 DEF PairingUndone, ActiveConnected
    <3> QED
      BY <2>1, <2>2, <3>1, FollowKept
  <2> QED
    BY <2>1, <2>3, <2>4
<1>12. ASSUME NEW status \in {"none", "ready", "suspended"}, UsbChanges(status)
       PROVE  FollowInv'
  <2>1. "usb" \in works'
    BY <1>12, UsbChangesDoes
  <2> QED
    BY <1>12, <2>1, UsbChangesDoes, FollowKept
<1>13. ASSUME NEW w \in Works, EndpointWork(w)
       PROVE  FollowInv'
  <2>1. UpdateCurrent(ep, ble, history) /\ ble' = ble /\ usb' = usb
    BY <1>13 DEF EndpointWork
  <2>2. ep'.current = SelectedInstance(ep', ble)
    BY <1>0, <2>1, UpdateSound
  <2> QED
    BY <1>0, <2>1, <2>2, FollowFresh
<1>14. ASSUME NEW w \in Works, SaveWork(w)
       PROVE  FollowInv'
  <2>1. /\ w \in {"save_profile", "save_preferred"} /\ works' = works \ {w}
        /\ UNCHANGED <<ble, usb, ep, history>>
    BY <1>14 DEF SaveWork
  <2>2. works' \cap {"usb", "profile"} = works \cap {"usb", "profile"}
    BY <2>1
  <2> QED
    BY <2>1, <2>2, FollowKept
<1>15. CASE AdvertiseWork
  <2>1. /\ ActiveConnected(ble') = ActiveConnected(ble)
        /\ works' \cap {"usb", "profile"} = works \cap {"usb", "profile"}
    BY <1>15, AdvertiseWorkDoes DEF ActiveConnected
  <2> QED
    BY <1>15, <2>1, AdvertiseWorkDoes, FollowKept
<1>16. CASE Restart
  <2>1. history'.started
    BY <1>0, <1>16, RestartDoes DEF HistType
  <2> QED
    BY <2>1 DEF FollowInv, EndpointFollows
<1>17. CASE ToggleTransport
  BY <1>7, <1>17 DEF ToggleTransport
<1> QED
  BY <1>1, <1>2, <1>3, <1>4, <1>5, <1>6, <1>7, <1>8, <1>9, <1>10, <1>11, <1>12, <1>13, <1>14, <1>15,
     <1>16, <1>17 DEF OutputNext
-----------------------------------------------------------------------------
(* Bonds *)

LEMMA BondsKept ==
  ASSUME BondsInv, bonded' = bonded, ble'.bond = ble.bond, history'.twice = history.twice
  PROVE  BondsInv'
BY DEF BondsInv, Bonds

\* A profile is opened, and its host forgotten
LEMMA BondDropped ==
  ASSUME Types, BondsInv, NEW i \in Profiles, ble'.bond = [ble.bond EXCEPT ![i] = Nobody],
         bonded' = bonded \ {ble.bond[i]}, history'.twice = history.twice
  PROVE  BondsInv'
<1> SUFFICES ASSUME ~history.twice
             PROVE  /\ bonded' = Bonds(ble'.bond)
                    /\ \A j, k \in Profiles : ble'.bond[j] = ble'.bond[k] /\ ble'.bond[j] # Nobody => j = k
  BY DEF BondsInv, Bonds
<1>1. /\ bonded = Bonds(ble.bond)
      /\ \A j, k \in Profiles : ble.bond[j] = ble.bond[k] /\ ble.bond[j] # Nobody => j = k
  BY DEF BondsInv
<1>2. ble.bond \in [Profiles -> Hosts \cup {Nobody}]
  BY DEF Types, BleStates
<1>3. \A j \in Profiles : ble'.bond[j] = IF j = i THEN Nobody ELSE ble.bond[j]
  BY <1>2
<1>4. \A j, k \in Profiles : ble'.bond[j] = ble'.bond[k] /\ ble'.bond[j] # Nobody => j = k
  BY <1>1, <1>3
<1>5. bonded' \subseteq Bonds(ble'.bond)
  BY <1>1, <1>3 DEF Bonds
<1>6. Bonds(ble'.bond) \subseteq bonded'
  BY <1>1, <1>3 DEF Bonds
<1> QED
  BY <1>4, <1>5, <1>6

LEMMA BondsStep ==
  ASSUME Types, BondsInv, OutputNext
  PROVE  BondsInv'
<1>0. /\ ep \in EpType /\ ble \in BleStates /\ history \in HistType
      /\ [history EXCEPT !.lost = TRUE] \in HistType
      /\ [history EXCEPT !.lost = TRUE].twice = history.twice
  BY DEF Types, HistType
<1>1. CASE Type
  BY <1>1, TypeDoes, BondsKept
<1>2. CASE HogRound
  BY <1>2, HogRoundDoes, BondsKept
<1>3. ASSUME NEW i \in Profiles, SelectProfile(i)
      PROVE  BondsInv'
  <2>1. UpdateCurrent(ep, ble', history) /\ ble' \in BleStates /\ ble'.bond = ble.bond /\ bonded' = bonded
    BY <1>3, SelectProfileDoes
  <2>2. history'.twice = history.twice
    BY <1>0, <2>1, UpdateSound
  <2> QED
    BY <2>1, <2>2, BondsKept
<1>4. ASSUME NEW i \in Profiles, StudioUnpairs(i)
      PROVE  BondsInv'
  BY <1>4, StudioUnpairsDoes, BondDropped
<1>5. CASE ClearBonds
  <2>1. ble.active \in Profiles
    BY <1>0 DEF BleStates
  <2> QED
    BY <1>0, <1>5, <2>1, ClearBondsDoes, BondDropped
<1>6. CASE ClearAllBonds
  <2> DEFINE hist == [history EXCEPT !.lost = TRUE]
  <2>1. /\ ble' \in BleStates /\ ble'.bond = [i \in Profiles |-> Nobody]
        /\ bonded' = bonded \ {ble.bond[i] : i \in Profiles}
        /\ history' = hist \/ UpdateCurrent(ep, ble', hist)
    BY <1>6, ClearAllBondsDoes
  <2>2. history'.twice = history.twice
    <3> HIDE DEF hist
    <3>1. hist \in HistType /\ hist.twice = history.twice
      BY <1>0 DEF hist
    <3>2. CASE history' = hist
      BY <3>1, <3>2
    <3>3. CASE UpdateCurrent(ep, ble', hist)
      BY <1>0, <2>1, <3>1, <3>3, UpdateSound
    <3> QED
      BY <2>1, <3>2, <3>3
  <2>3. Bonds(ble'.bond) = {} /\ \A i \in Profiles : ble'.bond[i] = Nobody
    BY <2>1 DEF Bonds
  <2>4. ~history.twice => bonded' = {}
    BY <2>1 DEF BondsInv, Bonds
  <2> QED
    BY <2>2, <2>3, <2>4 DEF BondsInv, Bonds
<1>7. ASSUME NEW t \in {"usb", "ble"}, SelectTransport(t)
      PROVE  BondsInv'
  <2> DEFINE e == [ep EXCEPT !.preferred = t]
  <2>1. UpdateCurrent(e, ble, history) /\ ble' = ble /\ bonded' = bonded
    BY <1>7 DEF SelectTransport
  <2>2. e \in EpType
    BY <1>0 DEF EpType
  <2> HIDE DEF e
  <2>3. history'.twice = history.twice
    BY <1>0, <2>1, <2>2, UpdateSound
  <2> QED
    BY <2>1, <2>3, BondsKept
<1>8. ASSUME NEW h \in Hosts, HostConnects(h)
      PROVE  BondsInv'
  BY <1>8, HostConnectsDoes, BondsKept
<1>9. ASSUME NEW h \in Hosts, HostDisconnects(h)
      PROVE  BondsInv'
  <2>1. history' = [history EXCEPT !.lost = @ \/ ble.bond[ble.active] = h]
    BY <1>9, HostDisconnectsDoes
  <2>2. history'.twice = history.twice
    BY <1>0, <2>1 DEF HistType
  <2> QED
    BY <1>9, <2>2, HostDisconnectsDoes, BondsKept
<1>10. ASSUME NEW h \in Hosts, PairingAccept(h)
       PROVE  BondsInv'
  BY <1>10, PairingAcceptDoes, BondsKept
<1>11. ASSUME NEW h \in Hosts, PairingComplete(h)
       PROVE  BondsInv'
  <2>1. PairingTaken(h) \/ PairingUndone(h)
    BY <1>11, PairingCompleteDoes
  <2>2. CASE PairingTaken(h)
    <3> DEFINE a == ble.active
    <3>1. /\ ble.bond[a] \in {h, Nobody} /\ ble'.bond = [ble.bond EXCEPT ![a] = h]
          /\ bonded' = bonded \cup {h}
          /\ history' = [history EXCEPT !.lost = TRUE, !.twice = @ \/
                           \E i \in Profiles \ {a} : ble.bond[i] = h]
      BY <2>2 DEF PairingTaken
    <3>2. ble.bond \in [Profiles -> Hosts \cup {Nobody}] /\ a \in Profiles
      BY <1>0 DEF BleStates
    <3>3. ~history'.twice => ~history.twice /\ \A i \in Profiles \ {a} : ble.bond[i] # h
      BY <1>0, <3>1 DEF HistType
    <3> HIDE DEF a
    <3>4. \A i \in Profiles : ble'.bond[i] = IF i = a THEN h ELSE ble.bond[i]
      BY <3>1, <3>2
    <3> SUFFICES ASSUME ~history'.twice
                 PROVE  /\ bonded' = Bonds(ble'.bond)
                        /\ \A i, j \in Profiles : ble'.bond[i] = ble'.bond[j] /\ ble'.bond[i] # Nobody => i = j
      BY DEF BondsInv, Bonds
    <3>5. /\ bonded = Bonds(ble.bond)
          /\ \A i, j \in Profiles : ble.bond[i] = ble.bond[j] /\ ble.bond[i] # Nobody => i = j
      BY <3>3 DEF BondsInv
    <3>6. h # Nobody
      BY BleAssumption
    <3>7. bonded' \subseteq Bonds(ble'.bond)
      BY <3>1, <3>2, <3>4, <3>5, <3>6 DEF Bonds
    <3>8. Bonds(ble'.bond) \subseteq bonded'
      BY <3>1, <3>4, <3>5 DEF Bonds
    <3>9. \A i, j \in Profiles : ble'.bond[i] = ble'.bond[j] /\ ble'.bond[i] # Nobody => i = j
      BY <3>3, <3>4, <3>5
    <3> QED
      BY <3>7, <3>8, <3>9
  <2>3. CASE PairingUndone(h)
    <3>1. /\ ble'.bond = ble.bond /\ bonded' = bonded \ {h}
          /\ history' = [history EXCEPT !.twice = @ \/ \E i \in Profiles : ble.bond[i] = h]
      BY <2>3 DEF PairingUndone
    <3>2. ~history'.twice => ~history.twice /\ \A i \in Profiles : ble.bond[i] # h
      BY <1>0, <3>1 DEF HistType
    <3>3. ~history'.twice => bonded' = bonded
      BY <3>1, <3>2 DEF BondsInv, Bonds
    <3> QED
      BY <3>1, <3>2, <3>3 DEF BondsInv, Bonds
  <2> QED
    BY <2>1, <2>2, <2>3
<1>12. ASSUME NEW status \in {"none", "ready", "suspended"}, UsbChanges(status)
       PROVE  BondsInv'
  BY <1>12, UsbChangesDoes, BondsKept
<1>13. ASSUME NEW w \in Works, EndpointWork(w)
       PROVE  BondsInv'
  <2>1. UpdateCurrent(ep, ble, history) /\ ble' = ble /\ bonded' = bonded
    BY <1>13 DEF EndpointWork
  <2>2. history'.twice = history.twice
    BY <1>0, <2>1, UpdateSound
  <2> QED
    BY <2>1, <2>2, BondsKept
<1>14. ASSUME NEW w \in Works, SaveWork(w)
       PROVE  BondsInv'
  <2>1. UNCHANGED <<ble, bonded, history>>
    BY <1>14 DEF SaveWork
  <2> QED
    BY <2>1, BondsKept
<1>15. CASE AdvertiseWork
  BY <1>15, AdvertiseWorkDoes, BondsKept
<1>16. CASE Restart
  <2>1. /\ history' = [history EXCEPT !.lost = TRUE, !.started = TRUE]
        /\ ble'.bond = ble.bond /\ bonded' = bonded
    BY <1>16, RestartDoes
  <2>2. history'.twice = history.twice
    BY <1>0, <2>1 DEF HistType
  <2> QED
    BY <2>1, <2>2, BondsKept
<1>17. CASE ToggleTransport
  BY <1>7, <1>17 DEF ToggleTransport
<1> QED
  BY <1>1, <1>2, <1>3, <1>4, <1>5, <1>6, <1>7, <1>8, <1>9, <1>10, <1>11, <1>12, <1>13, <1>14, <1>15,
     <1>16, <1>17 DEF OutputNext
-----------------------------------------------------------------------------
(* Reports *)

LEMMA ArriveDelivered ==
  ASSUME ~history'.lost => Delivered(ep', hog', view', keyReport')
  PROVE  ArriveInv'
BY DEF ArriveInv, Arrived, Delivered

LEMMA ArriveKept ==
  ASSUME ArriveInv, UNCHANGED <<ep, keyReport, hog, view>>, ble'.bond[ble'.active] = ble.bond[ble.active],
         ~history'.lost => ~history.lost, history'.started = history.started
  PROVE  ArriveInv'
BY DEF ArriveInv, Arrived

\* The endpoint is chosen again while the active profile and its bond stay
LEMMA ArriveUpdated ==
  ASSUME Types, ArriveInv, NEW e \in EpType, e.current = ep.current, NEW b \in BleStates,
         ble'.bond[ble'.active] = ble.bond[ble.active], UpdateCurrent(e, b, history)
  PROVE  ArriveInv'
<1>0. history \in HistType
  BY DEF Types
<1>1. \/ /\ ep'.current = ep.current /\ UNCHANGED <<keyReport, hog, view>>
         /\ history'.lost = (history.lost \/ history.started)
      \/ ~history'.lost => Delivered(ep', hog', view', keyReport')
  BY <1>0, UpdateSound
<1>2. CASE /\ ep'.current = ep.current /\ UNCHANGED <<keyReport, hog, view>>
           /\ history'.lost = (history.lost \/ history.started)
  BY <1>2 DEF ArriveInv, Arrived
<1> QED
  BY <1>1, <1>2, ArriveDelivered

LEMMA ArriveStep ==
  ASSUME Types, FollowInv, ArriveInv, OutputNext
  PROVE  ArriveInv'
<1>0. /\ ep \in EpType /\ ble \in BleStates /\ history \in HistType
      /\ [history EXCEPT !.lost = TRUE] \in HistType
      /\ [history EXCEPT !.lost = TRUE].lost
  BY DEF Types, HistType
<1>1. CASE Type
  BY <1>1, TypeDoes, ArriveDelivered
<1>2. CASE HogRound
  <2> SUFFICES ASSUME ~history'.lost, ~history'.started
               PROVE  Arrived'
    BY DEF ArriveInv
  <2>1. /\ UNCHANGED <<ble, ep, keyReport>> /\ view'["usb"] = view["usb"]
        /\ ~history.lost /\ ~history.started
        /\ IF hog'.queue # <<>>
           THEN hog.queue # <<>> /\ hog'.queue[Len(hog'.queue)] = hog.queue[Len(hog.queue)]
           ELSE IF hog.queue # <<>> THEN view'[ble.bond[ble.active]] = hog.queue[Len(hog.queue)]
           ELSE view' = view
    BY <1>2, HogRoundDoes
  <2>2. Arrived
    BY <2>1 DEF ArriveInv
  <2> QED
    BY <2>1, <2>2 DEF Arrived
<1>3. ASSUME NEW i \in Profiles, SelectProfile(i)
      PROVE  ArriveInv'
  <2> SUFFICES ASSUME ~history'.lost, ~history'.started
               PROVE  Arrived'
    BY DEF ArriveInv
  <2>1. /\ UpdateCurrent(ep, ble', history) /\ ble' \in BleStates
        /\ ble'.active = i /\ i # ble.active
    BY <1>3, SelectProfileDoes
  <2>2. /\ ep'.current = SelectedInstance(ep', ble') /\ ep' \in EpType
        /\ \/ /\ ep'.current = ep.current /\ UNCHANGED <<keyReport, hog, view>>
              /\ history'.lost = (history.lost \/ history.started)
           \/ ~history'.lost => Delivered(ep', hog', view', keyReport')
    BY <1>0, <2>1, UpdateSound
  <2>3. CASE Delivered(ep', hog', view', keyReport')
    BY <2>3 DEF Arrived, Delivered
  <2>4. CASE /\ ep'.current = ep.current /\ UNCHANGED <<keyReport, hog, view>>
             /\ history'.lost = (history.lost \/ history.started)
    <3>1. ~history.lost /\ ~history.started
      BY <2>4
    <3>2. ep.current[1] # "ble"
      <4>1. ep'.current[1] = "ble" => ep'.current[2] = i
        BY <2>1, <2>2, Selected
      <4> QED
        BY <2>1, <2>4, <3>1, <4>1 DEF FollowInv
    <3>3. ep.current[1] = "usb"
      BY <1>0, <3>2 DEF EpType, Instances
    <3> QED
      BY <2>4, <3>1, <3>3 DEF ArriveInv, Arrived
  <2> QED
    BY <2>2, <2>3, <2>4
<1>4. ASSUME NEW i \in Profiles, StudioUnpairs(i)
      PROVE  ArriveInv'
  BY <1>4, StudioUnpairsDoes, StudioUnpairsKeeps, ArriveKept
<1>5. CASE ClearBonds
  <2>1. history' = [history EXCEPT !.lost = TRUE]
    BY <1>5, ClearBondsDoes
  <2> QED
    BY <1>0, <2>1 DEF ArriveInv
<1>6. CASE ClearAllBonds
  <2> DEFINE hist == [history EXCEPT !.lost = TRUE]
  <2>0. hist \in HistType /\ hist.lost
    BY <1>0
  <2> HIDE DEF hist
  <2>1. ble' \in BleStates /\ (history' = hist \/ UpdateCurrent(ep, ble', hist))
    BY <1>6, ClearAllBondsDoes DEF hist
  <2>2. CASE history' = hist
    BY <2>0, <2>2 DEF ArriveInv
  <2>3. CASE UpdateCurrent(ep, ble', hist)
    <3>1. history'.lost \/ (~history'.lost => Delivered(ep', hog', view', keyReport'))
      BY <1>0, <2>0, <2>1, <2>3, UpdateSound
    <3> QED
      BY <3>1, ArriveDelivered
  <2> QED
    BY <2>1, <2>2, <2>3
<1>7. ASSUME NEW t \in {"usb", "ble"}, SelectTransport(t)
      PROVE  ArriveInv'
  <2> DEFINE e == [ep EXCEPT !.preferred = t]
  <2>1. UpdateCurrent(e, ble, history) /\ ble' = ble
    BY <1>7 DEF SelectTransport
  <2>2. e \in EpType /\ e.current = ep.current
    BY <1>0 DEF EpType
  <2> HIDE DEF e
  <2> QED
    BY <1>0, <2>1, <2>2, ArriveUpdated
<1>8. ASSUME NEW h \in Hosts, HostConnects(h)
      PROVE  ArriveInv'
  BY <1>8, HostConnectsDoes, ArriveKept
<1>9. ASSUME NEW h \in Hosts, HostDisconnects(h)
      PROVE  ArriveInv'
  <2> SUFFICES ASSUME ~history'.lost, ~history'.started
               PROVE  Arrived'
    BY DEF ArriveInv
  <2>1. /\ ble'.bond = ble.bond /\ ble'.active = ble.active
        /\ view' = [view EXCEPT ![h] = 0]
        /\ history' = [history EXCEPT !.lost = @ \/ ble.bond[ble.active] = h]
        /\ UNCHANGED <<ep, keyReport, hog>>
    BY <1>9, HostDisconnectsDoes
  <2>2. ~history.lost /\ ~history.started /\ ble.bond[ble.active] # h
    BY <1>0, <2>1 DEF HistType
  <2>3. Arrived
    BY <2>2 DEF ArriveInv
  <2>4. view \in [Hosts \cup {"usb"} -> 0 .. 1] /\ h # "usb"
    BY OutputAssumption DEF Types, ViewType
  <2>5. view'["usb"] = view["usb"]
    BY <2>1, <2>4
  <2>6. ble.bond[ble.active] # Nobody => view'[ble.bond[ble.active]] = view[ble.bond[ble.active]]
    <3>1. ble.bond[ble.active] \in Hosts \cup {Nobody}
      BY <1>0 DEF BleStates
    <3> QED
      BY <2>1, <2>2, <2>4, <3>1
  <2> QED
    BY <2>1, <2>3, <2>5, <2>6 DEF Arrived
<1>10. ASSUME NEW h \in Hosts, PairingAccept(h)
       PROVE  ArriveInv'
  BY <1>10, PairingAcceptDoes, ArriveKept
<1>11. ASSUME NEW h \in Hosts, PairingComplete(h)
       PROVE  ArriveInv'
  <2>1. /\ ble'.active = ble.active /\ UNCHANGED <<ep, keyReport, hog, view>>
        /\ PairingTaken(h) \/ PairingUndone(h)
    BY <1>11, PairingCompleteDoes
  <2>2. CASE PairingTaken(h)
    <3>1. history'.lost
      BY <1>0, <2>2 DEF PairingTaken, HistType
    <3> QED
      BY <3>1 DEF ArriveInv
  <2>3. CASE PairingUndone(h)
    <3>1. /\ ble'.bond = ble.bond /\ history'.lost = history.lost /\ history'.started = history.started
      BY <1>0, <2>3 DEF PairingUndone, HistType
    <3> QED
      BY <2>1, <3>1, ArriveKept
  <2> QED
    BY <2>1, <2>2, <2>3
<1>12. ASSUME NEW status \in {"none", "ready", "suspended"}, UsbChanges(status)
       PROVE  ArriveInv'
  <2> SUFFICES ASSUME ~history'.lost, ~history'.started
               PROVE  Arrived'
    BY DEF ArriveInv
  <2>1. /\ ~history.lost /\ ~history.started /\ UNCHANGED <<ble, ep, keyReport, hog>>
        /\ \A h \in Hosts : view'[h] = view[h]
        /\ ep.current[1] = "usb" => view'["usb"] = view["usb"]
    BY <1>12, UsbChangesDoes
  <2>2. ble.bond[ble.active] \in Hosts \cup {Nobody}
    BY <1>0 DEF BleStates
  <2> QED
    BY <2>1, <2>2 DEF ArriveInv, Arrived
<1>13. ASSUME NEW w \in Works, EndpointWork(w)
       PROVE  ArriveInv'
  <2>1. UpdateCurrent(ep, ble, history) /\ ble' = ble
    BY <1>13 DEF EndpointWork
  <2> QED
    BY <1>0, <2>1, ArriveUpdated
<1>14. ASSUME NEW w \in Works, SaveWork(w)
       PROVE  ArriveInv'
  <2>1. UNCHANGED <<ble, ep, keyReport, hog, view, history>>
    BY <1>14 DEF SaveWork
  <2> QED
    BY <2>1, ArriveKept
<1>15. CASE AdvertiseWork
  BY <1>15, AdvertiseWorkDoes, ArriveKept
<1>16. CASE Restart
  <2>1. history'.lost
    BY <1>0, <1>16, RestartDoes DEF HistType
  <2> QED
    BY <2>1 DEF ArriveInv
<1>17. CASE ToggleTransport
  BY <1>7, <1>17 DEF ToggleTransport
<1> QED
  BY <1>1, <1>2, <1>3, <1>4, <1>5, <1>6, <1>7, <1>8, <1>9, <1>10, <1>11, <1>12, <1>13, <1>14, <1>15,
     <1>16, <1>17 DEF OutputNext
-----------------------------------------------------------------------------
LEMMA OutputStep == OutputInv /\ [OutputNext]_outputVars => OutputInv'
<1> SUFFICES ASSUME OutputInv, [OutputNext]_outputVars
             PROVE  OutputInv'
  OBVIOUS
<1>1. CASE OutputNext
  BY <1>1, TypesStep, AdvStep, FollowStep, BondsStep, ArriveStep DEF OutputInv
<1>2. CASE UNCHANGED outputVars
  <2>1. Types' /\ AdvInv'
    BY <1>2 DEF OutputInv, Types, AdvInv, Advertises, ActiveConnected, outputVars
  <2>2. FollowInv'
    BY <1>2 DEF OutputInv, FollowInv, EndpointFollows, SelectedInstance, ActiveConnected, outputVars
  <2>3. BondsInv' /\ ArriveInv'
    BY <1>2 DEF OutputInv, BondsInv, Bonds, ArriveInv, Arrived, outputVars
  <2> QED
    BY <2>1, <2>2, <2>3 DEF OutputInv
<1> QED
  BY <1>1, <1>2

LEMMA OutputInvariant == OutputSpec => []OutputInv
BY OutputStarts, OutputStep, PTL DEF OutputSpec

(***************************************************************************)
(* The keyboard is on the air exactly while the host of the active profile *)
(* is away, and once the events of USB and BLE are handled reports go      *)
(* where the connections and the preference say (update_advertising,       *)
(* update_current_endpoint): for any number of profiles and hosts and any  *)
(* queue.                                                                  *)
(***************************************************************************)
THEOREM OutputFollows == OutputSpec => []OutputSound
<1>1. OutputInv => OutputSound
  <2>1. Types => OutputTypeOK
    BY DEF Types, OutputTypeOK, EpType, ViewType, HogType, HistType
  <2> QED
    BY <2>1 DEF OutputInv, AdvInv, FollowInv, OutputSound
<1> QED
  BY <1>1, OutputInvariant, PTL

(***************************************************************************)
(* The Bluetooth stack holds a bond for exactly the hosts of the taken     *)
(* profiles, whatever pairings, unpairings and restarts cross each other   *)
(* (auth_pairing_complete, clear_profile_bond), unless one host was paired *)
(* into two profiles.                                                      *)
(***************************************************************************)
THEOREM OutputBonds == OutputSpec => []BondsMatch
<1>1. OutputInv => BondsMatch
  BY DEF OutputInv, BondsInv, BondsMatch, Bonds
<1> QED
  BY <1>1, OutputInvariant, PTL

(***************************************************************************)
(* When the queue of hog.c is drained the host in use knows the last       *)
(* report, for a queue of any size and any order of reports, profiles,     *)
(* endpoints and disconnections.                                           *)
(***************************************************************************)
THEOREM OutputReports == OutputSpec => []ReportsArrive
<1>1. OutputInv => ReportsArrive
  <2> SUFFICES ASSUME OutputInv, hog = [queue |-> <<>>, running |-> FALSE],
                      ~history.lost, ~history.started
               PROVE  LET target == IF ep.current[1] = "usb" THEN "usb" ELSE ble.bond[ble.active] IN
                      target # Nobody => view[target] = keyReport
    BY DEF ReportsArrive
  <2>1. Arrived /\ hog.queue = <<>>
    BY DEF OutputInv, ArriveInv
  <2> QED
    BY <2>1 DEF Arrived
<1> QED
  BY <1>1, OutputInvariant, PTL
=============================================================================
