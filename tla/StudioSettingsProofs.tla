------------------------- MODULE StudioSettingsProofs -------------------------
(* Proofs about StudioSettings: types, sound layer orders, and that what ZMK  *)
(* Studio is told of unsaved changes is true.                                 *)
EXTENDS StudioSettings, TLAPS

LEMMA Counts ==
  /\ LayerCount \in Nat \ {0} /\ CellCount \in Nat /\ ConfigCount \in Nat
  /\ StockCount \in 1 .. LayerCount
BY SettingsAssumption DEF ConfigCount

\* The kinds of settings
LEMMA Kinds ==
  ASSUME NEW k \in Keys
  PROVE  \/ k \in CellKeys /\ k[1] = "cell" /\ k[2] \in Cells /\ k = Cell(k[2])
         \/ k \in NameKeys /\ k[1] = "name" /\ k[2] \in Layers /\ k = Name(k[2])
         \/ k \in ConfigKeys /\ k[1] = "config" /\ k[2] \in ConfigIds /\ k = Config(k[2])
         \/ k = Layout /\ k[1] = "layout"
         \/ k = Order /\ k[1] = "order"
BY DEF Keys, CellKeys, NameKeys, ConfigKeys, Cell, Name, Config, Layout, Order

LEMMA KindOf ==
  /\ \A k \in CellKeys : k \in Keys /\ k[1] = "cell"
  /\ \A k \in NameKeys : k \in Keys /\ k[1] = "name"
  /\ \A k \in ConfigKeys : k \in Keys /\ k[1] = "config"
  /\ Layout \in Keys /\ Layout[1] = "layout"
  /\ Order \in Keys /\ Order[1] = "order"
BY DEF Keys, CellKeys, NameKeys, ConfigKeys, Cell, Name, Config, Layout, Order

\* save_changes comes to each setting at a place of its own, before the end
LEMMA SavePlaces ==
  ASSUME NEW k \in Keys
  PROVE  /\ SavePlace(k) \in 0 .. SaveLength - 1
         /\ \A j \in Keys : SavePlace(j) = SavePlace(k) => j = k
<1>1. \A j \in Keys : /\ SavePlace(j) \in 0 .. SaveLength - 1
                      /\ j[1] = "layout" <=> SavePlace(j) = 0
                      /\ j[1] = "cell" <=> SavePlace(j) \in 1 .. CellCount
                      /\ j[1] = "order" <=> SavePlace(j) = 1 + CellCount
                      /\ j[1] = "name" <=> SavePlace(j) \in 2 + CellCount .. 1 + CellCount + LayerCount
                      /\ j[1] = "config" <=> SavePlace(j) >= 2 + CellCount + LayerCount
  <2> TAKE j \in Keys
  <2> QED
    BY Kinds, Counts DEF SavePlace, SaveLength, Cells, Layers, ConfigIds
<1>2. ASSUME NEW j \in Keys, SavePlace(j) = SavePlace(k)
      PROVE  j = k
  <2>1. j[1] = k[1]
    BY <1>1, <1>2, Kinds
  <2>2. j[1] \in {"cell", "name", "config"} => j[2] = k[2]
    <3> DEFINE Base == CASE j[1] = "cell" -> 1
                         [] j[1] = "name" -> 2 + CellCount
                         [] j[1] = "config" -> 2 + CellCount + LayerCount
    <3> SUFFICES ASSUME j[1] \in {"cell", "name", "config"}
                 PROVE  j[2] = k[2]
      OBVIOUS
    <3>1. j[2] \in Int /\ k[2] \in Int
      BY <2>1, Kinds DEF Cells, Layers, ConfigIds
    <3>2. Base \in Int
      BY Counts
    <3>3. SavePlace(j) = Base + j[2] /\ SavePlace(k) = Base + k[2]
      BY <2>1 DEF SavePlace
    <3>4. \A b, x, y \in Int : b + x = b + y => x = y
      OBVIOUS
    <3>5. Base + j[2] = Base + k[2]
      BY <1>2, <3>3
    <3> HIDE DEF Base
    <3> QED
      BY <3>1, <3>2, <3>4, <3>5
  <2>3. j[1] \in {"cell", "name", "config", "layout", "order"}
    BY Kinds
  <2> QED
    BY <2>1, <2>2, <2>3, Kinds DEF Cell, Name, Config
<1> QED
  BY <1>1, <1>2
-----------------------------------------------------------------------------
\* The values that are in the program from the start
LEMMA StockType ==
  ASSUME NEW k \in Keys
  PROVE  Stock(k) \in RamValues(k)
<1>1. StockOrder \in Orders
  BY Counts DEF StockOrder, Orders, Layers
<1> QED
  BY <1>1, Kinds, SettingsAssumption DEF Stock, RamValues

LEMMA KeptType ==
  ASSUME TypeOK, NEW k \in Keys
  PROVE  Kept(k) \in RamValues(k)
BY StockType DEF Kept, TypeOK

LEMMA StockSettingsOrderType ==
  ASSUME NEW old \in Orders
  PROVE  StockSettingsOrder(old) \in Orders
BY Counts DEF StockSettingsOrder, Orders, Layers

LEMMA LoadOrderType ==
  ASSUME TypeOK, NEW old \in Orders
  PROVE  LoadOrder(old) \in Orders
BY StockSettingsOrderType, KindOf DEF LoadOrder, TypeOK, Loaded, RamValues

\* What is stored of a value loads as a value of the setting, shown the same
LEMMA StoredLoads ==
  ASSUME NEW k \in Keys, NEW v \in RamValues(k)
  PROVE  /\ Stored(k, v) # None
         /\ Loaded(k, Stored(k, v)) \in RamValues(k)
         /\ Stored(k, Loaded(k, Stored(k, v))) = Stored(k, v)
BY Kinds, SettingsAssumption DEF Stored, Loaded, RamValues, Orders
-----------------------------------------------------------------------------
(* Edits keep a layer order sound.                                          *)

\* A sound order read both ways: places in use are in front, ids are unique
LEMMA SoundFacts ==
  ASSUME NEW o, Sound(o)
  PROVE  /\ \A i, j \in Layers : o[i] # Inval /\ j <= i => o[j] # Inval
         /\ \A i, j \in Layers : o[i] # Inval /\ o[j] = o[i] => j = i
<1>1. \A i, j \in Layers : i < j \/ j < i \/ i = j
  BY DEF Layers
<1>2. \A i, j \in Layers : j <= i => j < i \/ j = i
  BY DEF Layers
<1> QED
  BY <1>1, <1>2 DEF Sound

LEMMA MovedSound ==
  ASSUME NEW o \in Orders, Sound(o), NEW from \in Layers, NEW to \in Layers,
         o[from] # Inval, o[to] # Inval
  PROVE  Moved(o, from, to) \in Orders /\ Sound(Moved(o, from, to))
<1> DEFINE p == [i \in Layers |-> IF i = to THEN from
                                   ELSE IF from <= i /\ i < to THEN i + 1
                                   ELSE IF to < i /\ i <= from THEN i - 1
                                   ELSE i]
           m == Moved(o, from, to)
<1>1. /\ \A i \in Layers : p[i] \in Layers
      /\ \A i, j \in Layers : j < i => p[j] # p[i]
      /\ \A i \in Layers : (i <= from \/ i <= to) => (p[i] <= from \/ p[i] <= to)
      /\ \A i \in Layers : ~(i <= from \/ i <= to) => p[i] = i
  BY Counts DEF Layers
<1>2. \A i \in Layers : m[i] = o[p[i]]
  BY DEF Moved
<1>3. m \in Orders
  BY <1>1 DEF Moved, Orders, Layers
<1>4. \A i \in Layers : m[i] # Inval <=> o[i] # Inval
  BY <1>1, <1>2, SoundFacts
<1>5. Sound(m)
  <2> SUFFICES ASSUME NEW i \in Layers, NEW j \in Layers, m[i] # Inval, j < i
               PROVE  m[j] # Inval /\ m[j] # m[i]
    BY DEF Sound
  <2>1. m[j] # Inval
    BY <1>4 DEF Sound
  <2>2. m[j] # m[i]
    BY <1>1, <1>2, SoundFacts
  <2> QED
    BY <2>1, <2>2
<1> QED
  BY <1>3, <1>5

\* The place index, in use or the first that is not, gets an id that is new,
\* and what was there and behind moves up.
LEMMA RestoredSound ==
  ASSUME NEW o \in Orders, Sound(o), NEW id \in Layers, NEW index \in Layers,
         \A i \in Layers : o[i] # id,
         \A j \in Layers : j < index => o[j] # Inval,
         NEW m, m = [i \in Layers |-> IF i < index THEN o[i]
                                     ELSE IF i = index THEN id ELSE o[i - 1]]
  PROVE  m \in Orders /\ Sound(m)
<1>1. \A i \in Layers : i > index => i - 1 \in Layers /\ i - 1 >= index
  BY Counts DEF Layers
<1>2. m \in Orders
  BY <1>1 DEF Orders, Layers
<1>3. id # Inval
  BY SettingsAssumption
<1>4. Sound(m)
  <2> SUFFICES ASSUME NEW i \in Layers, NEW j \in Layers, m[i] # Inval, j < i
               PROVE  m[j] # Inval /\ m[j] # m[i]
    BY DEF Sound
  <2>1. CASE i <= index
    BY <2>1, <1>3, SoundFacts DEF Layers
  <2>2. CASE i > index
    <3>1. i - 1 \in Layers /\ m[i] = o[i - 1] /\ o[i - 1] # Inval
      BY <2>2, <1>1 DEF Layers
    <3>2. CASE j <= index
      BY <2>2, <3>1, <3>2, <1>3, SoundFacts DEF Layers
    <3>3. CASE j > index
      <4>1. j - 1 \in Layers /\ m[j] = o[j - 1] /\ j - 1 < i - 1
        BY <3>3, <1>1 DEF Layers
      <4> QED
        BY <3>1, <4>1, SoundFacts DEF Sound
    <3> QED
      BY <3>2, <3>3 DEF Layers
  <2> QED
    BY <2>1, <2>2 DEF Layers
<1> QED
  BY <1>2, <1>4

LEMMA AddedSound ==
  ASSUME NEW o \in Orders, Sound(o), NEW id \in Layers, NEW index \in Layers,
         o[index] = Inval,
         \A j \in Layers : j < index => o[j] # Inval /\ o[j] # id
  PROVE  [o EXCEPT ![index] = id] \in Orders /\ Sound([o EXCEPT ![index] = id])
<1> DEFINE m == [o EXCEPT ![index] = id]
<1>1. /\ m \in Orders /\ m[index] = id /\ id # Inval
      /\ \A i \in Layers : i # index => m[i] = o[i]
  BY SettingsAssumption DEF Orders
<1>2. \A i \in Layers : i > index => o[i] = Inval
  BY SoundFacts DEF Layers
<1>3. \A i \in Layers : m[i] # Inval => i <= index
  BY <1>1, <1>2 DEF Layers
<1>4. Sound(m)
  <2> SUFFICES ASSUME NEW i \in Layers, NEW j \in Layers, m[i] # Inval, j < i
               PROVE  m[j] # Inval /\ m[j] # m[i]
    BY DEF Sound
  <2>1. i <= index /\ j < index
    BY <1>3 DEF Layers
  <2> QED
    BY <1>1, <2>1, SoundFacts DEF Layers
<1> QED
  BY <1>1, <1>4

LEMMA RemovedSound ==
  ASSUME NEW o \in Orders, Sound(o), NEW index \in Layers, o[index] # Inval,
         NEW m, m = [i \in Layers |-> IF i < index THEN o[i]
                                     ELSE IF i = LayerCount - 1 THEN Inval ELSE o[i + 1]]
  PROVE  m \in Orders /\ Sound(m)
<1>1. \A i \in Layers : i # LayerCount - 1 => i + 1 \in Layers
  BY Counts DEF Layers
<1>2. m \in Orders
  BY <1>1 DEF Orders
<1>3. Sound(m)
  <2> SUFFICES ASSUME NEW i \in Layers, NEW j \in Layers, m[i] # Inval, j < i
               PROVE  m[j] # Inval /\ m[j] # m[i]
    BY DEF Sound
  <2> DEFINE q(n) == IF n < index THEN n ELSE n + 1
  <2>1. /\ q(i) \in Layers /\ m[i] = o[q(i)]
        /\ q(j) \in Layers /\ m[j] = o[q(j)]
        /\ q(j) < q(i)
    BY <1>1, Counts DEF Layers
  <2> HIDE DEF q
  <2> QED
    BY <2>1 DEF Sound
<1> QED
  BY <1>2, <1>3

LEMMA StockSound == Sound(StockOrder)
<1>1. \A i \in Layers : i < StockCount => i # Inval
  BY SettingsAssumption
<1> QED
  BY <1>1, Counts DEF Sound, StockOrder, Layers
-----------------------------------------------------------------------------
(* Types and sound orders, step by step.                                    *)

Typed == TypeOK /\ OrderSound

LEMMA ExceptKeys ==
  ASSUME NEW f, f = [k \in Keys |-> f[k]], NEW k \in Keys, NEW v,
         NEW g, g = [f EXCEPT ![k] = v]
  PROVE  /\ g = [j \in Keys |-> g[j]]
         /\ g[k] = v /\ \A j \in Keys : j # k => g[j] = f[j]
OBVIOUS

\* What any edit does to a state
LEMMA EditFacts ==
  ASSUME Typed, NEW k \in Keys, NEW v \in RamValues(k), Edit(k, v),
         dirty' \subseteq CellKeys \cup NameKeys,
         k = Order => Sound(v)
  PROVE  /\ Typed' /\ ram'[k] = v /\ \A j \in Keys : j # k => ram'[j] = ram[j]
         /\ \A j \in Keys : Kept(j)' = Kept(j)
         /\ \A j \in Keys : j # k => Synced(j)' = Synced(j)
<1>1. /\ ram' = [j \in Keys |-> ram'[j]]
      /\ ram'[k] = v /\ \A j \in Keys : j # k => ram'[j] = ram[j]
  BY ExceptKeys DEF Edit, Typed, TypeOK
<1>2. \A j \in Keys : ram'[j] \in RamValues(j)
  BY <1>1 DEF Typed, TypeOK
<1>3. edits' \in 0 .. MaxEdits
  <2>1. edits \in 0 .. MaxEdits /\ edits < MaxEdits /\ edits' = edits + 1
    BY DEF Edit, Typed, TypeOK
  <2>2. MaxEdits \in Nat
    BY SettingsAssumption
  <2> QED
    BY <2>1, <2>2
<1>4. TypeOK'
  BY <1>1, <1>2, <1>3 DEF Edit, Typed, TypeOK
<1>5. OrderSound'
  BY <1>1, KindOf DEF OrderSound, Typed, Edit
<1>6. \A j \in Keys : Kept(j)' = Kept(j)
  BY DEF Kept, Edit
<1> QED
  BY <1>1, <1>4, <1>5, <1>6 DEF Typed, Synced

\* An edit of the order, one of four
LEMMA OrderEdit ==
  ASSUME Typed, NEW o \in Orders, Sound(o), EditOrder(o)
  PROVE  Typed'
<1>1. Order \in Keys /\ o \in RamValues(Order)
  BY KindOf DEF RamValues
<1> QED
  BY <1>1, EditFacts DEF EditOrder, Typed, TypeOK

LEMMA EditTyped ==
  ASSUME Typed, MakeEdit
  PROVE  Typed'
<1> DEFINE o == ram[Order]
<1>1. o \in Orders /\ Sound(o)
  BY KindOf DEF Typed, TypeOK, OrderSound, RamValues
<1> HIDE DEF o
<1>2. CASE \E n \in Cells, b \in Bindings : SetLayerBinding(n, b)
  <2> PICK n \in Cells, b \in Bindings : SetLayerBinding(n, b)
    BY <1>2
  <2>1. Cell(n) \in CellKeys /\ [bind |-> b, id |-> FALSE] \in RamValues(Cell(n))
    BY KindOf DEF CellKeys, RamValues
  <2>2. dirty' \subseteq CellKeys \cup NameKeys
    BY <2>1 DEF SetLayerBinding, Typed, TypeOK
  <2> QED
    BY <2>1, <2>2, KindOf, EditFacts DEF SetLayerBinding
<1>3. CASE \E l \in Layers, name \in Names : SetLayerName(l, name)
  <2> PICK l \in Layers, name \in Names : SetLayerName(l, name)
    BY <1>3
  <2>1. Name(l) \in NameKeys /\ name \in RamValues(Name(l))
    BY KindOf DEF NameKeys, RamValues
  <2>2. dirty' \subseteq CellKeys \cup NameKeys
    BY <2>1 DEF SetLayerName, Typed, TypeOK
  <2> QED
    BY <2>1, <2>2, KindOf, EditFacts DEF SetLayerName
<1>4. CASE \E x \in Layouts : SelectLayout(x)
  <2> PICK x \in Layouts : SelectLayout(x)
    BY <1>4
  <2>1. x \in RamValues(Layout)
    BY KindOf DEF RamValues
  <2> QED
    BY <2>1, KindOf, EditFacts DEF SelectLayout, Typed, TypeOK
<1>5. CASE \E n \in ConfigIds, v \in Configs : SetConfig(n, v)
  <2> PICK n \in ConfigIds, v \in Configs : SetConfig(n, v)
    BY <1>5
  <2>1. Config(n) \in ConfigKeys /\ v \in RamValues(Config(n))
    BY KindOf DEF ConfigKeys, RamValues
  <2> QED
    BY <2>1, KindOf, EditFacts DEF SetConfig, Typed, TypeOK
<1>6. CASE \E i, j \in Layers : MoveLayer(i, j)
  BY <1>1, <1>6, MovedSound, OrderEdit DEF MoveLayer, Used, o
<1>7. CASE \E i, j \in Layers : RestoreLayer(i, j)
  <2> PICK id \in Layers, index \in Layers : RestoreLayer(id, index)
    BY <1>7
  <2> DEFINE m == [i \in Layers |-> IF i < index THEN o[i]
                                   ELSE IF i = index THEN id ELSE o[i - 1]]
  <2>1. EditOrder(m)
    BY DEF RestoreLayer, o
  <2>2. m \in Orders /\ Sound(m)
    BY <1>1, RestoredSound DEF RestoreLayer, Used, o
  <2> QED
    BY <2>1, <2>2, OrderEdit
<1>8. CASE \E i \in Layers : RemoveLayer(i)
  <2> PICK index \in Layers : RemoveLayer(index)
    BY <1>8
  <2> DEFINE m == [i \in Layers |-> IF i < index THEN o[i]
                                   ELSE IF i = LayerCount - 1 THEN Inval ELSE o[i + 1]]
  <2>1. EditOrder(m)
    BY DEF RemoveLayer, o
  <2>2. m \in Orders /\ Sound(m)
    BY <1>1, RemovedSound DEF RemoveLayer, Used, o
  <2> QED
    BY <2>1, <2>2, OrderEdit
<1>9. CASE AddLayer
  <2> PICK i \in Layers \ Used, id \in Layers :
             /\ \A j \in Layers : j < i => j \in Used
             /\ id \notin {ram[Order][j] : j \in 0 .. i - 1}
             /\ EditOrder([ram[Order] EXCEPT ![i] = id])
    BY <1>9 DEF AddLayer
  <2>1. \A j \in Layers : j < i => j \in 0 .. i - 1
    BY DEF Layers
  <2>2. \A j \in Layers : j < i => o[j] # Inval /\ o[j] # id
    BY <2>1 DEF Used, o
  <2>3. o[i] = Inval
    BY DEF Used, o
  <2>4. [o EXCEPT ![i] = id] \in Orders /\ Sound([o EXCEPT ![i] = id])
    BY <1>1, <2>2, <2>3, AddedSound
  <2> QED
    BY <2>4, OrderEdit DEF o
<1> QED
  BY <1>2, <1>3, <1>4, <1>5, <1>6, <1>7, <1>8, <1>9 DEF MakeEdit

LEMMA InitTyped ==
  ASSUME Init
  PROVE  Typed
<1>1. \A k \in Keys : ram[k] \in RamValues(k)
  BY StockType DEF Init
<1>2. settingsOrder \in Orders
  <2>1. [i \in Layers |-> 0] \in Orders
    BY Counts DEF Orders, Layers
  <2> QED
    BY <2>1, StockSettingsOrderType DEF Init
<1>3. edits \in 0 .. MaxEdits
  BY SettingsAssumption DEF Init
<1>4. TypeOK
  BY <1>1, <1>2, <1>3 DEF Init, TypeOK
<1>5. OrderSound
  BY KindOf, StockSound DEF Init, OrderSound, Stock
<1> QED
  BY <1>4, <1>5 DEF Typed

\* Marks are only taken away by a save
LEMMA CleanMarks ==
  ASSUME Typed, NEW k
  PROVE  Clean(k) \subseteq dirty
BY DEF Clean

LEMMA WriteTyped ==
  ASSUME Typed, NEW k \in Keys, Write(k)
  PROVE  /\ Typed' /\ flash'[k] = Stored(k, ram[k])
         /\ \A j \in Keys : j # k => flash'[j] = flash[j]
<1>1. /\ flash' = [j \in Keys |-> flash'[j]]
      /\ flash'[k] = Stored(k, ram[k]) /\ \A j \in Keys : j # k => flash'[j] = flash[j]
  BY ExceptKeys DEF Write, Typed, TypeOK
<1>2. ram[k] \in RamValues(k) /\ ram' = ram
  BY DEF Write, Typed, TypeOK
<1>3. \A j \in Keys : flash'[j] # None => Loaded(j, flash'[j]) \in RamValues(j)
  BY <1>1, <1>2, StoredLoads DEF Typed, TypeOK
<1>4. settingsOrder' \in Orders
  BY KindOf DEF Write, Typed, TypeOK, RamValues
<1>5. at' \in Nat
  <2>1. at \in Nat /\ at' = at + 1
    BY DEF Write, Typed, TypeOK
  <2> QED
    BY <2>1
<1>6. dirty' \subseteq CellKeys \cup NameKeys
  BY CleanMarks DEF Write, Typed, TypeOK
<1>7. TypeOK'
  BY <1>1, <1>3, <1>4, <1>5, <1>6 DEF Write, Typed, TypeOK
<1>8. OrderSound'
  BY <1>1, <1>2, KindOf DEF OrderSound, Typed, Stored
<1> QED
  BY <1>1, <1>7, <1>8 DEF Typed

LEMMA SkipTyped ==
  ASSUME Typed, NEW k \in Keys, Skip(k)
  PROVE  Typed'
<1>1. at' \in Nat
  <2>1. at \in Nat /\ at' = at + 1
    BY DEF Skip, Typed, TypeOK
  <2> QED
    BY <2>1
<1>2. dirty' \subseteq CellKeys \cup NameKeys
  BY CleanMarks DEF Skip, Typed, TypeOK
<1> QED
  BY <1>1, <1>2 DEF Skip, Typed, TypeOK, OrderSound

LEMMA GiveUpTyped ==
  ASSUME Typed, NEW answer \in {"not saved", "not reset"}, GiveUp(answer)
  PROVE  Typed'
BY DEF GiveUp, Typed, TypeOK, OrderSound

LEMMA SaveOneTyped ==
  ASSUME Typed, SaveOne
  PROVE  Typed'
BY WriteTyped, SkipTyped, GiveUpTyped DEF SaveOne

LEMMA DiscardTyped ==
  ASSUME Typed, DiscardChanges
  PROVE  Typed'
<1>1. /\ ram' = [k \in Keys |-> ram'[k]]
      /\ \A k \in Keys : ram'[k] \in {DefaultLayout, ram[k], Kept(k)}
      /\ ram'[Layout] = DefaultLayout
      /\ \A k \in Keys : k # Layout => ram'[k] \in {ram[k], Kept(k)}
  <2> DEFINE new == [k \in Keys |-> IF k = Layout THEN DefaultLayout
                                    ELSE IF k \in NameKeys /\ flash[k] = None THEN ram[k]
                                    ELSE Kept(k)]
  <2>1. ram' = new
    BY DEF DiscardChanges
  <2>2. \A k \in Keys : new[k] = IF k = Layout THEN DefaultLayout
                                  ELSE IF k \in NameKeys /\ flash[k] = None THEN ram[k]
                                  ELSE Kept(k)
    OBVIOUS
  <2>3. new = [k \in Keys |-> new[k]]
    OBVIOUS
  <2> HIDE DEF new
  <2> QED
    BY <2>1, <2>2, <2>3, KindOf
<1>2. \A k \in Keys : ram'[k] \in RamValues(k)
  <2>1. DefaultLayout \in RamValues(Layout)
    BY KindOf, SettingsAssumption DEF RamValues
  <2> QED
    BY <1>1, <2>1, KeptType DEF Typed, TypeOK
<1>3. settingsOrder' \in Orders
  BY LoadOrderType DEF DiscardChanges, Typed, TypeOK
<1>4. TypeOK'
  BY <1>1, <1>2, <1>3 DEF DiscardChanges, Typed, TypeOK
<1>5. Sound(Kept(Order)) /\ ram'[Order] \in {ram[Order], Kept(Order)}
  <2>1. Order # Layout
    BY KindOf
  <2> QED
    BY <1>1, <2>1, KindOf, StockSound DEF Kept, Loaded, Stock, Typed, OrderSound
<1>6. OrderSound'
  BY <1>5 DEF OrderSound, Typed, DiscardChanges
<1> QED
  BY <1>4, <1>6 DEF Typed

LEMMA ResetOneTyped ==
  ASSUME Typed, ResetOne
  PROVE  Typed'
<1> PICK k \in Keys :
      /\ ram' = Defaults(k)
      /\ \/ /\ flash' = IF ToDelete(k) THEN [flash EXCEPT ![k] = None] ELSE flash
            /\ UNCHANGED failed
         \/ ToDelete(k) /\ failed' = (failed \/ k \in ConfigKeys) /\ UNCHANGED flash
      /\ at' = at + 1
      /\ UNCHANGED <<dirty, settingsOrder, job, reply, told, since, edits>>
  BY DEF ResetOne
<1>1. /\ ram' = [j \in Keys |-> ram'[j]]
      /\ \A j \in Keys : ram'[j] \in {ram[j], Stock(j)}
  <2>1. ram' \in {ram, [ram EXCEPT ![k] = Stock(k)]}
    BY DEF Defaults
  <2> QED
    BY <2>1, ExceptKeys DEF Typed, TypeOK
<1>2. /\ flash' = [j \in Keys |-> flash'[j]]
      /\ \A j \in Keys : flash'[j] \in {flash[j], None}
  <2>1. flash' \in {flash, [flash EXCEPT ![k] = None]}
    OBVIOUS
  <2> QED
    BY <2>1, ExceptKeys DEF Typed, TypeOK
<1>3. failed' \in BOOLEAN
  BY DEF Typed, TypeOK
<1>4. at' \in Nat
  <2>1. at \in Nat /\ at' = at + 1
    BY DEF Typed, TypeOK
  <2> QED
    BY <2>1
<1>5. TypeOK'
  BY <1>1, <1>2, <1>3, <1>4, StockType DEF Typed, TypeOK
<1>6. OrderSound'
  BY <1>1, <1>2, KindOf, StockSound DEF OrderSound, Typed, Stock
<1> QED
  BY <1>5, <1>6 DEF Typed

LEMMA ResetDoneTyped ==
  ASSUME Typed, ResetDone
  PROVE  Typed'
<1>1. /\ ram' = [k \in Keys |-> ram'[k]]
      /\ \A k \in Keys : ram'[k] \in {ram[k], Stock(k)}
  BY DEF ResetDone
<1>2. settingsOrder' \in Orders
  BY StockSettingsOrderType DEF ResetDone, Typed, TypeOK
<1>3. TypeOK'
  BY <1>1, <1>2, StockType DEF ResetDone, Typed, TypeOK
<1>4. OrderSound'
  BY <1>1, KindOf, StockSound DEF OrderSound, Typed, Stock, ResetDone
<1> QED
  BY <1>3, <1>4 DEF Typed

LEMMA RestartTyped ==
  ASSUME Typed, Restart
  PROVE  Typed'
<1>1. ram' = [k \in Keys |-> ram'[k]] /\ \A k \in Keys : ram'[k] = Kept(k)
  BY DEF Restart
<1>2. settingsOrder' \in Orders
  <2>1. [i \in Layers |-> 0] \in Orders
    BY Counts DEF Orders, Layers
  <2> QED
    BY <2>1, LoadOrderType DEF Restart, Typed
<1>3. TypeOK'
  BY <1>1, <1>2, KeptType DEF Restart, Typed, TypeOK
<1>4. OrderSound'
  BY <1>1, KindOf, StockSound DEF OrderSound, Typed, Restart, Kept, Loaded, Stock
<1> QED
  BY <1>3, <1>4 DEF Typed

LEMMA NextTyped ==
  ASSUME Typed, [Next]_vars
  PROVE  Typed'
<1>1. CASE StartSave
  BY <1>1 DEF StartSave, Typed, TypeOK, OrderSound
<1>2. CASE SaveDone
  BY <1>2 DEF SaveDone, Typed, TypeOK, OrderSound
<1>3. CASE StartReset
  BY <1>3 DEF StartReset, Typed, TypeOK, OrderSound
<1>4. CASE ResetStopped
  BY <1>4, GiveUpTyped DEF ResetStopped
<1>5. CASE UNCHANGED vars
  BY <1>5 DEF vars, Typed, TypeOK, OrderSound
<1> QED
  BY <1>1, <1>2, <1>3, <1>4, <1>5, EditTyped, SaveOneTyped, DiscardTyped, ResetOneTyped,
     ResetDoneTyped, RestartTyped DEF Next

\* The variables have their types and no layer order, in RAM or in flash, has a
\* gap or gives a layer twice, whatever is edited, saved, discarded or reset.
THEOREM OrdersStaySound == Spec => []StateSound
<1>1. Spec => []Typed
  BY InitTyped, NextTyped, PTL DEF Spec
<1> QED
  BY <1>1, PTL DEF Typed, StateSound
-----------------------------------------------------------------------------
(* The invariant behind ReportedWhenDiffers and ToldTheTruth.  While no     *)
(* reset ran since power-up: what is not marked is in flash, a save has     *)
(* written what it is past, and settings_layer_orders is the order in flash *)
(* or, when there is none, the stock order with zeros behind it.            *)

OrderKnown ==
  /\ flash[Order] # None => settingsOrder = flash[Order]
  /\ flash[Order] = None =>
       \A i \in Layers : settingsOrder[i] = IF i < StockCount THEN i ELSE 0
UnmarkedSynced ==
  /\ \A k \in CellKeys \ dirty : Synced(k)
  /\ "discard" \notin since => \A k \in NameKeys \ dirty : Synced(k)
\* k need not count, for it is a name and names were forgotten in a discard
Done(k) == Synced(k) \/ (k \in NameKeys /\ "discard" \in since)
SavedSoFar == job = "save" => \A k \in Keys : SavePlace(k) < at => Done(k)

Agrees ==
  /\ "reset" \notin since => job # "reset" /\ OrderKnown /\ UnmarkedSynced /\ SavedSoFar
  /\ ToldTheTruth

\* An edit changes one setting, and marks it unless it is not one of those or stays
LEMMA EditShape ==
  ASSUME MakeEdit
  PROVE  \E k \in Keys : \E v :
           /\ Edit(k, v) /\ dirty \subseteq dirty'
           /\ k \in (CellKeys \cup NameKeys) \ dirty' => v = ram[k]
<1>1. CASE \E n \in Cells, b \in Bindings : SetLayerBinding(n, b)
  <2> PICK n \in Cells, b \in Bindings : SetLayerBinding(n, b)
    BY <1>1
  <2>1. Cell(n) \in Keys
    BY DEF Keys, CellKeys
  <2> QED
    BY <2>1 DEF SetLayerBinding
<1>2. CASE \E l \in Layers, name \in Names : SetLayerName(l, name)
  BY <1>2 DEF SetLayerName, Keys, NameKeys
<1>3. CASE \E x \in Layouts : SelectLayout(x)
  BY <1>3, KindOf DEF SelectLayout
<1>4. CASE \E n \in ConfigIds, v \in Configs : SetConfig(n, v)
  <2> PICK n \in ConfigIds, v \in Configs : SetConfig(n, v)
    BY <1>4
  <2>1. Config(n) \in ConfigKeys
    BY DEF ConfigKeys
  <2> QED
    BY <2>1, KindOf DEF SetConfig
<1>5. CASE \E o : EditOrder(o)
  BY <1>5, KindOf DEF EditOrder
<1>6. \/ \E i, j \in Layers : MoveLayer(i, j) \/ RestoreLayer(i, j)
      \/ \E i \in Layers : RemoveLayer(i)
      \/ AddLayer
      => \E o : EditOrder(o)
  BY DEF MoveLayer, RestoreLayer, RemoveLayer, AddLayer
<1> QED
  BY <1>1, <1>2, <1>3, <1>4, <1>5, <1>6 DEF MakeEdit

LEMMA EditAgrees ==
  ASSUME Typed, Agrees, MakeEdit
  PROVE  Agrees'
<1> PICK k \in Keys : \E v :
      /\ Edit(k, v) /\ dirty \subseteq dirty'
      /\ k \in (CellKeys \cup NameKeys) \ dirty' => v = ram[k]
  BY EditShape
<1> PICK v :
      /\ Edit(k, v) /\ dirty \subseteq dirty'
      /\ k \in (CellKeys \cup NameKeys) \ dirty' => v = ram[k]
  OBVIOUS
<1>1. ram'[k] = v /\ \A j \in Keys : j # k => ram'[j] = ram[j]
  BY ExceptKeys DEF Edit, Typed, TypeOK
<1>2. \A j \in Keys : Kept(j)' = Kept(j)
  BY DEF Kept, Edit
<1>3. \A j \in (CellKeys \cup NameKeys) \ dirty' : j \in Keys /\ j \notin dirty /\ ram'[j] = ram[j]
  BY <1>1, KindOf
<1>4. \A j \in (CellKeys \cup NameKeys) \ dirty' : Synced(j)' = Synced(j)
  BY <1>2, <1>3 DEF Synced
<1>5. since' = since /\ job' = "idle" /\ flash' = flash /\ settingsOrder' = settingsOrder
      /\ told' = "unsaved"
  BY DEF Edit
<1>6. UnmarkedSynced => UnmarkedSynced'
  BY <1>3, <1>4, <1>5 DEF UnmarkedSynced
<1> QED
  BY <1>5, <1>6 DEF Agrees, ToldTheTruth, OrderKnown, SavedSoFar

\* What is synced stays so when flash gets a value as it is in use
LEMMA WriteSyncs ==
  ASSUME Typed, NEW k \in Keys, Write(k)
  PROVE  /\ Synced(k)' /\ \A j \in Keys : Synced(j) => Synced(j)'
<1>1. /\ flash'[k] = Stored(k, ram[k]) /\ ram' = ram
      /\ \A j \in Keys : j # k => flash'[j] = flash[j]
  BY WriteTyped DEF Write
<1>2. /\ Stored(k, ram[k]) # None
      /\ Stored(k, Loaded(k, Stored(k, ram[k]))) = Stored(k, ram[k])
  BY StoredLoads DEF Typed, TypeOK
<1>3. Synced(k)'
  BY <1>1, <1>2 DEF Synced, Kept
<1>4. \A j \in Keys : j # k => Synced(j)' = Synced(j)
  BY <1>1 DEF Synced, Kept
<1> QED
  BY <1>3, <1>4

\* A save that is at the last name is past all others
LEMMA NamesInOrder ==
  ASSUME NEW l \in Layers
  PROVE  Name(l) \in Keys /\ SavePlace(Name(l)) <= SavePlace(Name(LayerCount - 1))
<1>1. Name(l)[1] = "name" /\ Name(l)[2] = l /\ Name(LayerCount - 1)[1] = "name"
      /\ Name(LayerCount - 1)[2] = LayerCount - 1
  BY DEF Name
<1> QED
  BY <1>1, Counts DEF SavePlace, Layers, Keys, NameKeys

\* One setting done by a save that is written, or needs no writing
LEMMA SaveStep ==
  ASSUME Typed, "reset" \notin since, UnmarkedSynced, SavedSoFar,
         job = "save", NEW k \in Keys, SavePlace(k) = at,
         dirty' = Clean(k), at' = at + 1, since' = since,
         Done(k)', \A j \in Keys : Synced(j) => Synced(j)'
  PROVE  UnmarkedSynced' /\ SavedSoFar'
<1>1. \A j \in Keys : Done(j) => Done(j)'
  BY DEF Done
<1>2. \A j \in Keys : SavePlace(j) \in Int /\ (SavePlace(j) = SavePlace(k) => j = k)
  BY SavePlaces
<1>3. at \in Nat
  BY DEF Typed, TypeOK
<1>4. \A j \in Keys : SavePlace(j) <= at => Done(j)'
  BY <1>1, <1>2, <1>3 DEF SavedSoFar
<1>5. SavedSoFar'
  BY <1>2, <1>3, <1>4 DEF SavedSoFar
<1>6. \A j \in CellKeys \ dirty' : Synced(j)'
  <2> TAKE j \in CellKeys \ dirty'
  <2>1. j \in Keys /\ j \notin NameKeys
    BY KindOf
  <2>2. CASE j \notin dirty
    BY <2>1, <2>2 DEF UnmarkedSynced
  <2>3. CASE j \in dirty
    <3>1. j = k
      BY <2>1, <2>3 DEF Clean
    <3> QED
      BY <3>1, <2>1 DEF Done
  <2> QED
    BY <2>2, <2>3
<1>7. ASSUME "discard" \notin since, NEW j \in NameKeys \ dirty'
      PROVE  Synced(j)'
  <2>1. j \in Keys /\ j \notin CellKeys
    BY KindOf
  <2>2. CASE j \notin dirty
    BY <1>7, <2>1, <2>2 DEF UnmarkedSynced
  <2>3. CASE j \in dirty
    <3>1. k = Name(LayerCount - 1)
      BY <2>1, <2>3, KindOf DEF Clean
    <3>2. SavePlace(j) <= at
      BY <3>1, NamesInOrder DEF NameKeys
    <3>3. Done(j)'
      BY <2>1, <3>2, <1>4
    <3> QED
      BY <1>7, <3>3 DEF Done
  <2> QED
    BY <2>2, <2>3
<1> QED
  BY <1>5, <1>6, <1>7 DEF UnmarkedSynced

LEMMA SaveOneAgrees ==
  ASSUME Typed, Agrees, SaveOne
  PROVE  Agrees'
<1> PICK k \in Keys :
      /\ job = "save" /\ SavePlace(k) = at
      /\ \/ ToSave(k) /\ Write(k)
         \/ ToSave(k) /\ GiveUp("not saved")
         \/ ~ToSave(k) /\ Skip(k)
  BY DEF SaveOne
<1>1. CASE Write(k)
  <2>1. /\ dirty' = Clean(k) /\ at' = at + 1 /\ since' = since /\ job' = job /\ told' = told
        /\ ram' = ram /\ settingsOrder' = IF k = Order THEN ram[Order] ELSE settingsOrder
    BY <1>1 DEF Write
  <2>2. Synced(k)' /\ \A j \in Keys : Synced(j) => Synced(j)'
    BY <1>1, WriteSyncs
  <2>3. "reset" \notin since => UnmarkedSynced' /\ SavedSoFar'
    BY <2>1, <2>2, SaveStep DEF Agrees, Done
  <2>4. OrderKnown => OrderKnown'
    <3>1. flash'[k] = Stored(k, ram[k]) /\ \A j \in Keys : j # k => flash'[j] = flash[j]
      BY <1>1, WriteTyped
    <3>2. CASE k = Order
      <4>1. flash'[Order] = ram[Order] /\ flash'[Order] # None
        BY <3>1, <3>2, KindOf, StoredLoads DEF Stored, Typed, TypeOK
      <4> QED
        BY <2>1, <3>2, <4>1 DEF OrderKnown
    <3>3. CASE k # Order
      BY <2>1, <3>1, <3>3, KindOf DEF OrderKnown
    <3> QED
      BY <3>2, <3>3
  <2>5. ToldTheTruth => ToldTheTruth'
    BY <2>1, <2>2, KindOf DEF ToldTheTruth
  <2> QED
    BY <2>1, <2>3, <2>4, <2>5 DEF Agrees
<1>2. CASE GiveUp("not saved")
  BY <1>2 DEF GiveUp, Agrees, OrderKnown, UnmarkedSynced, SavedSoFar, ToldTheTruth, Synced, Kept
<1>3. CASE ~ToSave(k) /\ Skip(k)
  <2>1. /\ dirty' = Clean(k) /\ at' = at + 1 /\ since' = since /\ job' = job /\ told' = told
        /\ ram' = ram /\ flash' = flash /\ settingsOrder' = settingsOrder
    BY <1>3 DEF Skip
  <2>2. \A j \in Keys : Synced(j)' = Synced(j)
    BY <2>1 DEF Synced, Kept
  <2>3. UnmarkedSynced => Done(k)'
    BY <1>3, <2>1, <2>2 DEF UnmarkedSynced, ToSave, Done
  <2>4. "reset" \notin since => UnmarkedSynced' /\ SavedSoFar'
    BY <2>1, <2>2, <2>3, SaveStep DEF Agrees
  <2>5. ToldTheTruth => ToldTheTruth'
    BY <2>1, <2>2, KindOf DEF ToldTheTruth
  <2> QED
    BY <2>1, <2>4, <2>5 DEF Agrees, OrderKnown
<1> QED
  BY <1>1, <1>2, <1>3

LEMMA SaveDoneAgrees ==
  ASSUME Typed, Agrees, SaveDone
  PROVE  Agrees'
<1>1. /\ ram' = ram /\ flash' = flash /\ settingsOrder' = settingsOrder
      /\ dirty' = dirty /\ since' = since
      /\ job = "save" /\ at = SaveLength /\ job' = "idle"
  BY DEF SaveDone
<1>2. \A j \in Keys : Synced(j)' = Synced(j)
  BY <1>1 DEF Synced, Kept
<1>3. SavedSoFar => \A k \in Keys : Done(k)
  <2>1. SaveLength \in Int
    BY Counts DEF SaveLength
  <2> QED
    BY <1>1, <2>1, SavePlaces DEF SavedSoFar
<1>4. "reset" \notin since => ToldTheTruth'
  BY <1>1, <1>2, <1>3, KindOf DEF Agrees, ToldTheTruth, Done
<1>5. UnmarkedSynced => UnmarkedSynced'
  BY <1>1, <1>2, KindOf DEF UnmarkedSynced
<1> QED
  BY <1>1, <1>4, <1>5 DEF Agrees, OrderKnown, SavedSoFar, ToldTheTruth

LEMMA DiscardAgrees ==
  ASSUME Typed, Agrees, DiscardChanges
  PROVE  Agrees'
<1>1. \A k \in CellKeys \cup ConfigKeys \cup {Order} :
         k \in Keys /\ k # Layout /\ k \notin NameKeys
  BY KindOf
<1>2. \A k \in CellKeys \cup ConfigKeys \cup {Order} : ram'[k] = Kept(k)
  BY <1>1 DEF DiscardChanges
<1>3. flash' = flash /\ since' = since \cup {"discard"} /\ job' = "idle"
      /\ settingsOrder' = LoadOrder(settingsOrder)
  BY DEF DiscardChanges
<1>4. \A k \in CellKeys \cup ConfigKeys \cup {Order} : Synced(k)'
  BY <1>2, <1>3 DEF Synced, Kept
<1>5. OrderKnown => OrderKnown'
  BY <1>3 DEF OrderKnown, LoadOrder, StockSettingsOrder
<1>6. UnmarkedSynced' /\ ToldTheTruth'
  BY <1>3, <1>4 DEF UnmarkedSynced, ToldTheTruth
<1> QED
  BY <1>3, <1>5, <1>6 DEF Agrees, SavedSoFar

LEMMA RestartAgrees ==
  ASSUME Restart
  PROVE  Agrees'
<1>1. flash' = flash /\ job' = "idle" /\ told' = "nothing"
      /\ settingsOrder' = LoadOrder([i \in Layers |-> 0])
      /\ \A k \in Keys : ram'[k] = Kept(k)
  BY DEF Restart
<1>2. \A k \in Keys : Synced(k)'
  BY <1>1 DEF Synced, Kept
<1>3. OrderKnown'
  BY <1>1 DEF OrderKnown, LoadOrder, StockSettingsOrder
<1> QED
  BY <1>1, <1>2, <1>3, KindOf DEF Agrees, UnmarkedSynced, SavedSoFar, ToldTheTruth

LEMMA InitAgrees ==
  ASSUME Init
  PROVE  Agrees
<1>1. \A k \in Keys : Synced(k)
  BY DEF Init, Synced, Kept
<1>2. OrderKnown
  BY KindOf DEF Init, OrderKnown, StockSettingsOrder
<1> QED
  BY <1>1, <1>2, KindOf DEF Init, Agrees, UnmarkedSynced, SavedSoFar, ToldTheTruth

LEMMA NextAgrees ==
  ASSUME Typed, Agrees, [Next]_vars
  PROVE  Agrees'
<1>1. CASE StartSave
  <2>1. \A k \in Keys : ~(SavePlace(k) < 0)
    BY SavePlaces
  <2> QED
    BY <1>1, <2>1 DEF StartSave, Agrees, OrderKnown, UnmarkedSynced, SavedSoFar, ToldTheTruth,
                      Synced, Kept
<1>2. CASE StartReset
  BY <1>2 DEF StartReset, Agrees, ToldTheTruth
<1>3. CASE ResetOne \/ ResetStopped \/ ResetDone
  <2>1. job = "reset" /\ since' = since
    BY <1>3 DEF ResetOne, ResetStopped, ResetDone, GiveUp
  <2> QED
    BY <2>1 DEF Agrees, ToldTheTruth
<1>4. CASE UNCHANGED vars
  BY <1>4 DEF vars, Agrees, OrderKnown, UnmarkedSynced, SavedSoFar, ToldTheTruth, Synced, Kept, Done
<1> QED
  BY <1>1, <1>2, <1>3, <1>4, EditAgrees, SaveOneAgrees, SaveDoneAgrees, DiscardAgrees,
     RestartAgrees DEF Next

\* When check_unsaved_changes finds nothing, the orders in use and in flash are
\* the same: without one in flash settings_layer_orders has zeros behind the
\* stock layers, and a sound order cannot have layer 0 there.
LEMMA Reported ==
  ASSUME Typed, Agrees
  PROVE  ReportedWhenDiffers
<1> SUFFICES ASSUME "reset" \notin since, ~CheckUnsaved
             PROVE  \A k \in CellKeys \cup {Order} : Synced(k)
  BY DEF ReportedWhenDiffers
<1>1. OrderKnown /\ UnmarkedSynced
  BY DEF Agrees
<1>2. settingsOrder = ram[Order] /\ \A k \in CellKeys : k \notin dirty
  BY DEF CheckUnsaved
<1>3. ram[Order] \in Orders /\ Sound(ram[Order])
  BY KindOf DEF Typed, TypeOK, OrderSound, RamValues
<1>4. ram[Order] = Kept(Order)
  <2>1. CASE flash[Order] # None
    BY <1>1, <1>2, <2>1, KindOf DEF OrderKnown, Kept, Loaded
  <2>2. CASE flash[Order] = None
    <3>1. \A i \in Layers : ram[Order][i] = IF i < StockCount THEN i ELSE 0
      BY <1>1, <1>2, <2>2 DEF OrderKnown
    <3>2. 0 \in Layers /\ 0 < StockCount /\ 0 # Inval
      BY Counts, SettingsAssumption DEF Layers
    <3>3. \A i \in Layers : ~(i < StockCount) => i = 0
      BY <1>3, <3>1, <3>2, SoundFacts
    <3>4. \A i \in Layers : ram[Order][i] = StockOrder[i]
      BY <3>1, <3>2, <3>3 DEF StockOrder
    <3>5. ram[Order] = StockOrder
      BY <1>3, <3>4 DEF Orders, StockOrder
    <3> QED
      BY <2>2, <3>5, KindOf DEF Kept, Stock
  <2> QED
    BY <2>1, <2>2
<1> QED
  BY <1>1, <1>2, <1>4 DEF UnmarkedSynced, Synced

LEMMA AlwaysAgrees == Spec => [](Typed /\ Agrees)
<1>1. Init => Typed /\ Agrees
  BY InitTyped, InitAgrees
<1>2. Typed /\ Agrees /\ [Next]_vars => (Typed /\ Agrees)'
  BY NextTyped, NextAgrees
<1> QED
  BY <1>1, <1>2, PTL DEF Spec

\* zmk_keymap_check_unsaved_changes returns 0 only if a restart would keep every
\* binding and the layer order, for any number of layers and keys.
THEOREM UnsavedIsReported == Spec => []ReportedWhenDiffers
<1>1. Typed /\ Agrees => ReportedWhenDiffers
  BY Reported
<1> QED
  BY <1>1, AlwaysAgrees, PTL

\* ZMK Studio is told that nothing is unsaved only if a restart would keep what
\* is in use, whichever writes to flash fail.
THEOREM StudioIsToldTheTruth == Spec => []ToldTheTruth
<1>1. Agrees => ToldTheTruth
  BY DEF Agrees
<1> QED
  BY <1>1, AlwaysAgrees, PTL
-----------------------------------------------------------------------------
(* A reset that goes on without an error has cleared the configurations it  *)
(* is past; one with an error stops before it is past all of them.          *)

Cleared(k) == flash[k] = None /\ ram[k] = Stock(k)
ResetSoFar ==
  job = "reset" =>
    /\ failed => at <= ConfigCount
    /\ ~failed => \A k \in ConfigKeys : k[2] < at => Cleared(k)
ResetInv == ResetSoFar /\ ResetClearsConfigs

LEMMA ResetPlaces ==
  ASSUME NEW k \in Keys
  PROVE  /\ k \in ConfigKeys => ResetPlace(k) = k[2] /\ k[2] \in 0 .. ConfigCount - 1
         /\ k \notin ConfigKeys => ResetPlace(k) = -1 \/ ResetPlace(k) >= ConfigCount
<1>0. ConfigCount \in Nat /\ PositionCount \in Nat \ {0}
  BY Counts, SettingsAssumption
<1>1. CASE k \in ConfigKeys
  BY <1>1, KindOf, Kinds DEF ResetPlace, ConfigIds
<1>2. CASE k \in CellKeys
  <2>1. k[1] = "cell" /\ k[2] \in Nat
    BY <1>2, Kinds, KindOf DEF Cells
  <2>2. k[2] \div PositionCount \in Nat /\ k[2] % PositionCount \in Nat
    BY <1>0, <2>1
  <2>3. \A a, b \in Nat : a * (1 + b) \in Nat
    OBVIOUS
  <2>4. (k[2] \div PositionCount) * (1 + PositionCount) \in Nat
    BY <1>0, <2>2, <2>3
  <2>5. ResetPlace(k) = ConfigCount + 2 + (k[2] \div PositionCount) * (1 + PositionCount)
                                    + (k[2] % PositionCount)
    BY <2>1 DEF ResetPlace
  <2>6. \A a, b, c \in Nat : c + 2 + a + b >= c
    OBVIOUS
  <2>7. k \notin ConfigKeys
    BY <2>1, KindOf
  <2> QED
    BY <1>0, <2>2, <2>4, <2>5, <2>6, <2>7
<1>3. CASE k \in NameKeys
  <2>1. k[1] = "name" /\ k[2] \in Nat
    BY <1>3, Kinds, KindOf DEF Layers
  <2>2. \A a, b \in Nat : a * (1 + b) \in Nat
    OBVIOUS
  <2>3. k[2] * (1 + PositionCount) \in Nat
    BY <1>0, <2>1, <2>2
  <2>4. ResetPlace(k) = ConfigCount + 1 + k[2] * (1 + PositionCount)
    BY <2>1 DEF ResetPlace
  <2>5. \A a, c \in Nat : c + 1 + a >= c
    OBVIOUS
  <2>6. k \notin ConfigKeys
    BY <2>1, KindOf
  <2> QED
    BY <1>0, <2>3, <2>4, <2>5, <2>6
<1>4. CASE k \in {Layout, Order}
  BY <1>0, <1>4, KindOf DEF ResetPlace
<1> QED
  BY <1>1, <1>2, <1>3, <1>4 DEF Keys

LEMMA ResetOneClears ==
  ASSUME Typed, ResetInv, ResetOne
  PROVE  ResetInv'
<1>1. PICK k \in Keys :
        /\ job = "reset" /\ ~Stopped /\ ResetPlace(k) = at
        /\ ram' = Defaults(k)
        /\ \/ /\ flash' = IF ToDelete(k) THEN [flash EXCEPT ![k] = None] ELSE flash
              /\ UNCHANGED failed
           \/ ToDelete(k) /\ failed' = (failed \/ k \in ConfigKeys) /\ UNCHANGED flash
        /\ at' = at + 1 /\ job' = job
  BY DEF ResetOne
<1>2. at \in Nat /\ failed \in BOOLEAN /\ ConfigCount \in Nat
  BY Counts DEF Typed, TypeOK
<1>3. failed => at < ConfigCount
  <2>1. failed => at <= ConfigCount /\ at # ConfigCount
    BY <1>1 DEF Stopped, ResetInv, ResetSoFar
  <2> QED
    BY <1>2, <2>1
<1>4. k \in ConfigKeys <=> at < ConfigCount
  BY <1>1, <1>2, ResetPlaces
<1>5. failed' => at' <= ConfigCount
  <2>1. failed' => failed \/ k \in ConfigKeys
    BY <1>1
  <2>2. failed' => at < ConfigCount
    BY <1>3, <1>4, <2>1
  <2> QED
    BY <1>1, <1>2, <2>2
<1>6. ASSUME ~failed', NEW j \in ConfigKeys, j[2] < at'
      PROVE  Cleared(j)'
  <2>0. \/ flash' = (IF ToDelete(k) THEN [flash EXCEPT ![k] = None] ELSE flash) /\ ~failed
        \/ k \notin ConfigKeys /\ flash' = flash /\ ~failed
    <3>1. CASE flash' = (IF ToDelete(k) THEN [flash EXCEPT ![k] = None] ELSE flash) /\ UNCHANGED failed
      BY <1>6, <3>1
    <3>2. CASE failed' = (failed \/ k \in ConfigKeys) /\ UNCHANGED flash
      BY <1>6, <3>2
    <3> QED
      BY <1>1, <3>1, <3>2
  <2>1. ~failed /\ (k \in ConfigKeys => flash' = IF ToDelete(k) THEN [flash EXCEPT ![k] = None] ELSE flash)
    BY <2>0
  <2>2. j \in Keys /\ Stock(j)' = Stock(j) /\ j[2] \in Nat /\ j = Config(j[2])
    BY KindOf, Kinds DEF Stock, ConfigIds
  <2>3. ram = [i \in Keys |-> ram[i]] /\ flash = [i \in Keys |-> flash[i]]
    BY DEF Typed, TypeOK
  <2>4. CASE j = k
    <3>1. flash'[k] = None
      <4>1. ToDelete(k) <=> flash[k] # None
        BY <1>6, <2>4, KindOf DEF ToDelete
      <4>2. flash' = IF flash[k] # None THEN [flash EXCEPT ![k] = None] ELSE flash
        BY <1>6, <2>1, <2>4, <4>1
      <4> QED
        BY <2>2, <2>3, <2>4, <4>2
    <3>2. ram'[k] = Stock(k)
      BY <1>1, <2>3, <2>4 DEF Defaults
    <3> QED
      BY <2>2, <2>4, <3>1, <3>2 DEF Cleared
  <2>5. CASE j # k
    <3>1. j[2] < at
      <4>1. k \in ConfigKeys => k[2] = at /\ k = Config(k[2])
        BY <1>1, ResetPlaces, Kinds, KindOf
      <4>2. k \in ConfigKeys => j[2] # at
        BY <2>2, <2>5, <4>1
      <4>3. j[2] < ConfigCount
        BY <1>2, <1>6, <2>2, ResetPlaces
      <4> QED
        BY <1>1, <1>2, <1>4, <1>6, <2>2, <4>2, <4>3
    <3>2. Cleared(j)
      BY <1>1, <2>1, <3>1 DEF ResetInv, ResetSoFar
    <3>3. ram'[j] = ram[j]
      BY <1>1, <2>2, <2>3, <2>5 DEF Defaults
    <3>4. flash'[j] = None
      <4>1. flash' \in {flash, [flash EXCEPT ![k] = None]}
        BY <1>1
      <4> QED
        BY <2>2, <2>3, <3>2, <4>1 DEF Cleared
    <3> QED
      BY <2>2, <3>2, <3>3, <3>4 DEF Cleared
  <2> QED
    BY <2>4, <2>5
<1> QED
  BY <1>1, <1>5, <1>6 DEF ResetInv, ResetSoFar, ResetClearsConfigs

LEMMA ResetDoneClears ==
  ASSUME Typed, ResetInv, ResetDone
  PROVE  ResetInv'
<1>1. /\ job = "reset" /\ ~Stopped /\ at = ResetLength
      /\ ram' = [k \in Keys |-> IF k \in CellKeys \cup {Order} THEN Stock(k) ELSE ram[k]]
      /\ job' = "idle" /\ flash' = flash
  BY DEF ResetDone
<1>0. at \in Nat /\ failed \in BOOLEAN /\ ConfigCount \in Nat
  BY Counts DEF Typed, TypeOK
<1>2. at > ConfigCount
  <2>1. \A a, b \in Nat : a * (1 + b) \in Nat
    OBVIOUS
  <2>2. LayerCount * (1 + PositionCount) \in Nat
    BY <2>1, SettingsAssumption
  <2> QED
    BY <1>1, <2>2, Counts DEF ResetLength
<1>3. ~failed
  <2>1. failed => at <= ConfigCount
    BY <1>1 DEF ResetInv, ResetSoFar
  <2> QED
    BY <1>0, <1>2, <2>1
<1>4. ASSUME NEW k \in ConfigKeys
      PROVE  k[2] < at /\ k \in Keys
  <2>1. k \in Keys /\ k[2] \in 0 .. ConfigCount - 1
    BY ResetPlaces, KindOf
  <2> QED
    BY <1>0, <1>2, <2>1
<1>5. \A k \in ConfigKeys : Cleared(k)
  BY <1>1, <1>3, <1>4 DEF ResetInv, ResetSoFar
<1>6. \A k \in ConfigKeys : ram'[k] = ram[k]
  BY <1>1, KindOf
<1>7. \A k \in ConfigKeys : flash'[k] = None /\ ram'[k] = Stock(k)
  BY <1>1, <1>5, <1>6 DEF Cleared
<1>8. ResetClearsConfigs'
  BY <1>7 DEF ResetClearsConfigs, Stock
<1> QED
  BY <1>1, <1>8 DEF ResetInv, ResetSoFar

LEMMA NextResetInv ==
  ASSUME Typed, ResetInv, [Next]_vars
  PROVE  ResetInv'
<1>1. CASE MakeEdit
  <2>1. job' = "idle" /\ reply' = "edited"
    BY <1>1, EditShape DEF Edit
  <2> QED
    BY <2>1 DEF ResetInv, ResetSoFar, ResetClearsConfigs
<1>2. CASE StartSave
  BY <1>2 DEF StartSave, ResetInv, ResetSoFar, ResetClearsConfigs
<1>3. CASE SaveOne
  <2>1. job = "save" /\ (job' = job \/ (job' = "idle" /\ reply' = "not saved"))
    BY <1>3 DEF SaveOne, Write, Skip, GiveUp
  <2> QED
    BY <2>1 DEF ResetInv, ResetSoFar, ResetClearsConfigs
<1>4. CASE SaveDone \/ DiscardChanges \/ Restart
  <2>1. job' = "idle" /\ reply' # "reset"
    BY <1>4 DEF SaveDone, DiscardChanges, Restart, Typed, TypeOK
  <2> QED
    BY <2>1 DEF ResetInv, ResetSoFar, ResetClearsConfigs
<1>5. CASE StartReset
  <2>1. job' = "reset" /\ at' = 0 /\ failed' = FALSE
    BY <1>5 DEF StartReset
  <2>2. \A k \in ConfigKeys : ~(k[2] < 0)
    BY ResetPlaces, KindOf, Counts
  <2> QED
    BY <2>1, <2>2 DEF ResetInv, ResetSoFar, ResetClearsConfigs
<1>6. CASE ResetStopped
  BY <1>6 DEF ResetStopped, GiveUp, ResetInv, ResetSoFar, ResetClearsConfigs
<1>7. CASE UNCHANGED vars
  BY <1>7 DEF vars, ResetInv, ResetSoFar, ResetClearsConfigs, Cleared
<1> QED
  BY <1>1, <1>2, <1>3, <1>4, <1>5, <1>6, <1>7, ResetOneClears, ResetDoneClears DEF Next

\* A reset that reports success left no configuration of a hold-tap or combo, in
\* RAM or in flash, wherever an earlier one failed, for any number of them.
THEOREM ResetsClear == Spec => []ResetClearsConfigs
<1>1. Init => ResetInv
  BY DEF Init, ResetInv, ResetSoFar, ResetClearsConfigs
<1>2. Typed /\ ResetInv /\ [Next]_vars => (Typed /\ ResetInv)'
  BY NextTyped, NextResetInv
<1>3. ResetInv => ResetClearsConfigs
  BY DEF ResetInv
<1> QED
  BY <1>1, <1>2, <1>3, InitTyped, PTL DEF Spec
=============================================================================
