---------------------------- MODULE PhysicalLayouts ----------------------------
(***************************************************************************)
(* Key events from the scan to the keymap, and the layout they are read    *)
(* with: src/app/src/physical_layouts.c on top of KeyScan.  The callback   *)
(* of the scan puts rows and columns into a queue, a work item translates  *)
(* them into positions.  main and Studio's thread select layouts, which    *)
(* suspends one kscan device and resumes another.                          *)
(***************************************************************************)
EXTENDS KeyScan, Sequences

CONSTANTS
  Layouts, Default, NoLayout,
  Kscan,       \* per layout, its device
  Transform,   \* per layout and cell, the position, 0 for none
  Unmapped,    \* the layouts whose positions zmk_physical_layouts_get_position_map rejects
  MaxMishaps,  \* bound on selections of a layout and failures of the GPIO driver together
  QueueSize    \* CONFIG_ZMK_KSCAN_EVENT_QUEUE_SIZE

ASSUME LayoutsAssumption ==
  /\ Kscan \in [Layouts -> Devices] /\ Default \in Layouts \ Unmapped
  /\ NoLayout \notin Layouts /\ Unmapped \subseteq Layouts
  /\ MaxMishaps \in Nat /\ QueueSize \in Nat \ {0}
\* A position of the keymap is that of one cell (matrix_transform.c:45-52)
ASSUME TransformAssumption ==
  \A l \in Layouts :
    /\ Transform[l] \in [Cells(Kscan[l]) -> Nat]
    /\ \A c, e \in Cells(Kscan[l]) : c # e /\ Transform[l][c] = Transform[l][e] => Transform[l][c] = 0

VARIABLES
  active,    \* the selected layout
  queue,     \* physical_layouts_kscan_msgq
  msgWork,   \* msg_processor is submitted
  selections,\* made so far
  pending,   \* history: the last selection failed, and left its old layout disabled
  held,      \* history: the positions the keymap has been told are pressed, but the strayed
  touched,   \* history: per device, the cells that conducted since they were last released
  strayed,   \* history: positions with an event lost, or caught by a change of layouts, until
             \* their next event
  deaf,      \* history: a GPIO call has failed since the device was last enabled
  twice      \* history: a position was pressed while pressed or released while released

vars == <<scanVars, active, queue, msgWork, selections, pending, held, touched, strayed, deaf, twice>>
layoutVars == <<active, queue, msgWork, selections, pending, held, touched, strayed, deaf, twice>>

Positions(d, c) == {Transform[l][c] : l \in {k \in Layouts : Kscan[k] = d}} \ {0}
AllPositions == UNION {UNION {Positions(d, c) : c \in Cells(d)} : d \in Devices}

TypeOK ==
  /\ ScanTypeOK
  /\ active \in Layouts \cup {NoLayout}
  /\ queue \in Seq([d : Devices, cell : AllCells, pressed : BOOLEAN]) /\ Len(queue) <= QueueSize
  /\ msgWork \in BOOLEAN /\ selections \in 0..MaxMishaps /\ pending \in BOOLEAN
  /\ held \subseteq AllPositions /\ strayed \subseteq AllPositions
  /\ deaf \in BOOLEAN /\ twice \in BOOLEAN
  /\ \A d \in Devices : touched[d] \subseteq Cells(d)

Init ==
  /\ contact = [d \in Devices |-> {}]
  /\ deb = [d \in Devices |-> [c \in Cells(d) |-> Released]]
  /\ outs = [d \in Devices |-> {}] /\ irq = [d \in Devices |-> FALSE]
  /\ work = [d \in Devices |-> "none"]
  /\ powered = [d \in Devices |-> FALSE] /\ callback = [d \in Devices |-> FALSE]
  /\ thread = [work |-> Idle,
               low |-> [at |-> "select", d |-> Kscan[Default], o |-> 1, to |-> Default,
                        resume |-> FALSE]]
  /\ loop = [t \in Threads |-> NoLoop] /\ faults = 0
  /\ active = NoLayout /\ queue = <<>> /\ msgWork = FALSE /\ selections = 0 /\ pending = FALSE
  /\ held = {} /\ touched = contact /\ strayed = {} /\ deaf = FALSE /\ twice = FALSE

\* The work queue is cooperative: the low thread runs when it has nothing to do, and while
\* the handler of an event waits (for the radio, or for flash)
MayRun(t) ==
  \/ t = "work" \/ thread["work"].at = "raise"
  \/ thread["work"].at = "none" /\ ~msgWork /\ \A d \in Devices : work[d] # "now"
At(t, stage) == thread[t].at = stage /\ MayRun(t)
-----------------------------------------------------------------------------
(* From the scan to the keymap *)

\* Nobody sees the keys of a device without power: what they do then, they do later
Bounce(d, c) ==
  /\ powered[d] /\ Contact(d, c)
  /\ touched' = [touched EXCEPT ![d] = @ \cup {c}]
  /\ UNCHANGED <<active, queue, msgWork, selections, pending, held, strayed, deaf, twice>>

\* The positions of some cells of a device in the selected layout
Selected(d, cells) ==
  IF active # NoLayout /\ Kscan[active] = d THEN {Transform[active][c] : c \in cells} \ {0} ELSE {}
\* The positions of the changes that a failing read of the device keeps to itself: those it
\* has found so far, and those of the output it fails at
Unreported(d) == Selected(d, ToReport(d) \cup
                             {c \in Cells(d) : deb'[d][c].changed /\ deb'[d][c] # deb[d][c]})

\* The system work queue takes its items in the order of their submission, a scan after the
\* events of the one before.  A scan that overtakes a read of the low thread drives outputs
\* together with it, forgets changes that it has found and leaves it changes to report again
Scan(d) ==
  /\ ~msgWork /\ StartScan(d)
  /\ IF Reading(d)
     THEN /\ strayed' = strayed \cup Selected(d, Cells(d))
          /\ touched' = [touched EXCEPT ![d] = Cells(d)]
     ELSE UNCHANGED <<strayed, touched>>
  /\ held' = held \ strayed'
  /\ UNCHANGED <<active, queue, msgWork, selections, pending, deaf, twice>>

Heard == deaf' = (deaf \/ faults' > faults)
Irq(d) ==
  /\ Interrupt(d) /\ Heard
  /\ UNCHANGED <<active, queue, msgWork, selections, pending, held, touched, strayed, twice>>

\* Keys that are released, with their debouncer settled, are no longer touched
Untouch == touched' = [d \in Devices |->
             IF thread["low"] # Idle THEN touched[d]
             ELSE contact[d] \cup {c \in touched[d] : DebounceActive(deb'[d][c])}]
\* The loop goes on to the next cell
Pass(t) ==
  /\ MayRun(t) /\ \E c \in loop[t].todo \cup loop[t].told : Passes(t, c)
  /\ UNCHANGED layoutVars
\* The changes that a failing read leaves unreported are lost
Read(t) ==
  /\ MayRun(t)
  /\ \/ (ReadOutput(t) \/ EndRead(t) \/ ArmOutput(t)) /\ UNCHANGED strayed
     \/ ReadFails(t) /\ strayed' = strayed \cup Unreported(thread[t].d)
  /\ Untouch /\ Heard /\ held' = held \ strayed'
  /\ UNCHANGED <<active, queue, msgWork, selections, pending, twice>>

\* Fault: the oldest event makes room
CallbackDropsOldest(t, c) ==
  LET d == thread[t].d  event == [d |-> d, cell |-> c, pressed |-> deb[d][c].pressed] IN
  /\ MayRun(t) /\ Reports(t, c)
  /\ IF active = NoLayout \/ d # Kscan[active]
     THEN UNCHANGED <<queue, msgWork, strayed>>
     ELSE /\ msgWork' = TRUE
          /\ IF Len(queue) < QueueSize
             THEN queue' = Append(queue, event) /\ UNCHANGED strayed
             ELSE queue' = Append(Tail(queue), event) /\ strayed' = strayed \cup Selected(d, {c})
  /\ held' = held \ strayed'
  /\ UNCHANGED <<active, selections, pending, touched, deaf, twice>>

\* zmk_physical_layout_kscan_callback
Callback(t, c) ==
  LET d == thread[t].d  event == [d |-> d, cell |-> c, pressed |-> deb[d][c].pressed] IN
  /\ MayRun(t) /\ Reports(t, c)
  /\ IF active = NoLayout \/ d # Kscan[active]
     THEN UNCHANGED <<queue, msgWork, strayed>>
     ELSE /\ msgWork' = TRUE
          /\ IF Len(queue) < QueueSize
             THEN queue' = Append(queue, event) /\ UNCHANGED strayed
             ELSE strayed' = strayed \cup Selected(d, {c}) /\ UNCHANGED queue
  /\ held' = held \ strayed'
  /\ UNCHANGED <<active, selections, pending, touched, deaf, twice>>

\* zmk_matrix_transform_row_column_to_position: cells beyond the transform have none
Position(l, c) == IF c \in DOMAIN Transform[l] THEN Transform[l][c] ELSE 0

\* What the keymap is told: the event e of position p, while the events in rest wait
Tell(p, e, rest) ==
  LET cured == /\ e.d = Kscan[active] /\ deb[e.d][e.cell].pressed = e.pressed
               /\ e.cell \notin ToReport(e.d)
               /\ \A i \in DOMAIN rest : rest[i].cell # e.cell
      known == p \notin strayed \/ cured IN
  /\ twice' = (twice \/ (p \notin strayed /\ e.pressed = (p \in held)))
  /\ strayed' = IF known THEN strayed \ {p} ELSE strayed
  /\ held' = IF known /\ e.pressed THEN held \cup {p} ELSE held \ {p}

\* zmk_physical_layouts_kscan_process_msgq, one turn of its loop
ProcessMsgq ==
  /\ \/ thread["work"].at = "raise"
     \/ thread["work"].at = "none" /\ msgWork
  /\ msgWork' = (msgWork /\ thread["work"].at = "raise")
  /\ IF queue = <<>>
     THEN /\ thread' = [thread EXCEPT !["work"] = Idle]
          /\ UNCHANGED <<queue, held, strayed, twice>>
     ELSE LET e == Head(queue)  p == Position(active, e.cell) IN
          /\ thread' = [thread EXCEPT !["work"] = [at |-> "raise"]]
          /\ queue' = Tail(queue)
          /\ IF p = 0 THEN UNCHANGED <<held, strayed, twice>> ELSE Tell(p, e, Tail(queue))
  /\ UNCHANGED <<contact, deb, outs, irq, work, powered, callback, loop, faults, active, selections,
                 pending, touched, deaf>>
-----------------------------------------------------------------------------
(* zmk_physical_layouts_select_layout, on the low thread *)

\* The old device is disabled: its scan is cancelled ...
Select(l) ==
  /\ At("low", "none") /\ l # active
  /\ selections' = selections + 1
  /\ work' = [work EXCEPT ![Kscan[active]] = "none"]
  /\ thread' = [thread EXCEPT !["low"] =
       [at |-> "mask", d |-> Kscan[active], o |-> 1, to |-> l, resume |-> FALSE]]
  /\ UNCHANGED <<contact, deb, outs, irq, powered, callback, loop, faults, active, queue, msgWork,
                 pending, held, touched, strayed, deaf, twice>>
\* ... and its interrupts are disabled (that this may fail is left out)
Mask ==
  /\ At("low", "mask") /\ InterruptDisable(thread["low"].d)
  /\ thread' = [thread EXCEPT !["low"].at = "suspend"]
  /\ UNCHANGED <<contact, deb, work, powered, callback, loop, faults, layoutVars>>
\* Fault: suspending only disconnects the pins
SuspendPins ==
  /\ At("low", "suspend")
  /\ LET d == thread["low"].d IN powered' = [powered EXCEPT ![d] = FALSE]
  /\ thread' = [thread EXCEPT !["low"].at = "select"]
  /\ UNCHANGED <<contact, deb, outs, irq, work, callback, loop, faults, layoutVars>>
\* PM_DEVICE_ACTION_SUSPEND: no interrupt comes from disconnected pins
Suspend ==
  LET d == thread["low"].d IN
  /\ At("low", "suspend")
  /\ powered' = [powered EXCEPT ![d] = FALSE]
  /\ work' = [work EXCEPT ![d] = "none"]
  /\ InterruptDisable(d)
  /\ thread' = [thread EXCEPT !["low"].at = "select"]
  /\ UNCHANGED <<contact, deb, callback, loop, faults, layoutVars>>

\* The positions whose press and release may be on two sides of the selection
Caught(d) ==
  LET pressed == {c \in Cells(d) : deb[d][c].pressed}
      queued == {queue[i].cell : i \in DOMAIN queue} IN
  UNION {Positions(d, c) : c \in pressed \cup (queued \cap Cells(d))}
\* The selection of the new layout fails, or its device is resumed: the pins are set up and
\* the device is enabled
Resume ==
  LET l == thread["low"].to  d == Kscan[l] IN
  /\ At("low", "select")
  /\ IF l \in Unmapped
     THEN /\ pending' = TRUE
          /\ thread' = [thread EXCEPT !["low"] = Idle]
          /\ UNCHANGED <<active, powered, outs, strayed, held, deaf>>
     ELSE /\ pending' = FALSE /\ active' = l
          /\ powered' = [powered EXCEPT ![d] = TRUE]
          /\ outs' = [outs EXCEPT ![d] = {}]
          /\ strayed' = strayed \cup UNION {Caught(e) : e \in Devices}
          /\ held' = held \ strayed' /\ deaf' = FALSE
          /\ thread' = [thread EXCEPT !["low"] = [@ EXCEPT !.at = "read", !.d = d, !.o = 1,
                                                           !.resume = TRUE]]
  /\ UNCHANGED <<contact, deb, irq, work, callback, loop, faults, queue, msgWork, selections, touched, twice>>
\* kscan_config and kscan_enable_callback, which reads once more
Enable ==
  LET d == thread["low"].d IN
  /\ At("low", "config")
  /\ callback' = [callback EXCEPT ![d] = TRUE]
  /\ thread' = [thread EXCEPT !["low"] = [@ EXCEPT !.at = "read", !.o = 1, !.resume = FALSE]]
  /\ deaf' = FALSE
  /\ UNCHANGED <<contact, deb, outs, irq, work, powered, loop, faults, active, queue, msgWork,
                 selections, pending, held, touched, strayed, twice>>

Switch == Mask \/ Suspend \/ Resume \/ Enable
-----------------------------------------------------------------------------
\* main or Studio's thread is selecting a layout
Switching == thread["low"].at # "none"
Bounded == selections' + faults' <= MaxMishaps
\* The work queue, and interrupts
WorkStep ==
  /\ UNCHANGED <<contact, selections>>
  /\ \/ Read("work") \/ Pass("work") \/ ProcessMsgq
     \/ \E c \in loop["work"].todo : Callback("work", c)
     \/ \E d \in Devices : Scan(d) \/ Irq(d)
  /\ Bounded
LowStep ==
  /\ Switching /\ UNCHANGED <<contact, selections>>
  /\ Read("low") \/ Pass("low") \/ Switch \/ \E c \in loop["low"].todo : Callback("low", c)
  /\ Bounded

Next ==
  \/ \E d \in Devices : \E c \in Cells(d) : Bounce(d, c)
  \/ WorkStep
  \/ LowStep
  \/ \E l \in Layouts : Select(l) /\ Bounded

\* The work queue and interrupts are served, and between two scans, a period apart, the low
\* thread gets on; keys and Studio do as they like
Spec == Init /\ [][Next]_vars /\ WF_vars(WorkStep) /\ SF_vars(LowStep)
-----------------------------------------------------------------------------
\* Whatever interrupt came between two calls, the device of the selected layout is scanned,
\* about to be scanned or woken by any key, and the other devices are quiet; unless a GPIO call
\* or the selection of a layout has failed (kscan_gpio_matrix.c:194-291, physical_layouts.c:251-297).
ScansOrWaits ==
  Switching \/ pending \/
    \A d \in Devices :
      IF d = Kscan[active]
      THEN work[d] # "none" \/ Reading(d) \/ (irq[d] /\ outs[d] = AllOutputs(d)) \/ deaf
      ELSE work[d] = "none" /\ ~powered[d] /\ ~Reading(d) /\ (~irq[d] \/ faults > 0)

\* A callback is set when a scan calls it: selecting a layout resumes its device, which scans,
\* before it configures the callback (physical_layouts.c:290-293, kscan_gpio_matrix.c:270-275).
CallbackSet ==
  \A t \in Threads : \A c \in loop[t].todo :
    Comes(t, c) /\ deb[thread[t].d][c].changed => callback[thread[t].d]

\* A key is debounced as pressed only if its own switch has conducted since it was last
\* released: the outputs that an interrupt leaves active do not make ghosts of other keys
\* (kscan_gpio_matrix.c:153-176, 223-260, debounce.c:30-54).
NoGhosts ==
  faults > 0 \/ \A d \in Devices : \A c \in Cells(d) :
    deb[d][c].pressed => c \in touched[d]

\* Once the events are processed, the keymap holds exactly the positions whose keys are
\* debounced as pressed, and was told of each change once.  Excused, until the next event that
\* tells what its key is, are positions that lost an event in the full queue, or whose key was
\* down while the layout changed; and those of a device whose enabling read was overtaken by a
\* scan: the two may report a change both, or neither (physical_layouts.c:183-220,
\* kscan_gpio_matrix.c:265-279).
KeymapFollowsMatrix ==
  /\ TypeOK
  /\ ~twice
  /\ (queue = <<>> /\ active # NoLayout /\ ToReport(Kscan[active]) = {}) =>
       \A c \in Cells(Kscan[active]) :
         LET p == Position(active, c) IN
         p \in {0} \cup strayed \/ (p \in held <=> deb[Kscan[active]][c].pressed)

\* The keymap holds the positions of the keys that are down
HeldAsContacts ==
  \A c \in Cells(Kscan[active]) :
    LET p == Position(active, c) IN
    p \in {0} \cup strayed \/ (p \in held <=> c \in contact[Kscan[active]])

\* Once keys stop moving and layouts stop changing, the selection that is under way ends, each
\* key that is down is pressed in the keymap and each one that is up is released
\* (kscan_gpio_matrix.c:262-288, debounce.c:30-54).
ContactsArrive ==
  <>[][FALSE]_<<contact, selections>> => <>[](~Switching /\ (pending \/ deaf \/ HeldAsContacts))
=============================================================================
