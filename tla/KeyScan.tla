-------------------------------- MODULE KeyScan --------------------------------
(***************************************************************************)
(* The matrix kscan driver, app/module/drivers/kscan/kscan_gpio_matrix.c,  *)
(* built with interrupts and PM_DEVICE, and its debouncer.  At rest all    *)
(* outputs are active and a key raises an interrupt, which hands over to   *)
(* scans of one output after the other until no key is pressed or bounces. *)
(* A scan runs on the system work queue, or on the thread that enables the *)
(* device; an interrupt may come between any two calls of the GPIO driver. *)
(*                                                                         *)
(* Operators whose comment starts with "Fault:" are faulty variants of the *)
(* definition that follows, which nothing uses.                            *)
(***************************************************************************)
EXTENDS Integers, FiniteSets

CONSTANTS
  Devices,
  Outputs, Inputs,     \* per device, the number of its outputs and inputs
  PressScans,          \* debounce_press_ms and debounce_release_ms, counted in scans
  ReleaseScans,
  MaxFaults            \* bound on failures of the GPIO driver

ASSUME KeyScanAssumption ==
  /\ Outputs \in [Devices -> Nat \ {0}] /\ Inputs \in [Devices -> Nat \ {0}]
  /\ PressScans \in Nat /\ ReleaseScans \in Nat /\ MaxFaults \in Nat

VARIABLES
  contact,   \* per device, the cells whose switch conducts
  deb,       \* matrix_state: per device and cell, the debouncer
  outs,      \* per device, the outputs that are active
  irq,       \* per device, whether its interrupts are enabled
  work,      \* per device, its scan: not scheduled, submitted or scheduled for later
  powered,   \* per device, whether its pins are connected
  callback,  \* per device, whether it has been configured with a callback
  thread,    \* per thread, the call of the driver it is in the middle of
  loop,      \* per thread, where its read is in the loop that reports changes
  faults

scanVars == <<contact, deb, outs, irq, work, powered, callback, thread, loop, faults>>

Cells(d) == (1..Outputs[d]) \X (1..Inputs[d])
AllCells == UNION {Cells(d) : d \in Devices}
AllOutputs(d) == 1..Outputs[d]
Threads == {"work", "low"}   \* the system work queue; main, then Studio's thread
\* Of a read; of the message queue; of a selection
Stages == {"none", "read", "report", "arm", "raise", "cancel", "mask", "suspend", "select", "config"}
Debouncers == [pressed : BOOLEAN, changed : BOOLEAN,
               counter : 0..(IF PressScans > ReleaseScans THEN PressScans ELSE ReleaseScans)]
Released == [pressed |-> FALSE, changed |-> FALSE, counter |-> 0]
\* The cells to come; the cell whose callback has just been made; continue_scan
Loops == [todo : SUBSET AllCells, told : SUBSET AllCells, continue : BOOLEAN]
NoLoop == [todo |-> {}, told |-> {}, continue |-> FALSE]

ScanTypeOK ==
  \A d \in Devices :
    /\ contact[d] \subseteq Cells(d) /\ deb[d] \in [Cells(d) -> Debouncers]
    /\ outs[d] \subseteq AllOutputs(d) /\ irq[d] \in BOOLEAN
    /\ work[d] \in {"none", "now", "later"}
    /\ powered[d] \in BOOLEAN /\ callback[d] \in BOOLEAN
    /\ \A t \in Threads : thread[t].at \in Stages /\ loop[t] \in Loops

\* A thread is in the middle of a read of the device
Reading(d) == \E t \in Threads : thread[t].at \in {"read", "report", "arm"} /\ thread[t].d = d

Idle == [at |-> "none"]
Goto(t, at, d, o) ==
  thread' = [thread EXCEPT ![t] =
    IF t = "low" THEN [@ EXCEPT !.at = at, !.d = d, !.o = o] ELSE [at |-> at, d |-> d, o |-> o]]
\* kscan_matrix_read returns: to the work queue, to PM_DEVICE_ACTION_RESUME or to select_layout
Return(t) ==
  thread' = [thread EXCEPT ![t] =
    IF t = "low" /\ thread[t].resume THEN [@ EXCEPT !.at = "config", !.o = 1] ELSE Idle]
Fails == faults < MaxFaults /\ faults' = faults + 1
Works == UNCHANGED faults
-----------------------------------------------------------------------------
\* get_threshold
Threshold(s) == IF s.pressed THEN ReleaseScans ELSE PressScans
\* Fault: one bounce decides
DebounceAtOnce(s, active) ==
  [pressed |-> active, changed |-> active # s.pressed, counter |-> 0]
\* zmk_debounce_update
DebounceUpdate(s, active) ==
  IF active = s.pressed
  THEN [s EXCEPT !.changed = FALSE, !.counter = IF @ = 0 THEN 0 ELSE @ - 1]
  ELSE IF s.counter < Threshold(s) THEN [s EXCEPT !.changed = FALSE, !.counter = @ + 1]
  ELSE [pressed |-> ~s.pressed, changed |-> TRUE, counter |-> 0]
\* zmk_debounce_is_active
DebounceActive(s) == s.pressed \/ s.counter > 0

\* Input i is active while an active output conducts to it
Level(d, driven, i) == powered[d] /\ \E o \in driven : <<o, i>> \in contact[d]
\* The inputs are read with output o driven
Sampled(d, o) == [c \in Cells(d) |->
  IF c[1] = o THEN DebounceUpdate(deb[d][c], Level(d, outs[d] \cup {o}, c[2])) ELSE deb[d][c]]

\* Switches close and open, and bounce
Contact(d, c) ==
  /\ contact' = [contact EXCEPT ![d] = IF c \in @ THEN @ \ {c} ELSE @ \cup {c}]
  /\ UNCHANGED <<deb, outs, irq, work, powered, callback, thread, loop, faults>>

\* kscan_matrix_interrupt_disable; a failure leaves the interrupts or some outputs as they were
InterruptDisable(d) == irq' = [irq EXCEPT ![d] = FALSE] /\ outs' = [outs EXCEPT ![d] = {}]
InterruptDisableFails(d) ==
  \/ UNCHANGED <<irq, outs>>
  \/ /\ irq' = [irq EXCEPT ![d] = FALSE]
     /\ \E k \in AllOutputs(d) : outs' = [outs EXCEPT ![d] = @ \ (1..(k - 1))]

\* kscan_matrix_irq_callback_handler: the interrupts are level triggered
Interrupt(d) ==
  /\ irq[d] /\ \E i \in 1..Inputs[d] : Level(d, outs[d], i)
  /\ \/ Works /\ InterruptDisable(d)
     \/ Fails /\ InterruptDisableFails(d)
  /\ work' = [work EXCEPT ![d] = "now"]
  /\ UNCHANGED <<contact, deb, powered, callback, thread, loop>>
-----------------------------------------------------------------------------
(* kscan_matrix_read, on the thread t *)

\* kscan_matrix_work_handler
StartScan(d) ==
  /\ thread["work"].at = "none" /\ work[d] # "none"
  /\ work' = [work EXCEPT ![d] = "none"]
  /\ Goto("work", "read", d, 1)
  /\ UNCHANGED <<contact, deb, outs, irq, powered, callback, loop, faults>>

\* One output is set, the inputs are read and debounced, the output is cleared; after the last
\* one all cells are gone through
ReadOutput(t) ==
  LET f == thread[t] IN
  /\ f.at = "read" /\ Works
  /\ deb' = [deb EXCEPT ![f.d] = Sampled(f.d, f.o)]
  /\ outs' = [outs EXCEPT ![f.d] = @ \ {f.o}]
  /\ IF f.o < Outputs[f.d]
     THEN Goto(t, "read", f.d, f.o + 1) /\ UNCHANGED loop
     ELSE Goto(t, "report", f.d, 1) /\ loop' = [loop EXCEPT ![t] = [NoLoop EXCEPT !.todo = Cells(f.d)]]
  /\ UNCHANGED <<contact, irq, work, powered, callback>>

\* Setting the output, reading the inputs or clearing the output fails: nothing is reported,
\* and neither a scan nor the interrupts follow
ReadFails(t) ==
  LET f == thread[t]  left == [outs EXCEPT ![f.d] = @ \cup {f.o}] IN
  /\ f.at = "read" /\ Fails
  /\ \/ UNCHANGED <<deb, outs>>
     \/ outs' = left /\ UNCHANGED deb
     \/ outs' = left /\ deb' = [deb EXCEPT ![f.d] = Sampled(f.d, f.o)]
  /\ Return(t)
  /\ UNCHANGED <<contact, irq, work, powered, callback, loop>>

\* The changes that a read under way is yet to report: those of the outputs it has sampled,
\* then those of the cells it has not come to.  The flag of a change stays set when it is
\* reported, until the cell is sampled again
ToReport(d) == {c \in Cells(d) : deb[d][c].changed /\ \E t \in Threads :
  \/ thread[t].at = "read" /\ thread[t].d = d /\ c[1] < thread[t].o
  \/ thread[t].at = "report" /\ thread[t].d = d /\ c \in loop[t].todo}
First(cells) == CHOOSE c \in cells : \A e \in cells :
                  c[1] < e[1] \/ (c[1] = e[1] /\ c[2] <= e[2])
\* The loop is at the cell c
Comes(t, c) ==
  thread[t].at = "report" /\ loop[t].told = {} /\ c \in loop[t].todo /\ c = First(loop[t].todo)
\* The cell has changed, and is handed to the callback of the device
Reports(t, c) ==
  /\ Comes(t, c) /\ deb[thread[t].d][c].changed
  /\ loop' = [loop EXCEPT ![t].todo = @ \ {c}, ![t].told = {c}]
  /\ UNCHANGED <<contact, deb, outs, irq, work, powered, callback, thread, faults>>
\* After the callback, or for a cell that has not changed, continue_scan is brought up to date
Passes(t, c) ==
  /\ \/ thread[t].at = "report" /\ c \in loop[t].told
     \/ Comes(t, c) /\ ~deb[thread[t].d][c].changed
  /\ loop' = [loop EXCEPT ![t] = [todo |-> @.todo \ {c}, told |-> {},
                                  continue |-> @.continue \/ DebounceActive(deb[thread[t].d][c])]]
  /\ UNCHANGED <<contact, deb, outs, irq, work, powered, callback, thread, faults>>

\* kscan_matrix_read_continue, or kscan_matrix_interrupt_enable up to the outputs
EndRead(t) ==
  LET f == thread[t] IN
  /\ f.at = "report" /\ loop[t].todo = {} /\ loop[t].told = {}
  /\ IF loop[t].continue
     THEN work' = [work EXCEPT ![f.d] = "later"] /\ Return(t) /\ Works /\ UNCHANGED irq
     ELSE \/ irq' = [irq EXCEPT ![f.d] = TRUE] /\ Goto(t, "arm", f.d, 1) /\ Works /\ UNCHANGED work
          \/ Fails /\ Return(t) /\ UNCHANGED <<irq, work>>
  /\ loop' = [loop EXCEPT ![t] = NoLoop]
  /\ UNCHANGED <<contact, deb, outs, powered, callback>>

\* Fault: the last output is forgotten
ArmAllButLast(t) ==
  LET f == thread[t] IN
  /\ f.at = "arm"
  /\ \/ /\ Works /\ outs' = [outs EXCEPT ![f.d] = @ \cup {f.o}]
        /\ IF f.o < Outputs[f.d] - 1 THEN Goto(t, "arm", f.d, f.o + 1) ELSE Return(t)
     \/ Fails /\ Return(t) /\ UNCHANGED outs
  /\ UNCHANGED <<contact, deb, irq, work, powered, callback, loop>>
\* kscan_matrix_set_all_outputs(dev, 1), one output
ArmOutput(t) ==
  LET f == thread[t] IN
  /\ f.at = "arm"
  /\ \/ /\ Works /\ outs' = [outs EXCEPT ![f.d] = @ \cup {f.o}]
        /\ IF f.o < Outputs[f.d] THEN Goto(t, "arm", f.d, f.o + 1) ELSE Return(t)
     \/ Fails /\ Return(t) /\ UNCHANGED outs
  /\ UNCHANGED <<contact, deb, irq, work, powered, callback, loop>>
=============================================================================
