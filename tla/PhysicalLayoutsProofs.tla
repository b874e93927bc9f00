------------------------ MODULE PhysicalLayoutsProofs ------------------------
(***************************************************************************)
(* Proofs about PhysicalLayouts and the KeyScan under it, for any devices, *)
(* layouts and sizes: whatever interrupts and selections come between the  *)
(* steps of a read, the device of the selected layout never stops being    *)
(* scanned and the others stay quiet (ScansOn); no key is pressed that did *)
(* not conduct (NoGhostKeys); and the keymap holds what is debounced as    *)
(* pressed (KeymapFollows).                                                *)
(***************************************************************************)
EXTENDS PhysicalLayouts, WellFoundedInduction, TLAPS

Low == thread["low"]
Work == thread["work"]

WorkCall == {Idle, [at |-> "raise"]} \cup [at : {"read", "report", "arm"}, d : Devices, o : Nat]
LowStages == {"read", "report", "arm", "mask", "suspend", "select", "config"}
LowCall == {Idle} \cup [at : LowStages, d : Devices, o : Nat, to : Layouts, resume : BOOLEAN]

\* A thread is in a read of the device, at one of its outputs
ReadBy(t, d) == thread[t].at \in {"read", "report", "arm"} /\ thread[t].d = d
ThreadsOK ==
  /\ thread \in [Threads -> WorkCall \cup LowCall]
  /\ thread["work"] \in WorkCall /\ thread["low"] \in LowCall
  /\ \A t \in Threads : \A d \in Devices : ReadBy(t, d) => thread[t].o \in AllOutputs(d)
DevicesOK ==
  /\ work \in [Devices -> {"none", "now", "later"}]
  /\ irq \in [Devices -> BOOLEAN] /\ powered \in [Devices -> BOOLEAN]
  /\ outs \in [Devices -> SUBSET Nat] /\ \A d \in Devices : outs[d] \subseteq AllOutputs(d)
  /\ active \in Layouts \cup {NoLayout} /\ deaf \in BOOLEAN /\ faults \in Nat

\* The device is not lost: it will be scanned, or its interrupts are on and its outputs up to k
Served(d, k) == work[d] # "none" \/ (irq[d] /\ 1 .. k \subseteq outs[d]) \/ deaf
ServedThen(d, k) == work'[d] # "none" \/ (irq'[d] /\ 1 .. k \subseteq outs'[d]) \/ deaf'
ReadThen(t, d) == thread'[t].at \in {"read", "report", "arm"} /\ thread'[t].d = d
Quiet(d) == work[d] = "none" /\ ~powered[d] /\ ~irq[d] /\ ~ReadBy("work", d)

\* Every device but the one of the selected layout is quiet, and while a layout is being
\* selected that one is, too
QuietInv == \A d \in Devices : active = NoLayout \/ d # Kscan[active] \/ Low.at = "select" => Quiet(d)
\* The low thread works on the device of the selected layout
LowInv ==
  /\ Low.at # "select" => active # NoLayout
  /\ Low.at \notin {"none", "select"} => Low.d = Kscan[active]
  /\ Low.at = "select" /\ active = NoLayout => Low.to \notin Unmapped
\* A thread that arms a device has armed its outputs so far, or the device will be scanned
ArmInv ==
  /\ Work.at = "arm" => Served(Work.d, Work.o - 1)
  /\ Low.at = "arm" => Served(Low.d, Low.o - 1) \/ ReadBy("work", Low.d)
LiveInv ==
  Low.at = "none" /\ ~pending =>
    Served(Kscan[active], Outputs[Kscan[active]]) \/ ReadBy("work", Kscan[active])

ScanInv == ThreadsOK /\ DevicesOK /\ QuietInv /\ LowInv /\ ArmInv /\ LiveInv
-----------------------------------------------------------------------------
(* Threads *)

LEMMA ThreadNames == Threads = {"work", "low"} /\ "work" # "low" /\ "work" \in Threads /\ "low" \in Threads
BY DEF Threads

LEMMA Sizes ==
  /\ \A d \in Devices : Outputs[d] \in Nat \ {0} /\ AllOutputs(d) = 1 .. Outputs[d]
  /\ \A l \in Layouts : Kscan[l] \in Devices
  /\ NoLayout \notin Layouts
BY KeyScanAssumption, LayoutsAssumption DEF AllOutputs

LEMMA Calls ==
  ASSUME ThreadsOK
  PROVE  /\ Work.at \in {"none", "raise", "read", "report", "arm"}
         /\ Low.at \in LowStages \cup {"none"}
         /\ Work.at \in {"read", "report", "arm"} => Work.d \in Devices /\ Work.o \in AllOutputs(Work.d)
         /\ Low.at # "none" => /\ Low \in [at : LowStages, d : Devices, o : Nat, to : Layouts, resume : BOOLEAN]
                               /\ Low.d \in Devices /\ Low.to \in Layouts /\ Low.resume \in BOOLEAN
         /\ Low.at \in {"read", "report", "arm"} => Low.o \in AllOutputs(Low.d)
<1>1. Work \in WorkCall /\ Low \in LowCall
  BY DEF ThreadsOK, Work, Low
<1>2. /\ Work.at \in {"none", "raise", "read", "report", "arm"}
      /\ Work.at \in {"read", "report", "arm"} => Work.d \in Devices
  BY <1>1 DEF WorkCall, Idle
<1>3. /\ Low.at \in LowStages \cup {"none"}
      /\ Low.at # "none" => /\ Low \in [at : LowStages, d : Devices, o : Nat, to : Layouts, resume : BOOLEAN]
                            /\ Low.d \in Devices /\ Low.to \in Layouts /\ Low.resume \in BOOLEAN
  BY <1>1 DEF LowCall, Idle, LowStages
<1>4. Work.at \in {"read", "report", "arm"} => Work.o \in AllOutputs(Work.d)
  BY <1>2, ThreadNames DEF ThreadsOK, ReadBy, Work
<1>5. Low.at \in {"read", "report", "arm"} => Low.o \in AllOutputs(Low.d)
  BY <1>3, ThreadNames DEF ThreadsOK, ReadBy, Low, LowStages
<1> QED
  BY <1>2, <1>3, <1>4, <1>5

\* The low thread only runs while the other reads nothing
LEMMA LowRuns ==
  ASSUME ThreadsOK, MayRun("low")
  PROVE  Work.at \in {"none", "raise"} /\ \A d \in Devices : ~ReadBy("work", d)
BY ThreadNames DEF MayRun, ReadBy, Work

\* The work queue only ever reads the device of the selected layout
LEMMA WorkReadsSelected ==
  ASSUME ScanInv, NEW d \in Devices, ReadBy("work", d) \/ work[d] # "none" \/ irq[d]
  PROVE  active \in Layouts /\ d = Kscan[active] /\ Low.at # "select"
BY DEF ScanInv, QuietInv, Quiet, DevicesOK

LEMMA WorkGoes ==
  ASSUME ThreadsOK, NEW at \in {"read", "report", "arm"}, NEW d \in Devices, NEW o \in AllOutputs(d),
         Goto("work", at, d, o)
  PROVE  ThreadsOK' /\ Work' = [at |-> at, d |-> d, o |-> o] /\ Low' = Low
<1>1. thread' = [thread EXCEPT !["work"] = [at |-> at, d |-> d, o |-> o]]
  BY ThreadNames DEF Goto
<1>2. o \in Nat
  BY Sizes
<1>3. [at |-> at, d |-> d, o |-> o] \in WorkCall
  BY <1>2 DEF WorkCall
<1>4. /\ thread' \in [Threads -> WorkCall \cup LowCall]
      /\ thread'["work"] = [at |-> at, d |-> d, o |-> o] /\ thread'["low"] = thread["low"]
  BY <1>1, <1>3, ThreadNames DEF ThreadsOK
<1>5. \A t \in Threads : \A e \in Devices : ReadBy(t, e)' => thread'[t].o \in AllOutputs(e)
  BY <1>4, ThreadNames DEF ThreadsOK, ReadBy
<1> QED
  BY <1>3, <1>4, <1>5 DEF ThreadsOK, Work, Low

LEMMA WorkStops ==
  ASSUME ThreadsOK, NEW c \in {Idle, [at |-> "raise"]}, thread' = [thread EXCEPT !["work"] = c]
  PROVE  ThreadsOK' /\ Work' = c /\ Work'.at \in {"none", "raise"} /\ Low' = Low
<1>1. c \in WorkCall /\ c.at \in {"none", "raise"}
  BY DEF WorkCall, Idle
<1>2. /\ thread' \in [Threads -> WorkCall \cup LowCall]
      /\ thread'["work"] = c /\ thread'["low"] = thread["low"]
  BY <1>1, ThreadNames DEF ThreadsOK
<1>3. \A t \in Threads : \A e \in Devices : ReadBy(t, e)' => thread'[t].o \in AllOutputs(e)
  BY <1>1, <1>2, ThreadNames DEF ThreadsOK, ReadBy
<1> QED
  BY <1>1, <1>2, <1>3 DEF ThreadsOK, Work, Low

\* A step of the low thread to another stage, or to its end
LEMMA LowGoes ==
  ASSUME ThreadsOK, NEW c \in LowCall, thread' = [thread EXCEPT !["low"] = c],
         c.at \in {"read", "report", "arm"} => c.o \in AllOutputs(c.d)
  PROVE  ThreadsOK' /\ Low' = c /\ Work' = Work
<1>1. /\ thread' \in [Threads -> WorkCall \cup LowCall]
      /\ thread'["low"] = c /\ thread'["work"] = thread["work"]
  BY ThreadNames DEF ThreadsOK
<1>2. \A t \in Threads : \A e \in Devices : ReadBy(t, e)' => thread'[t].o \in AllOutputs(e)
  BY <1>1, ThreadNames DEF ThreadsOK, ReadBy
<1> QED
  BY <1>1, <1>2 DEF ThreadsOK, Work, Low

LEMMA LowReads ==
  ASSUME ThreadsOK, Low.at # "none", NEW at \in {"read", "report", "arm"}, NEW d \in Devices,
         NEW o \in AllOutputs(d), Goto("low", at, d, o)
  PROVE  /\ ThreadsOK' /\ Work' = Work
         /\ Low'.at = at /\ Low'.d = d /\ Low'.o = o /\ Low'.to = Low.to /\ Low'.resume = Low.resume
<1> DEFINE c == [Low EXCEPT !.at = at, !.d = d, !.o = o]
<1>1. Low \in [at : LowStages, d : Devices, o : Nat, to : Layouts, resume : BOOLEAN]
  BY Calls
<1>2. o \in Nat
  BY Sizes
<1>3. c \in [at : LowStages, d : Devices, o : Nat, to : Layouts, resume : BOOLEAN]
  BY <1>1, <1>2 DEF LowStages
<1>4. c \in LowCall /\ c.at = at /\ c.d = d /\ c.o = o /\ c.to = Low.to /\ c.resume = Low.resume
  BY <1>1, <1>3 DEF LowCall
<1>5. thread' = [thread EXCEPT !["low"] = c]
  BY ThreadNames DEF Goto, ThreadsOK, Low
<1> HIDE DEF c
<1> QED
  BY <1>4, <1>5, LowGoes

LEMMA LowReturns ==
  ASSUME ThreadsOK, Low.at # "none", Return("low")
  PROVE  /\ ThreadsOK' /\ Work' = Work /\ Low'.at \in {"none", "config"}
         /\ Low'.at = "config" => Low'.d = Low.d
<1>1. Low \in [at : LowStages, d : Devices, o : Nat, to : Layouts, resume : BOOLEAN]
  BY Calls
<1>2. CASE Low.resume
  <2> DEFINE c == [Low EXCEPT !.at = "config", !.o = 1]
  <2>1. c \in [at : LowStages, d : Devices, o : Nat, to : Layouts, resume : BOOLEAN]
    BY <1>1 DEF LowStages
  <2>2. c \in LowCall /\ c.at = "config" /\ c.d = Low.d
    BY <1>1, <2>1 DEF LowCall
  <2>3. thread' = [thread EXCEPT !["low"] = c]
    BY <1>2, ThreadNames DEF Return, ThreadsOK, Low
  <2> HIDE DEF c
  <2>4. ThreadsOK' /\ Low' = c /\ Work' = Work
    BY <2>2, <2>3, LowGoes
  <2> QED
    BY <2>2, <2>4
<1>3. CASE ~Low.resume
  <2>1. Idle \in LowCall /\ Idle.at = "none"
    BY DEF LowCall, Idle
  <2>2. thread' = [thread EXCEPT !["low"] = Idle]
    BY <1>3, ThreadNames DEF Return, ThreadsOK, Low
  <2>3. ThreadsOK' /\ Low' = Idle /\ Work' = Work
    BY <2>1, <2>2, LowGoes
  <2> QED
    BY <2>1, <2>3
<1> QED
  BY <1>2, <1>3
-----------------------------------------------------------------------------
(* The steps of a read *)

\* What a read does to the devices, whichever of its steps
LEMMA ReadDevices ==
  ASSUME ThreadsOK, DevicesOK, NEW t \in Threads, NEW d \in Devices, ReadBy(t, d), Read(t)
  PROVE  /\ DevicesOK' /\ UNCHANGED <<active, pending, powered>> /\ (deaf => deaf')
         /\ \A e \in Devices \ {d} : work'[e] = work[e] /\ irq'[e] = irq[e] /\ outs'[e] = outs[e]
         /\ faults' # faults => deaf'
<1>1. thread[t].d = d /\ thread[t].o \in AllOutputs(d) /\ thread[t].o \in Nat
  BY Sizes DEF ThreadsOK, ReadBy
<1>2. /\ UNCHANGED <<active, pending, powered>>
      /\ faults' = faults \/ faults' = faults + 1
      /\ deaf' = (deaf \/ faults' > faults)
  BY DEF Read, Heard, ReadOutput, ReadFails, EndRead, ArmOutput, Works, Fails
<1>3. faults' \in Nat /\ deaf' \in BOOLEAN /\ (deaf => deaf') /\ (faults' # faults => deaf')
  <2>1. faults' \in Nat /\ (faults' # faults <=> faults' > faults) /\ deaf \in BOOLEAN
    BY <1>2 DEF DevicesOK
  <2>2. CASE deaf' = TRUE
    BY <2>1, <2>2
  <2>3. CASE deaf' = FALSE
    <3>1. ~(deaf \/ faults' > faults)
      BY <1>2, <2>3
    <3> QED
      BY <2>1, <2>3, <3>1
  <2>4. (deaf \/ faults' > faults) \in BOOLEAN
    OBVIOUS
  <2> QED
    BY <1>2, <2>2, <2>3, <2>4
<1>4. \/ outs' = outs \/ outs' = [outs EXCEPT ![d] = @ \ {thread[t].o}]
      \/ outs' = [outs EXCEPT ![d] = @ \cup {thread[t].o}]
  BY <1>1 DEF Read, ReadOutput, ReadFails, EndRead, ArmOutput
<1>5. /\ outs' \in [Devices -> SUBSET Nat] /\ \A e \in Devices : outs'[e] \subseteq AllOutputs(e)
      /\ \A e \in Devices \ {d} : outs'[e] = outs[e]
  BY <1>1, <1>4 DEF DevicesOK
<1>6. /\ work' = work \/ work' = [work EXCEPT ![d] = "later"]
      /\ irq' = irq \/ irq' = [irq EXCEPT ![d] = TRUE]
  BY <1>1 DEF Read, ReadOutput, ReadFails, EndRead, ArmOutput
<1> QED
  BY <1>2, <1>3, <1>5, <1>6 DEF DevicesOK

\* ... and what each of them does to the read
Samples(t, d) ==
  LET o == thread[t].o IN
  /\ thread[t].at = "read"
  /\ \/ o < Outputs[d] /\ Goto(t, "read", d, o + 1)
     \/ Goto(t, "report", d, 1)
Breaks(t) == faults' # faults /\ Return(t)
Rescans(t, d) == work' = [work EXCEPT ![d] = "later"] /\ Return(t)
StartsArming(t, d) == irq' = [irq EXCEPT ![d] = TRUE] /\ Goto(t, "arm", d, 1)
Arms(t, d) ==
  LET o == thread[t].o IN
  /\ thread[t].at = "arm" /\ UNCHANGED <<work, irq>>
  /\ outs' = [outs EXCEPT ![d] = @ \cup {o}]
  /\ IF o < Outputs[d] THEN Goto(t, "arm", d, o + 1) ELSE Return(t)

LEMMA ReadDoes ==
  ASSUME DevicesOK, NEW t \in Threads, NEW d \in Devices, ReadBy(t, d), Read(t)
  PROVE  Samples(t, d) \/ Breaks(t) \/ Rescans(t, d) \/ StartsArming(t, d) \/ Arms(t, d)
<1>1. thread[t].d = d
  BY DEF ReadBy
<1>2. ASSUME Fails PROVE faults' # faults
  BY <1>2 DEF Fails, DevicesOK
<1>3. CASE ReadOutput(t)
  BY <1>1, <1>3 DEF ReadOutput, Samples
<1>4. CASE ReadFails(t)
  BY <1>2, <1>4 DEF ReadFails, Breaks
<1>5. CASE EndRead(t)
  BY <1>1, <1>2, <1>5 DEF EndRead, Rescans, StartsArming, Breaks
<1>6. CASE ArmOutput(t)
  BY <1>1, <1>2, <1>6 DEF ArmOutput, Arms, Breaks
<1> QED
  BY <1>3, <1>4, <1>5, <1>6 DEF Read

LEMMA ReadsDevice ==
  ASSUME ThreadsOK, NEW t \in Threads, Read(t)
  PROVE  thread[t].d \in Devices /\ ReadBy(t, thread[t].d) /\ MayRun(t)
<1>1. thread[t].at \in {"read", "report", "arm"} /\ MayRun(t)
  BY DEF Read, ReadOutput, ReadFails, EndRead, ArmOutput
<1>2. thread[t].d \in Devices
  BY <1>1, Calls, ThreadNames DEF Work, Low
<1> QED
  BY <1>1, <1>2 DEF ReadBy

\* An output more is armed
LEMMA ServedNext ==
  ASSUME DevicesOK, NEW d \in Devices, NEW o \in AllOutputs(d), Served(d, o - 1),
         outs' = [outs EXCEPT ![d] = @ \cup {o}], UNCHANGED <<work, irq>>, deaf => deaf'
  PROVE  ServedThen(d, o) /\ (~(o < Outputs[d]) => \A k \in 0 .. Outputs[d] : ServedThen(d, k))
<1>1. o \in Nat /\ Outputs[d] \in Nat /\ o >= 1 /\ o <= Outputs[d]
  BY Sizes
<1>2. outs'[d] = outs[d] \cup {o}
  BY DEF DevicesOK
<1>3. ServedThen(d, o)
  <2>1. 1 .. o - 1 \subseteq outs[d] => 1 .. o \subseteq outs'[d]
    BY <1>1, <1>2
  <2> QED
    BY <2>1 DEF Served, ServedThen
<1>4. ASSUME ~(o < Outputs[d]), NEW k \in 0 .. Outputs[d] PROVE ServedThen(d, k)
  <2>1. 1 .. k \subseteq 1 .. o
    BY <1>1, <1>4
  <2> QED
    BY <1>3, <2>1 DEF Served, ServedThen
<1> QED
  BY <1>3, <1>4

\* What serves a device up to an output serves it when no output is turned off
LEMMA ServedKept ==
  ASSUME NEW d, NEW k, Served(d, k), work[d] # "none" => work'[d] # "none", irq[d] => irq'[d],
         outs[d] \subseteq outs'[d], deaf => deaf'
  PROVE  ServedThen(d, k)
BY DEF Served, ServedThen
-----------------------------------------------------------------------------
(* The invariant *)

LEMMA StepWorkRead ==
  ASSUME ScanInv, Read("work")
  PROVE  ScanInv'
<1> DEFINE d == Work.d
<1> DEFINE o == Work.o
<1>1. ThreadsOK /\ DevicesOK /\ QuietInv /\ LowInv /\ ArmInv /\ LiveInv
  BY DEF ScanInv
<1>2. /\ d \in Devices /\ ReadBy("work", d) /\ o \in AllOutputs(d) /\ active \in Layouts
      /\ d = Kscan[active] /\ Low.at # "select" /\ active # NoLayout
      /\ Outputs[d] \in Nat \ {0} /\ AllOutputs(d) = 1 .. Outputs[d]
  <2>1. d \in Devices /\ ReadBy("work", d)
    BY <1>1, ReadsDevice, ThreadNames DEF Work
  <2>2. active \in Layouts /\ d = Kscan[active] /\ Low.at # "select"
    BY <2>1, WorkReadsSelected
  <2> QED
    BY <1>1, <2>1, <2>2, Calls, Sizes DEF ReadBy, ReadThen, Work
<1>3. /\ DevicesOK' /\ UNCHANGED <<active, pending, powered>> /\ (deaf => deaf')
      /\ \A e \in Devices \ {d} : work'[e] = work[e] /\ irq'[e] = irq[e] /\ outs'[e] = outs[e]
      /\ faults' # faults => deaf'
  BY <1>1, <1>2, ReadDevices, ThreadNames
<1>4. 1 \in AllOutputs(d) /\ (o < Outputs[d] => o + 1 \in AllOutputs(d)) /\ o \in Nat
  BY <1>2
\* What is to be shown of the read
<1> DEFINE Reads == /\ ThreadsOK' /\ Low' = Low
                    /\ \A e \in Devices : ReadThen("work", e) => e = d
                    /\ Work'.at = "arm" => ServedThen(Work'.d, Work'.o - 1)
                    /\ ReadThen("work", d) \/ \A k \in 0 .. Outputs[d] : ServedThen(d, k)
<1>5. ASSUME Return("work"), \A k \in 0 .. Outputs[d] : ServedThen(d, k) PROVE Reads
  <2>1. thread' = [thread EXCEPT !["work"] = Idle]
    BY <1>5, ThreadNames DEF Return
  <2>2. ThreadsOK' /\ Low' = Low /\ Work'.at \in {"none", "raise"}
    BY <1>1, <2>1, WorkStops
  <2>3. \A e \in Devices : ~ReadThen("work", e)
    BY <2>2 DEF ReadBy, ReadThen, Work
  <2> QED
    BY <1>5, <2>2, <2>3
<1>6. ASSUME NEW at \in {"read", "report", "arm"}, NEW n \in AllOutputs(d), Goto("work", at, d, n),
             at = "arm" => ServedThen(d, n - 1)
      PROVE  Reads
  <2>1. ThreadsOK' /\ Work' = [at |-> at, d |-> d, o |-> n] /\ Low' = Low
    BY <1>1, <1>2, <1>6, WorkGoes
  <2>2. Work'.at = at /\ Work'.d = d /\ Work'.o = n
    BY <2>1
  <2>3. \A e \in Devices : ReadThen("work", e) <=> e = d
    BY <2>2 DEF ReadBy, ReadThen, Work
  <2> QED
    BY <1>2, <1>6, <2>1, <2>2, <2>3
<1>7. Reads
  <2>1. CASE Samples("work", d)
    <3>1. Goto("work", "report", d, 1) \/ (o < Outputs[d] /\ Goto("work", "read", d, o + 1))
      BY <2>1 DEF Samples, Work
    <3> QED
      BY <1>4, <1>6, <3>1
  <2>2. CASE Breaks("work")
    BY <1>3, <1>5, <2>2 DEF Breaks, Served, ServedThen
  <2>3. CASE Rescans("work", d)
    <3>1. work'[d] # "none"
      BY <1>1, <1>2, <2>3 DEF Rescans, DevicesOK
    <3> QED
      BY <1>5, <2>3, <3>1 DEF Rescans, Served, ServedThen
  <2>4. CASE StartsArming("work", d)
    <3>1. irq'[d] /\ 1 .. 1 - 1 \subseteq outs'[d]
      BY <1>1, <1>2, <2>4 DEF StartsArming, DevicesOK
    <3>2. ServedThen(d, 1 - 1)
      BY <3>1 DEF Served, ServedThen
    <3> QED
      BY <1>4, <1>6, <2>4, <3>2 DEF StartsArming
  <2>5. CASE Arms("work", d)
    <3>1. /\ Work.at = "arm" /\ UNCHANGED <<work, irq>> /\ outs' = [outs EXCEPT ![d] = @ \cup {o}]
          /\ IF o < Outputs[d] THEN Goto("work", "arm", d, o + 1) ELSE Return("work")
      BY <2>5 DEF Arms, Work
    <3>2. Served(d, o - 1)
      BY <1>1, <3>1 DEF ArmInv, Served, ServedThen, ReadBy, ReadThen
    <3>3. ServedThen(d, o) /\ (~(o < Outputs[d]) => \A k \in 0 .. Outputs[d] : ServedThen(d, k))
      BY <1>1, <1>2, <1>3, <3>1, <3>2, ServedNext
    <3>4. CASE o < Outputs[d]
      <4>1. (o + 1) - 1 = o /\ o + 1 \in AllOutputs(d)
        BY <1>4, <3>4
      <4> HIDE DEF Reads
      <4> QED
        BY <1>6, <3>1, <3>3, <3>4, <4>1
    <3>5. CASE ~(o < Outputs[d])
      BY <1>5, <3>1, <3>3, <3>5
    <3> QED
      BY <3>4, <3>5
  <2> QED
    BY <1>1, <1>2, <2>1, <2>2, <2>3, <2>4, <2>5, ReadDoes, ThreadNames
<1>8. QuietInv'
  <2> SUFFICES ASSUME NEW e \in Devices, active' = NoLayout \/ e # Kscan[active'] \/ Low'.at = "select"
               PROVE  Quiet(e)'
    BY DEF QuietInv
  <2>1. e # d /\ e # Kscan[active]
    BY <1>2, <1>3, <1>7
  <2>2. Quiet(e)
    BY <1>1, <2>1 DEF QuietInv
  <2> QED
    BY <1>3, <1>7, <2>1, <2>2 DEF Quiet, ReadBy, ReadThen
<1>9. LowInv'
  BY <1>1, <1>3, <1>7 DEF LowInv
<1>10. ArmInv'
  <2>1. ASSUME Low'.at = "arm" PROVE ServedThen(Low'.d, Low'.o - 1) \/ ReadThen("work", Low'.d)
    <3>1. Low.at = "arm" /\ Low.d = d /\ Low.o \in AllOutputs(d)
      BY <1>1, <1>2, <1>7, <2>1, Calls DEF LowInv
    <3>2. Low.o - 1 \in 0 .. Outputs[d]
      BY <1>2, <3>1
    <3> QED
      BY <1>7, <3>1, <3>2
  <2> QED
    BY <1>7, <2>1 DEF ArmInv, Served, ServedThen, ReadBy, ReadThen
<1>11. LiveInv'
  <2>1. Outputs[d] \in 0 .. Outputs[d]
    BY <1>2
  <2> QED
    BY <1>2, <1>3, <1>7, <2>1 DEF LiveInv, Served, ServedThen, ReadBy, ReadThen
<1> QED
  BY <1>3, <1>7, <1>8, <1>9, <1>10, <1>11 DEF ScanInv

LEMMA StepLowRead ==
  ASSUME ScanInv, Read("low")
  PROVE  ScanInv'
<1> DEFINE d == Low.d
<1> DEFINE o == Low.o
<1>1. ThreadsOK /\ DevicesOK /\ QuietInv /\ LowInv /\ ArmInv /\ LiveInv
  BY DEF ScanInv
<1>2. /\ d \in Devices /\ ReadBy("low", d) /\ MayRun("low") /\ Low.at \in {"read", "report", "arm"}
      /\ o \in AllOutputs(d)
  <2>1. d \in Devices /\ ReadBy("low", d) /\ MayRun("low")
    BY <1>1, ReadsDevice, ThreadNames DEF Low
  <2> QED
    BY <1>1, <2>1, Calls DEF ReadBy, ReadThen, Low
<1>3. /\ d = Kscan[active] /\ active # NoLayout
      /\ Outputs[d] \in Nat \ {0} /\ AllOutputs(d) = 1 .. Outputs[d]
  BY <1>1, <1>2, Sizes DEF LowInv
<1>4. /\ DevicesOK' /\ UNCHANGED <<active, pending, powered>> /\ (deaf => deaf')
      /\ \A e \in Devices \ {d} : work'[e] = work[e] /\ irq'[e] = irq[e] /\ outs'[e] = outs[e]
      /\ faults' # faults => deaf'
  BY <1>1, <1>2, ReadDevices, ThreadNames
<1>5. Work.at \in {"none", "raise"} /\ \A e \in Devices : ~ReadBy("work", e)
  BY <1>1, <1>2, LowRuns
<1>6. 1 \in AllOutputs(d) /\ (o < Outputs[d] => o + 1 \in AllOutputs(d)) /\ o \in Nat
  BY <1>2, <1>3
<1> DEFINE Reads == /\ ThreadsOK' /\ Work' = Work
                    /\ Low'.at \in {"none", "config", "read", "report", "arm"}
                    /\ Low'.at # "none" => Low'.d = d
                    /\ Low'.at = "arm" => ServedThen(Low'.d, Low'.o - 1)
                    /\ Low'.at = "none" => ServedThen(d, Outputs[d])
<1>7. ASSUME Return("low"), ServedThen(d, Outputs[d]) PROVE Reads
  BY <1>1, <1>2, <1>7, LowReturns
<1>8. ASSUME NEW at \in {"read", "report", "arm"}, NEW n \in AllOutputs(d), Goto("low", at, d, n),
             at = "arm" => ServedThen(d, n - 1)
      PROVE  Reads
  <2>1. Low.at # "none"
    BY <1>2
  <2>2. ThreadsOK' /\ Work' = Work /\ Low'.at = at /\ Low'.d = d /\ Low'.o = n
    BY <1>1, <1>2, <1>8, <2>1, LowReads
  <2> QED
    BY <1>8, <2>2
<1>9. Reads
  <2>1. CASE Samples("low", d)
    <3>1. Goto("low", "report", d, 1) \/ (o < Outputs[d] /\ Goto("low", "read", d, o + 1))
      BY <2>1 DEF Samples, Low
    <3> QED
      BY <1>6, <1>8, <3>1
  <2>2. CASE Breaks("low")
    BY <1>4, <1>7, <2>2 DEF Breaks, Served, ServedThen
  <2>3. CASE Rescans("low", d)
    <3>1. work'[d] # "none"
      BY <1>1, <1>2, <2>3 DEF Rescans, DevicesOK
    <3> QED
      BY <1>7, <2>3, <3>1 DEF Rescans, Served, ServedThen
  <2>4. CASE StartsArming("low", d)
    <3>1. irq'[d] /\ 1 .. 1 - 1 \subseteq outs'[d]
      BY <1>1, <1>2, <2>4 DEF StartsArming, DevicesOK
    <3>2. ServedThen(d, 1 - 1)
      BY <3>1 DEF Served, ServedThen
    <3> QED
      BY <1>6, <1>8, <2>4, <3>2 DEF StartsArming
  <2>5. CASE Arms("low", d)
    <3>1. /\ Low.at = "arm" /\ UNCHANGED <<work, irq>> /\ outs' = [outs EXCEPT ![d] = @ \cup {o}]
          /\ IF o < Outputs[d] THEN Goto("low", "arm", d, o + 1) ELSE Return("low")
      BY <2>5 DEF Arms, Low
    <3>2. Served(d, o - 1)
      BY <1>1, <1>2, <1>5, <3>1 DEF ArmInv, Served, ServedThen, ReadBy, ReadThen
    <3>3. ServedThen(d, o) /\ (~(o < Outputs[d]) => \A k \in 0 .. Outputs[d] : ServedThen(d, k))
      BY <1>1, <1>2, <1>4, <3>1, <3>2, ServedNext
    <3>4. CASE o < Outputs[d]
      <4>1. (o + 1) - 1 = o /\ o + 1 \in AllOutputs(d)
        BY <1>6, <3>4
      <4> HIDE DEF Reads
      <4> QED
        BY <1>8, <3>1, <3>3, <3>4, <4>1
    <3>5. CASE ~(o < Outputs[d])
      <4>1. Outputs[d] \in 0 .. Outputs[d]
        BY <1>3
      <4> QED
        BY <1>7, <3>1, <3>3, <3>5, <4>1
    <3> QED
      BY <3>4, <3>5
  <2> QED
    BY <1>1, <1>2, <2>1, <2>2, <2>3, <2>4, <2>5, ReadDoes, ThreadNames
<1>10. QuietInv'
  <2> SUFFICES ASSUME NEW e \in Devices, active' = NoLayout \/ e # Kscan[active'] \/ Low'.at = "select"
               PROVE  Quiet(e)'
    BY DEF QuietInv
  <2>1. e # d /\ e # Kscan[active]
    BY <1>3, <1>4, <1>9
  <2>2. Quiet(e)
    BY <1>1, <2>1 DEF QuietInv
  <2>3. ~ReadThen("work", e)
    BY <1>5, <1>9 DEF ReadBy, ReadThen, Work
  <2> QED
    BY <1>4, <2>1, <2>2, <2>3 DEF Quiet, ReadBy, ReadThen
<1>11. LowInv'
  BY <1>3, <1>4, <1>9 DEF LowInv
<1>12. ArmInv'
  BY <1>5, <1>9 DEF ArmInv, Served, ServedThen, ReadBy, ReadThen
<1>13. LiveInv'
  BY <1>3, <1>4, <1>9 DEF LiveInv, Served, ServedThen, ReadBy, ReadThen
<1> QED
  BY <1>4, <1>9, <1>10, <1>11, <1>12, <1>13 DEF ScanInv

LEMMA StepScan ==
  ASSUME ScanInv, NEW d \in Devices, Scan(d)
  PROVE  ScanInv'
<1>1. ThreadsOK /\ DevicesOK /\ QuietInv /\ LowInv /\ ArmInv /\ LiveInv
  BY DEF ScanInv
<1>2. /\ work[d] # "none" /\ work' = [work EXCEPT ![d] = "none"] /\ Goto("work", "read", d, 1)
      /\ UNCHANGED <<outs, irq, powered, faults, active, pending, deaf>>
  BY DEF Scan, StartScan
<1>3. d = Kscan[active] /\ Low.at # "select" /\ active # NoLayout /\ 1 \in AllOutputs(d)
  BY <1>2, Sizes, WorkReadsSelected
<1>4. ThreadsOK' /\ Work' = [at |-> "read", d |-> d, o |-> 1] /\ Low' = Low
  BY <1>1, <1>2, <1>3, WorkGoes
<1>5. Work'.at = "read" /\ Work'.d = d
  BY <1>4
<1>6. \A e \in Devices : ReadThen("work", e) <=> e = d
  BY <1>5 DEF ReadThen, Work
<1>7. DevicesOK' /\ \A e \in Devices \ {d} : work'[e] = work[e]
  BY <1>1, <1>2 DEF DevicesOK
<1>8. QuietInv'
  <2> SUFFICES ASSUME NEW e \in Devices, active' = NoLayout \/ e # Kscan[active'] \/ Low'.at = "select"
               PROVE  Quiet(e)'
    BY DEF QuietInv
  <2>1. e # d /\ e # Kscan[active]
    BY <1>2, <1>3, <1>4
  <2>2. Quiet(e)
    BY <1>1, <2>1 DEF QuietInv
  <2> QED
    BY <1>2, <1>6, <1>7, <2>1, <2>2 DEF Quiet, ReadBy, ReadThen
<1>9. LowInv'
  BY <1>1, <1>2, <1>4 DEF LowInv
<1>10. ArmInv'
  <2>1. ReadThen("work", Low'.d) \/ Low'.at # "arm"
    BY <1>1, <1>3, <1>4, <1>6 DEF LowInv
  <2> QED
    BY <1>5, <2>1 DEF ArmInv, ReadBy, ReadThen
<1>11. LiveInv'
  BY <1>2, <1>3, <1>6 DEF LiveInv, ReadBy, ReadThen
<1> QED
  BY <1>4, <1>7, <1>8, <1>9, <1>10, <1>11 DEF ScanInv

\* An interrupt of the one device that has interrupts leads to a scan
LEMMA StepIrq ==
  ASSUME ScanInv, NEW d \in Devices, Irq(d)
  PROVE  ScanInv'
<1>1. ThreadsOK /\ DevicesOK /\ QuietInv /\ LowInv /\ ArmInv /\ LiveInv
  BY DEF ScanInv
<1>2. /\ irq[d] /\ work' = [work EXCEPT ![d] = "now"]
      /\ UNCHANGED <<powered, active, pending, thread>> /\ deaf' = (deaf \/ faults' > faults)
      /\ faults' = faults \/ faults' = faults + 1
  BY DEF Irq, Interrupt, Heard, Works, Fails
<1>3. d = Kscan[active] /\ Low.at # "select" /\ active # NoLayout
  BY <1>2, Sizes, WorkReadsSelected
<1>4. \/ UNCHANGED <<irq, outs>>
      \/ irq' = [irq EXCEPT ![d] = FALSE] /\ \E x \in SUBSET outs[d] : outs' = [outs EXCEPT ![d] = x]
  BY DEF Irq, Interrupt, InterruptDisable, InterruptDisableFails
<1>5. /\ irq' \in [Devices -> BOOLEAN] /\ outs' \in [Devices -> SUBSET Nat]
      /\ \A e \in Devices : outs'[e] \subseteq AllOutputs(e)
      /\ \A e \in Devices \ {d} : irq'[e] = irq[e] /\ outs'[e] = outs[e]
  BY <1>1, <1>4 DEF DevicesOK
<1>6. faults' \in Nat /\ deaf' \in BOOLEAN
  <2>1. (deaf \/ faults' > faults) \in BOOLEAN
    OBVIOUS
  <2> QED
    BY <1>1, <1>2, <2>1 DEF DevicesOK
<1>7. /\ DevicesOK' /\ work'[d] # "none" /\ \A e \in Devices \ {d} : work'[e] = work[e]
  BY <1>1, <1>2, <1>5, <1>6 DEF DevicesOK
<1>8. ThreadsOK' /\ Work' = Work /\ Low' = Low
  BY <1>1, <1>2 DEF ThreadsOK, ReadBy, Work, Low
<1>9. QuietInv'
  <2> SUFFICES ASSUME NEW e \in Devices, active' = NoLayout \/ e # Kscan[active'] \/ Low'.at = "select"
               PROVE  Quiet(e)'
    BY DEF QuietInv
  <2>1. e # d /\ e # Kscan[active]
    BY <1>2, <1>3, <1>8
  <2>2. Quiet(e)
    BY <1>1, <2>1 DEF QuietInv
  <2> QED
    BY <1>2, <1>5, <1>7, <2>1, <2>2 DEF Quiet, ReadBy
<1>10. LowInv'
  BY <1>1, <1>2, <1>8 DEF LowInv
<1>11. \A k : ServedThen(d, k)
  BY <1>7 DEF ServedThen
<1>12. ArmInv'
  <2>1. Work.at = "arm" => Work.d = d
    <3> SUFFICES ASSUME Work.at = "arm" PROVE Work.d = d
      OBVIOUS
    <3>1. Work.d \in Devices /\ ReadBy("work", Work.d)
      BY <1>1, Calls DEF ReadBy, Work
    <3> QED
      BY <1>3, <3>1, WorkReadsSelected
  <2>2. Low.at = "arm" => Low.d = d
    BY <1>1, <1>3 DEF LowInv
  <2> QED
    BY <1>8, <1>11, <2>1, <2>2 DEF ArmInv, Served, ServedThen
<1>13. LiveInv'
  BY <1>2, <1>3, <1>11 DEF LiveInv, Served, ServedThen
<1> QED
  BY <1>7, <1>8, <1>9, <1>10, <1>12, <1>13 DEF ScanInv

LEMMA StepProcess ==
  ASSUME ScanInv, ProcessMsgq
  PROVE  ScanInv'
<1>1. ThreadsOK /\ DevicesOK /\ QuietInv /\ LowInv /\ ArmInv /\ LiveInv
  BY DEF ScanInv
<1>2. /\ Work.at \in {"none", "raise"}
      /\ UNCHANGED <<work, outs, irq, powered, faults, active, pending, deaf>>
      /\ \E c \in {Idle, [at |-> "raise"]} : thread' = [thread EXCEPT !["work"] = c]
  BY DEF ProcessMsgq, Work
<1>3. ThreadsOK' /\ Work'.at \in {"none", "raise"} /\ Low' = Low
  BY <1>1, <1>2, WorkStops
<1>4. \A e : ~ReadBy("work", e) /\ ~ReadThen("work", e)
  BY <1>2, <1>3 DEF ReadBy, ReadThen, Work
<1>5. DevicesOK'
  BY <1>1, <1>2 DEF DevicesOK
<1>6. QuietInv'
  BY <1>1, <1>2, <1>3, <1>4 DEF QuietInv, Quiet, ReadBy, ReadThen
<1>7. LowInv'
  BY <1>1, <1>2, <1>3 DEF LowInv
<1>8. ArmInv'
  BY <1>1, <1>2, <1>3, <1>4 DEF ArmInv, Served
<1>9. LiveInv'
  BY <1>1, <1>2, <1>3, <1>4 DEF LiveInv, Served
<1> QED
  BY <1>3, <1>5, <1>6, <1>7, <1>8, <1>9 DEF ScanInv

\* Keys that move, and reports of them, change nothing of this
LEMMA StepSame ==
  ASSUME ScanInv, UNCHANGED <<thread, work, outs, irq, powered, faults, active, pending, deaf>>
  PROVE  ScanInv'
<1>1. ThreadsOK' /\ DevicesOK'
  BY DEF ScanInv, ThreadsOK, DevicesOK, ReadBy
<1>2. QuietInv' /\ LowInv'
  BY DEF ScanInv, QuietInv, Quiet, LowInv, ReadBy, Work, Low
<1>3. ArmInv' /\ LiveInv'
  BY DEF ScanInv, ArmInv, LiveInv, Served, ReadBy, Work, Low
<1> QED
  BY <1>1, <1>2, <1>3 DEF ScanInv
-----------------------------------------------------------------------------
(* The steps of a selection *)

\* What the low thread does between two layouts keeps the devices that are quiet quiet
LEMMA QuietKept ==
  ASSUME NEW e, Quiet(e), Work' = Work, work'[e] = work[e] \/ work'[e] = "none",
         powered'[e] = powered[e] \/ powered'[e] = FALSE, irq'[e] = irq[e] \/ irq'[e] = FALSE
  PROVE  Quiet(e)'
BY DEF Quiet, ReadBy, Work

LEMMA StepSelect ==
  ASSUME ScanInv, NEW l \in Layouts, Select(l)
  PROVE  ScanInv'
<1>1. ThreadsOK /\ DevicesOK /\ QuietInv /\ LowInv /\ ArmInv /\ LiveInv
  BY DEF ScanInv
<1> DEFINE c == [at |-> "mask", d |-> Kscan[active], o |-> 1, to |-> l, resume |-> FALSE]
<1>2. /\ Low.at = "none" /\ MayRun("low") /\ work' = [work EXCEPT ![Kscan[active]] = "none"]
      /\ thread' = [thread EXCEPT !["low"] = c]
      /\ UNCHANGED <<outs, irq, powered, faults, active, pending, deaf>>
  BY DEF Select, At, Low
<1>3. active \in Layouts /\ Kscan[active] \in Devices /\ active # NoLayout
  BY <1>1, <1>2, Sizes DEF LowInv, DevicesOK
<1>4. c \in LowCall /\ c.at = "mask" /\ c.d = Kscan[active]
  BY <1>3 DEF LowCall, LowStages
<1> HIDE DEF c
<1>5. ThreadsOK' /\ Low' = c /\ Work' = Work
  BY <1>1, <1>2, <1>4, LowGoes
<1>6. DevicesOK' /\ \A e \in Devices : work'[e] = work[e] \/ work'[e] = "none"
  BY <1>1, <1>2 DEF DevicesOK
<1>7. QuietInv'
  <2> SUFFICES ASSUME NEW e \in Devices, active' = NoLayout \/ e # Kscan[active'] \/ Low'.at = "select"
               PROVE  Quiet(e)'
    BY DEF QuietInv
  <2>1. Quiet(e)
    BY <1>1, <1>2, <1>3, <1>4, <1>5 DEF QuietInv
  <2> QED
    BY <1>2, <1>5, <1>6, <2>1, QuietKept
<1>8. LowInv'
  BY <1>2, <1>3, <1>4, <1>5 DEF LowInv
<1>9. ArmInv'
  BY <1>1, <1>2, <1>4, <1>5, LowRuns DEF ArmInv
<1>10. LiveInv'
  BY <1>4, <1>5 DEF LiveInv
<1> QED
  BY <1>5, <1>6, <1>7, <1>8, <1>9, <1>10 DEF ScanInv

\* A stage later, the low thread is the same but for the stage
LEMMA LowStage ==
  ASSUME ThreadsOK, Low.at # "none", NEW at \in {"suspend", "select"},
         thread' = [thread EXCEPT !["low"].at = at]
  PROVE  ThreadsOK' /\ Work' = Work /\ Low'.at = at /\ Low'.d = Low.d /\ Low'.to = Low.to
<1> DEFINE c == [Low EXCEPT !.at = at]
<1>1. Low \in [at : LowStages, d : Devices, o : Nat, to : Layouts, resume : BOOLEAN]
  BY Calls
<1>2. c \in [at : LowStages, d : Devices, o : Nat, to : Layouts, resume : BOOLEAN]
  BY <1>1 DEF LowStages
<1>3. c \in LowCall /\ c.at = at /\ c.d = Low.d /\ c.to = Low.to
  BY <1>1, <1>2 DEF LowCall
<1>4. thread' = [thread EXCEPT !["low"] = c]
  BY DEF Low
<1> HIDE DEF c
<1> QED
  BY <1>3, <1>4, LowGoes

LEMMA StepMask ==
  ASSUME ScanInv, Mask
  PROVE  ScanInv'
<1>1. ThreadsOK /\ DevicesOK /\ QuietInv /\ LowInv /\ ArmInv /\ LiveInv
  BY DEF ScanInv
<1>2. /\ Low.at = "mask" /\ MayRun("low")
      /\ irq' = [irq EXCEPT ![Low.d] = FALSE] /\ outs' = [outs EXCEPT ![Low.d] = {}]
      /\ thread' = [thread EXCEPT !["low"].at = "suspend"]
      /\ UNCHANGED <<work, powered, faults, active, pending, deaf>>
  BY DEF Mask, At, Low, InterruptDisable, layoutVars
<1>3. ThreadsOK' /\ Work' = Work /\ Low'.at = "suspend" /\ Low'.d = Low.d
  BY <1>1, <1>2, LowStage
<1>4. Low.d = Kscan[active] /\ active # NoLayout /\ Low.d \in Devices
  BY <1>1, <1>2, Calls DEF LowInv
<1>5. DevicesOK' /\ \A e \in Devices : irq'[e] = irq[e] \/ irq'[e] = FALSE
  BY <1>1, <1>2, <1>4 DEF DevicesOK
<1>6. QuietInv'
  <2> SUFFICES ASSUME NEW e \in Devices, active' = NoLayout \/ e # Kscan[active'] \/ Low'.at = "select"
               PROVE  Quiet(e)'
    BY DEF QuietInv
  <2>1. Quiet(e)
    BY <1>1, <1>2, <1>3, <1>4 DEF QuietInv
  <2> QED
    BY <1>2, <1>3, <1>5, <2>1, QuietKept
<1>7. LowInv'
  BY <1>2, <1>3, <1>4 DEF LowInv
<1>8. ArmInv'
  BY <1>1, <1>2, <1>3, LowRuns DEF ArmInv
<1>9. LiveInv'
  BY <1>3 DEF LiveInv
<1> QED
  BY <1>3, <1>5, <1>6, <1>7, <1>8, <1>9 DEF ScanInv

LEMMA StepSuspend ==
  ASSUME ScanInv, Suspend
  PROVE  ScanInv'
<1>1. ThreadsOK /\ DevicesOK /\ QuietInv /\ LowInv /\ ArmInv /\ LiveInv
  BY DEF ScanInv
<1>2. /\ Low.at = "suspend" /\ MayRun("low")
      /\ powered' = [powered EXCEPT ![Low.d] = FALSE] /\ work' = [work EXCEPT ![Low.d] = "none"]
      /\ irq' = [irq EXCEPT ![Low.d] = FALSE] /\ outs' = [outs EXCEPT ![Low.d] = {}]
      /\ thread' = [thread EXCEPT !["low"].at = "select"]
      /\ UNCHANGED <<faults, active, pending, deaf>>
  BY DEF Suspend, At, Low, InterruptDisable, layoutVars
<1>3. ThreadsOK' /\ Work' = Work /\ Low'.at = "select" /\ Low'.d = Low.d
  BY <1>1, <1>2, LowStage
<1>4. Low.d = Kscan[active] /\ active # NoLayout /\ Low.d \in Devices
  BY <1>1, <1>2, Calls DEF LowInv
<1>5. /\ DevicesOK'
      /\ work'[Low.d] = "none" /\ ~powered'[Low.d] /\ ~irq'[Low.d]
      /\ \A e \in Devices : /\ work'[e] = work[e] \/ work'[e] = "none"
                            /\ powered'[e] = powered[e] \/ powered'[e] = FALSE
                            /\ irq'[e] = irq[e] \/ irq'[e] = FALSE
  BY <1>1, <1>2, <1>4 DEF DevicesOK
<1>6. QuietInv'
  <2> SUFFICES ASSUME NEW e \in Devices
               PROVE  Quiet(e)'
    BY DEF QuietInv
  <2>1. CASE e = Low.d
    <3>1. ~ReadThen("work", e)
      BY <1>1, <1>2, <1>3, LowRuns DEF ReadThen, Work
    <3> QED
      BY <1>5, <2>1, <3>1 DEF Quiet, ReadBy, ReadThen
  <2>2. CASE e # Low.d
    <3>1. Quiet(e)
      BY <1>1, <1>4, <2>2 DEF QuietInv
    <3> QED
      BY <1>3, <1>5, <3>1, QuietKept
  <2> QED
    BY <2>1, <2>2
<1>7. LowInv'
  BY <1>2, <1>3, <1>4 DEF LowInv
<1>8. ArmInv'
  BY <1>1, <1>2, <1>3, LowRuns DEF ArmInv
<1>9. LiveInv'
  BY <1>3 DEF LiveInv
<1> QED
  BY <1>3, <1>5, <1>6, <1>7, <1>8, <1>9 DEF ScanInv

\* The new layout has no positions, and the old one stays as it is, disabled; or its device
\* gets its pins, with everything else at rest, and is read
LEMMA StepResume ==
  ASSUME ScanInv, Resume
  PROVE  ScanInv'
<1>1. ThreadsOK /\ DevicesOK /\ QuietInv /\ LowInv /\ ArmInv /\ LiveInv
  BY DEF ScanInv
<1>2. /\ Low.at = "select" /\ MayRun("low") /\ UNCHANGED <<irq, work, faults>>
  BY DEF Resume, At, Low
<1>3. Low.to \in Layouts /\ Kscan[Low.to] \in Devices /\ Low.to # NoLayout
  BY <1>1, <1>2, Calls, Sizes
<1>4. \A e \in Devices : Quiet(e)
  BY <1>1, <1>2 DEF QuietInv
<1>5. CASE Low.to \in Unmapped
  <2>1. /\ pending' = TRUE /\ thread' = [thread EXCEPT !["low"] = Idle]
        /\ UNCHANGED <<active, powered, outs, deaf>>
    BY <1>5 DEF Resume, Low
  <2>2. Idle \in LowCall /\ Idle.at = "none"
    BY DEF LowCall, Idle
  <2>3. ThreadsOK' /\ Low' = Idle /\ Work' = Work
    BY <1>1, <2>1, <2>2, LowGoes
  <2>4. DevicesOK'
    BY <1>1, <1>2, <2>1 DEF DevicesOK
  <2>5. QuietInv'
    BY <1>2, <1>4, <2>1, <2>3, QuietKept DEF QuietInv
  <2>6. LowInv'
    BY <1>1, <1>2, <1>5, <2>1, <2>2, <2>3 DEF LowInv
  <2>7. ArmInv'
    BY <1>1, <1>2, <2>2, <2>3, LowRuns DEF ArmInv
  <2>8. LiveInv'
    BY <2>1 DEF LiveInv
  <2> QED
    BY <2>3, <2>4, <2>5, <2>6, <2>7, <2>8 DEF ScanInv
<1>6. CASE Low.to \notin Unmapped
  <2> DEFINE c == [Low EXCEPT !.at = "read", !.d = Kscan[Low.to], !.o = 1, !.resume = TRUE]
  <2>1. /\ active' = Low.to /\ powered' = [powered EXCEPT ![Kscan[Low.to]] = TRUE]
        /\ outs' = [outs EXCEPT ![Kscan[Low.to]] = {}] /\ deaf' = FALSE
        /\ thread' = [thread EXCEPT !["low"] = c]
    BY <1>6 DEF Resume, Low
  <2>2. Low \in [at : LowStages, d : Devices, o : Nat, to : Layouts, resume : BOOLEAN]
    BY <1>1, <1>2, Calls
  <2>3. c \in [at : LowStages, d : Devices, o : Nat, to : Layouts, resume : BOOLEAN]
    BY <1>3, <2>2 DEF LowStages
  <2>4. c \in LowCall /\ c.at = "read" /\ c.d = Kscan[Low.to] /\ c.o = 1 /\ 1 \in AllOutputs(c.d)
    BY <1>3, <2>2, <2>3, Sizes DEF LowCall
  <2> HIDE DEF c
  <2>5. ThreadsOK' /\ Low' = c /\ Work' = Work
    BY <1>1, <2>1, <2>4, LowGoes
  <2>6. DevicesOK' /\ \A e \in Devices \ {Kscan[Low.to]} : powered'[e] = powered[e]
    BY <1>1, <1>2, <1>3, <2>1 DEF DevicesOK
  <2>7. QuietInv'
    <3> SUFFICES ASSUME NEW e \in Devices, active' = NoLayout \/ e # Kscan[active'] \/ Low'.at = "select"
                 PROVE  Quiet(e)'
      BY DEF QuietInv
    <3>1. e # Kscan[Low.to]
      BY <1>3, <2>1, <2>4, <2>5
    <3> QED
      BY <1>2, <1>4, <2>5, <2>6, <3>1, QuietKept
  <2>8. LowInv'
    BY <1>3, <2>1, <2>4, <2>5 DEF LowInv
  <2>9. ArmInv'
    BY <1>1, <1>2, <2>4, <2>5, LowRuns DEF ArmInv
  <2>10. LiveInv'
    BY <2>4, <2>5 DEF LiveInv
  <2> QED
    BY <2>5, <2>6, <2>7, <2>8, <2>9, <2>10 DEF ScanInv
<1> QED
  BY <1>5, <1>6

LEMMA StepEnable ==
  ASSUME ScanInv, Enable
  PROVE  ScanInv'
<1>1. ThreadsOK /\ DevicesOK /\ QuietInv /\ LowInv /\ ArmInv /\ LiveInv
  BY DEF ScanInv
<1> DEFINE c == [Low EXCEPT !.at = "read", !.o = 1, !.resume = FALSE]
<1>2. /\ Low.at = "config" /\ MayRun("low") /\ thread' = [thread EXCEPT !["low"] = c] /\ deaf' = FALSE
      /\ UNCHANGED <<outs, irq, work, powered, faults, active, pending>>
  BY DEF Enable, At, Low
<1>3. /\ Low \in [at : LowStages, d : Devices, o : Nat, to : Layouts, resume : BOOLEAN]
      /\ Low.d \in Devices /\ Low.d = Kscan[active] /\ active # NoLayout /\ 1 \in AllOutputs(Low.d)
  BY <1>1, <1>2, Calls, Sizes DEF LowInv
<1>4. c \in [at : LowStages, d : Devices, o : Nat, to : Layouts, resume : BOOLEAN]
  BY <1>3 DEF LowStages
<1>5. c \in LowCall /\ c.at = "read" /\ c.d = Low.d /\ c.o = 1
  BY <1>3, <1>4 DEF LowCall
<1> HIDE DEF c
<1>6. ThreadsOK' /\ Low' = c /\ Work' = Work
  BY <1>1, <1>2, <1>3, <1>5, LowGoes
<1>7. DevicesOK'
  BY <1>1, <1>2 DEF DevicesOK
<1>8. QuietInv'
  <2> SUFFICES ASSUME NEW e \in Devices, active' = NoLayout \/ e # Kscan[active'] \/ Low'.at = "select"
               PROVE  Quiet(e)'
    BY DEF QuietInv
  <2>1. Quiet(e)
    BY <1>1, <1>2, <1>3, <1>5, <1>6 DEF QuietInv
  <2> QED
    BY <1>2, <1>6, <2>1, QuietKept
<1>9. LowInv'
  BY <1>2, <1>3, <1>5, <1>6 DEF LowInv
<1>10. ArmInv'
  BY <1>1, <1>2, <1>5, <1>6, LowRuns DEF ArmInv
<1>11. LiveInv'
  BY <1>5, <1>6 DEF LiveInv
<1> QED
  BY <1>6, <1>7, <1>8, <1>9, <1>10, <1>11 DEF ScanInv
-----------------------------------------------------------------------------
(* The theorem *)

LEMMA InitScan == Init => ScanInv
<1> SUFFICES ASSUME Init PROVE ScanInv
  OBVIOUS
<1> DEFINE c == [at |-> "select", d |-> Kscan[Default], o |-> 1, to |-> Default, resume |-> FALSE]
<1>1. Default \in Layouts \ Unmapped /\ Kscan[Default] \in Devices
  BY LayoutsAssumption
<1>2. c \in LowCall /\ c.at = "select" /\ c.to = Default /\ Idle \in WorkCall /\ Idle.at = "none"
  BY <1>1 DEF LowCall, LowStages, WorkCall, Idle
<1>3. thread = [work |-> Idle, low |-> c]
  BY DEF Init
<1>4. Work = Idle /\ Low = c /\ DOMAIN thread = Threads
  BY <1>3, ThreadNames DEF Work, Low
<1> HIDE DEF c
<1>5. thread \in [Threads -> WorkCall \cup LowCall]
  <2>1. \A t \in Threads : thread[t] \in WorkCall \cup LowCall
    BY <1>2, <1>4, ThreadNames DEF Work, Low
  <2>2. thread = [t \in Threads |-> thread[t]]
    BY <1>3, ThreadNames
  <2> QED
    BY <2>1, <2>2
<1>6. \A t \in Threads : \A d \in Devices : ~ReadBy(t, d)
  BY <1>2, <1>4, ThreadNames DEF ReadBy, Work, Low
<1>7. ThreadsOK
  BY <1>2, <1>4, <1>5, <1>6 DEF ThreadsOK, Work, Low
<1>8. /\ work = [d \in Devices |-> "none"] /\ irq = [d \in Devices |-> FALSE]
      /\ powered = [d \in Devices |-> FALSE] /\ outs = [d \in Devices |-> {}]
      /\ active = NoLayout /\ deaf = FALSE /\ faults = 0
  BY DEF Init
<1>9. DevicesOK
  BY <1>8 DEF DevicesOK
<1>10. QuietInv
  BY <1>6, <1>8, ThreadNames DEF QuietInv, Quiet
<1>11. LowInv /\ ArmInv /\ LiveInv
  BY <1>1, <1>2, <1>4 DEF LowInv, ArmInv, LiveInv
<1> QED
  BY <1>7, <1>9, <1>10, <1>11 DEF ScanInv

LEMMA NextScan == ScanInv /\ [Next]_vars => ScanInv'
<1> SUFFICES ASSUME ScanInv, [Next]_vars PROVE ScanInv'
  OBVIOUS
<1>1. ASSUME NEW d \in Devices, NEW c \in Cells(d), Bounce(d, c) PROVE ScanInv'
  BY <1>1, StepSame DEF Bounce, Contact
<1>2. ASSUME NEW t \in Threads, NEW c, Callback(t, c) PROVE ScanInv'
  BY <1>2, StepSame DEF Callback, Reports
<1>9. ASSUME NEW t \in Threads, Pass(t) PROVE ScanInv'
  BY <1>9, StepSame DEF Pass, Passes, layoutVars
<1>3. CASE WorkStep
  BY <1>2, <1>3, <1>9, StepWorkRead, StepProcess, StepScan, StepIrq, ThreadNames DEF WorkStep
<1>4. CASE LowStep
  BY <1>2, <1>4, <1>9, StepLowRead, StepMask, StepSuspend, StepResume, StepEnable, ThreadNames DEF LowStep, Switch
<1>5. CASE UNCHANGED vars
  BY <1>5, StepSame DEF vars, scanVars
<1> QED
  BY <1>1, <1>3, <1>4, <1>5, StepSelect DEF Next

\* In every reachable state, whatever the interrupts and the layouts selected meanwhile, the
\* device of the selected layout is scanned, about to be, or armed to be woken, and all others
\* are without power, interrupts and scans (kscan_gpio_matrix.c:194-291, physical_layouts.c:251-297).
THEOREM ScansOn == Spec => [](ScanInv /\ ScansOrWaits)
<1>1. ScanInv => ScansOrWaits
  <2> SUFFICES ASSUME ScanInv, ~Switching, ~pending, NEW d \in Devices
               PROVE  IF d = Kscan[active]
                      THEN work[d] # "none" \/ Reading(d) \/ (irq[d] /\ outs[d] = AllOutputs(d)) \/ deaf
                      ELSE work[d] = "none" /\ ~powered[d] /\ ~Reading(d) /\ (~irq[d] \/ faults > 0)
    BY DEF ScansOrWaits
  <2>1. /\ Low.at = "none" /\ active # NoLayout /\ outs[d] \subseteq AllOutputs(d)
        /\ AllOutputs(d) = 1 .. Outputs[d]
    BY Sizes DEF ScanInv, Switching, LowInv, DevicesOK, Low
  <2>2. Reading(d) <=> ReadBy("work", d)
    BY <2>1, ThreadNames DEF Reading, ReadBy, Low
  <2>3. CASE d = Kscan[active]
    <3>1. Served(d, Outputs[d]) \/ ReadBy("work", d)
      BY <2>1, <2>3 DEF ScanInv, LiveInv
    <3> QED
      BY <2>1, <2>2, <2>3, <3>1 DEF Served
  <2>4. CASE d # Kscan[active]
    <3>1. Quiet(d)
      BY <2>4 DEF ScanInv, QuietInv
    <3> QED
      BY <2>2, <2>4, <3>1 DEF Quiet
  <2> QED
    BY <2>3, <2>4
<1> QED
  BY <1>1, InitScan, NextScan, PTL DEF Spec
-----------------------------------------------------------------------------
(* Keys and debouncers *)

\* A loop that reports is over cells of its device, each of them still to come or just told
OneTold(x) == x.todo \cap x.told = {} /\ \A c, e \in x.told : c = e
LoopOK ==
  /\ loop \in [Threads -> Loops]
  /\ \A t \in Threads : /\ OneTold(loop[t])
                        /\ thread[t].at = "report" =>
                             loop[t].todo \cup loop[t].told \subseteq Cells(thread[t].d)
MatrixOK ==
  /\ LoopOK
  /\ DOMAIN deb = Devices /\ DOMAIN contact = Devices /\ DOMAIN touched = Devices
  /\ \A d \in Devices : /\ deb[d] \in [Cells(d) -> Debouncers]
                        /\ contact[d] \subseteq Cells(d) /\ touched[d] \subseteq Cells(d)

LEMMA DebounceType ==
  ASSUME NEW s \in Debouncers, NEW active_ \in BOOLEAN
  PROVE  DebounceUpdate(s, active_) \in Debouncers
<1> DEFINE n == IF PressScans > ReleaseScans THEN PressScans ELSE ReleaseScans
<1>1. /\ PressScans \in Nat /\ ReleaseScans \in Nat /\ n \in Nat /\ Threshold(s) <= n
      /\ Debouncers = [pressed : BOOLEAN, changed : BOOLEAN, counter : 0 .. n]
  BY KeyScanAssumption DEF Threshold, Debouncers
<1> HIDE DEF n
<1>2. s.counter \in 0 .. n /\ s.pressed \in BOOLEAN
  BY <1>1
<1>3. CASE active_ = s.pressed
  <2>1. (IF s.counter = 0 THEN 0 ELSE s.counter - 1) \in 0 .. n
    BY <1>1, <1>2
  <2> QED
    BY <1>1, <1>3, <2>1 DEF DebounceUpdate
<1>4. CASE active_ # s.pressed /\ s.counter < Threshold(s)
  <2>1. s.counter + 1 \in 0 .. n
    BY <1>1, <1>2, <1>4, KeyScanAssumption DEF Threshold
  <2> QED
    BY <1>1, <1>4, <2>1 DEF DebounceUpdate
<1>5. CASE active_ # s.pressed /\ ~(s.counter < Threshold(s))
  BY <1>1, <1>2, <1>5 DEF DebounceUpdate
<1> QED
  BY <1>3, <1>4, <1>5

LEMMA SampledType ==
  ASSUME NEW d \in Devices, deb[d] \in [Cells(d) -> Debouncers], NEW o
  PROVE  Sampled(d, o) \in [Cells(d) -> Debouncers]
<1>1. \A i : Level(d, outs[d] \cup {o}, i) \in BOOLEAN
  BY DEF Level
<1> QED
  BY <1>1, DebounceType DEF Sampled

LEMMA ReadGoes ==
  ASSUME ThreadsOK, NEW t \in Threads, NEW d \in Devices, ReadBy(t, d),
         NEW at \in {"read", "report", "arm"}, NEW o \in AllOutputs(d), Goto(t, at, d, o)
  PROVE  /\ thread'[t].at = at /\ thread'[t].d = d /\ thread'[t].o = o
         /\ \A u \in Threads \ {t} : thread'[u] = thread[u]
<1>1. CASE t = "work"
  <2>1. Work' = [at |-> at, d |-> d, o |-> o] /\ Low' = Low
    BY <1>1, WorkGoes
  <2>2. thread'["work"] = [at |-> at, d |-> d, o |-> o] /\ thread'["low"] = thread["low"]
    BY <2>1 DEF Work, Low
  <2> QED
    BY <1>1, <2>2, ThreadNames
<1>2. CASE t = "low"
  <2>1. Low.at # "none"
    BY <1>2 DEF ReadBy, Low
  <2> QED
    BY <1>2, <2>1, LowReads, ThreadNames DEF Work, Low
<1> QED
  BY <1>1, <1>2, ThreadNames

LEMMA ReadReturns ==
  ASSUME ThreadsOK, NEW t \in Threads, NEW d \in Devices, ReadBy(t, d), Return(t)
  PROVE  /\ \A e : ~ReadThen(t, e)
         /\ \A u \in Threads \ {t} : thread'[u] = thread[u]
<1>1. CASE t = "work"
  <2>1. thread' = [thread EXCEPT !["work"] = Idle]
    BY <1>1, ThreadNames DEF Return
  <2>2. Work'.at \in {"none", "raise"} /\ Low' = Low
    BY <2>1, WorkStops
  <2> QED
    BY <1>1, <2>2, ThreadNames DEF ReadThen, Work, Low
<1>2. CASE t = "low"
  <2>1. Low.at # "none"
    BY <1>2 DEF ReadBy, Low
  <2>2. Work' = Work /\ Low'.at \in {"none", "config"}
    BY <1>2, <2>1, LowReturns
  <2> QED
    BY <1>2, <2>2, ThreadNames DEF ReadThen, Work, Low
<1> QED
  BY <1>1, <1>2, ThreadNames

\* The low thread begins to select a layout, or goes on with it: it may come to read a device
LEMMA LowMoves ==
  ASSUME ThreadsOK, (\E l \in Layouts : Select(l)) \/ Switch
  PROVE  /\ Low.at \notin {"read", "report", "arm"} /\ MayRun("low")
         /\ \A d \in Devices : ~ReadBy("work", d) /\ ~ReadBy("low", d)
         /\ thread'["work"] = thread["work"] /\ UNCHANGED loop
         /\ Low'.at \notin {"read", "report", "arm"} \/ (Low'.at = "read" /\ Low'.o = 1)
<1>1. /\ Low.at \in {"none", "mask", "suspend", "select", "config"} /\ MayRun("low") /\ UNCHANGED loop
      /\ \E c : thread' = [thread EXCEPT !["low"] = c]
  BY DEF Select, Switch, Mask, Suspend, Enable, Resume, At, Low
<1>2. thread'["work"] = thread["work"]
  BY <1>1, ThreadNames DEF ThreadsOK
<1>3. \A d \in Devices : ~ReadBy("work", d) /\ ~ReadBy("low", d)
  BY <1>1, LowRuns DEF ReadBy, Low
<1>4. ASSUME NEW c, thread' = [thread EXCEPT !["low"] = c] PROVE Low' = c
  BY <1>4, ThreadNames DEF ThreadsOK, Low
<1>5. ASSUME NEW l, Select(l) PROVE Low'.at = "mask"
  <2>1. PICK c : c = [at |-> "mask", d |-> Kscan[active], o |-> 1, to |-> l, resume |-> FALSE]
    OBVIOUS
  <2>2. thread' = [thread EXCEPT !["low"] = c] /\ c.at = "mask"
    BY <1>5, <2>1 DEF Select
  <2> QED
    BY <1>4, <2>2
<1>6. ASSUME Mask \/ Suspend PROVE Low'.at \in {"suspend", "select"}
  <2>1. Low.at # "none" /\ \E at \in {"suspend", "select"} : thread' = [thread EXCEPT !["low"].at = at]
    BY <1>6 DEF Mask, Suspend, At, Low
  <2> QED
    BY <2>1, LowStage
<1>7. ASSUME Resume \/ Enable PROVE Low'.at = "none" \/ (Low'.at = "read" /\ Low'.o = 1)
  <2>1. Low \in [at : LowStages, d : Devices, o : Nat, to : Layouts, resume : BOOLEAN]
    BY <1>7, Calls DEF Resume, Enable, At, Low
  <2>2. PICK d : d = Kscan[Low.to]
    OBVIOUS
  <2>3. PICK c : c = [Low EXCEPT !.at = "read", !.d = d, !.o = 1, !.resume = TRUE]
    OBVIOUS
  <2>4. PICK e : e = [Low EXCEPT !.at = "read", !.o = 1, !.resume = FALSE]
    OBVIOUS
  <2>5. c.at = "read" /\ c.o = 1 /\ e.at = "read" /\ e.o = 1 /\ Idle.at = "none"
    BY <2>1, <2>3, <2>4 DEF Idle
  <2>6. \/ thread' = [thread EXCEPT !["low"] = Idle]
        \/ thread' = [thread EXCEPT !["low"] = c]
        \/ thread' = [thread EXCEPT !["low"] = e]
    BY <1>7, <2>2, <2>3, <2>4 DEF Resume, Enable, Low
  <2> QED
    BY <1>4, <2>5, <2>6
<1>8. Low'.at \notin {"read", "report", "arm"} \/ (Low'.at = "read" /\ Low'.o = 1)
  BY <1>5, <1>6, <1>7 DEF Switch
<1> QED
  BY <1>1, <1>2, <1>3, <1>8

\* The loops of the threads that a step leaves alone, or takes out of their report
LEMMA LoopSame ==
  ASSUME LoopOK, UNCHANGED loop,
         \A t \in Threads : thread'[t].at = "report" => thread'[t] = thread[t]
  PROVE  LoopOK'
BY DEF LoopOK

LEMMA LoopRead ==
  ASSUME ThreadsOK, LoopOK, NEW t \in Threads, Read(t)
  PROVE  LoopOK'
<1>1. PICK d \in Devices : d = thread[t].d
  BY ReadsDevice
<1>2. /\ ReadBy(t, d) /\ thread[t].o \in AllOutputs(d) /\ 1 \in AllOutputs(d)
      /\ thread[t].o < Outputs[d] => thread[t].o + 1 \in AllOutputs(d)
  BY <1>1, ReadsDevice, Sizes DEF ThreadsOK
<1>3. ASSUME Return(t)
      PROVE  thread'[t].at # "report" /\ \A u \in Threads \ {t} : thread'[u] = thread[u]
  <2>1. (\A e : ~ReadThen(t, e)) /\ \A u \in Threads \ {t} : thread'[u] = thread[u]
    BY <1>2, <1>3, ReadReturns
  <2>2. ~ReadThen(t, thread'[t].d)
    BY <2>1
  <2> QED
    BY <2>1, <2>2 DEF ReadThen
<1>4. ASSUME NEW at \in {"read", "report", "arm"}, NEW o \in AllOutputs(d), Goto(t, at, d, o)
      PROVE  thread'[t].at = at /\ thread'[t].d = d /\ \A u \in Threads \ {t} : thread'[u] = thread[u]
  BY <1>2, <1>4, ReadGoes
<1>5. NoLoop \in Loops /\ NoLoop.todo = {} /\ NoLoop.told = {}
  BY DEF NoLoop, Loops
<1>6. ASSUME NEW x \in Loops, loop' = [loop EXCEPT ![t] = x], x.told = {},
             \A u \in Threads \ {t} : thread'[u] = thread[u],
             thread'[t].at = "report" => thread'[t].d = d /\ x.todo \subseteq Cells(d)
      PROVE  LoopOK'
  <2>1. loop' \in [Threads -> Loops] /\ loop'[t] = x /\ \A u \in Threads \ {t} : loop'[u] = loop[u]
    BY <1>6 DEF LoopOK
  <2>2. ASSUME NEW u \in Threads
        PROVE  /\ OneTold(loop'[u])
               /\ thread'[u].at = "report" => loop'[u].todo \cup loop'[u].told \subseteq Cells(thread'[u].d)
    BY <1>6, <2>1 DEF LoopOK, OneTold
  <2> QED
    BY <2>1, <2>2 DEF LoopOK, OneTold
<1>7. CASE ReadOutput(t) /\ thread[t].o < Outputs[d]
  <2>1. Goto(t, "read", d, thread[t].o + 1) /\ UNCHANGED loop
    BY <1>1, <1>7 DEF ReadOutput
  <2>2. thread'[t].at = "read" /\ \A u \in Threads \ {t} : thread'[u] = thread[u]
    BY <1>2, <1>4, <1>7, <2>1
  <2> QED
    BY <2>1, <2>2, LoopSame
<1>8. CASE ReadOutput(t) /\ ~(thread[t].o < Outputs[d])
  <2>1. PICK x : x = [NoLoop EXCEPT !.todo = Cells(d)]
    OBVIOUS
  <2>2. x \in Loops /\ x.told = {} /\ x.todo = Cells(d)
    <3>1. Cells(d) \in SUBSET AllCells
      BY DEF AllCells
    <3> QED
      BY <2>1, <3>1 DEF NoLoop, Loops
  <2>3. Goto(t, "report", d, 1) /\ loop' = [loop EXCEPT ![t] = x]
    BY <1>1, <1>8, <2>1 DEF ReadOutput
  <2>4. thread'[t].d = d /\ \A u \in Threads \ {t} : thread'[u] = thread[u]
    BY <1>2, <1>4, <2>3
  <2> QED
    BY <1>6, <2>2, <2>3, <2>4
<1>9. CASE ReadFails(t) \/ ArmOutput(t)
  <2>1. UNCHANGED loop
    BY <1>9 DEF ReadFails, ArmOutput
  <2>2. Return(t) \/ (Goto(t, "arm", d, thread[t].o + 1) /\ thread[t].o < Outputs[d])
    BY <1>1, <1>9 DEF ReadFails, ArmOutput
  <2>3. thread'[t].at # "report" /\ \A u \in Threads \ {t} : thread'[u] = thread[u]
    BY <1>2, <1>3, <1>4, <2>2
  <2> QED
    BY <2>1, <2>3, LoopSame
<1>10. CASE EndRead(t)
  <2>1. loop' = [loop EXCEPT ![t] = NoLoop] /\ (Return(t) \/ Goto(t, "arm", d, 1))
    BY <1>1, <1>10 DEF EndRead
  <2>2. thread'[t].at # "report" /\ \A u \in Threads \ {t} : thread'[u] = thread[u]
    BY <1>2, <1>3, <1>4, <2>1
  <2> QED
    BY <1>5, <1>6, <2>1, <2>2
<1> QED
  BY <1>7, <1>8, <1>9, <1>10 DEF Read

\* The loop hands a cell to the callback, or goes on behind a cell
LEMMA LoopGoes ==
  ASSUME LoopOK, NEW t \in Threads, NEW c, Reports(t, c) \/ (Passes(t, c) /\ c \in loop[t].todo \cup loop[t].told)
  PROVE  /\ LoopOK' /\ UNCHANGED thread /\ \A u \in Threads \ {t} : loop'[u] = loop[u]
         /\ loop'[t].todo = loop[t].todo \ {c}
<1>1. PICK x \in Loops : x = loop[t]
  BY DEF LoopOK
<1>2. x.todo \in SUBSET AllCells /\ x.told \in SUBSET AllCells /\ x.continue \in BOOLEAN
  BY <1>1 DEF Loops
<1>3. PICK b \in BOOLEAN : b = (x.continue \/ DebounceActive(deb[thread[t].d][c]))
  OBVIOUS
<1>4. PICK y : \/ y = [x EXCEPT !.todo = @ \ {c}, !.told = {c}] /\ c \in x.todo /\ loop' = [loop EXCEPT ![t] = y]
               \/ /\ y = [todo |-> x.todo \ {c}, told |-> {}, continue |-> b]
                  /\ loop' = [loop EXCEPT ![t] = y]
  <2>1. CASE Reports(t, c)
    <3>1. c \in x.todo /\ loop' = [loop EXCEPT ![t].todo = @ \ {c}, ![t].told = {c}]
      BY <1>1, <2>1 DEF Reports, Comes
    <3>2. loop' = [loop EXCEPT ![t] = [x EXCEPT !.todo = @ \ {c}, !.told = {c}]]
      BY <1>1, <3>1 DEF LoopOK
    <3> QED
      BY <3>1, <3>2
  <2>2. CASE Passes(t, c)
    <3>1. loop' = [loop EXCEPT ![t] = [todo |-> x.todo \ {c}, told |-> {}, continue |-> b]]
      BY <1>1, <1>3, <2>2 DEF Passes, LoopOK
    <3> QED
      BY <3>1
  <2> QED
    BY <2>1, <2>2
<1>5. /\ y \in Loops /\ y.todo = x.todo \ {c} /\ OneTold(y)
      /\ y.todo \cup y.told \subseteq x.todo \cup x.told
  <2>1. CASE y = [x EXCEPT !.todo = @ \ {c}, !.told = {c}] /\ c \in x.todo
    <3>1. y.todo = x.todo \ {c} /\ y.told = {c} /\ y.continue = x.continue
      BY <2>1 DEF Loops
    <3>2. y = [todo |-> x.todo \ {c}, told |-> {c}, continue |-> x.continue]
      BY <2>1 DEF Loops
    <3>3. y \in Loops
      BY <1>2, <2>1, <3>2 DEF Loops
    <3> QED
      BY <2>1, <3>1, <3>3 DEF OneTold
  <2>2. CASE y = [todo |-> x.todo \ {c}, told |-> {}, continue |-> b]
    <3>1. y \in Loops
      BY <1>2, <2>2 DEF Loops
    <3> QED
      BY <2>2, <3>1 DEF OneTold
  <2> QED
    BY <1>4, <2>1, <2>2
<1>6. loop' \in [Threads -> Loops] /\ loop'[t] = y /\ \A u \in Threads \ {t} : loop'[u] = loop[u]
  BY <1>4, <1>5 DEF LoopOK
<1>7. UNCHANGED thread
  BY DEF Reports, Passes
<1>8. ASSUME NEW u \in Threads
      PROVE  /\ OneTold(loop'[u])
             /\ thread'[u].at = "report" => loop'[u].todo \cup loop'[u].told \subseteq Cells(thread'[u].d)
  BY <1>1, <1>5, <1>6, <1>7 DEF LoopOK
<1> QED
  BY <1>1, <1>5, <1>6, <1>7, <1>8 DEF LoopOK, OneTold

LEMMA LoopStep ==
  ASSUME ThreadsOK, LoopOK, [Next]_vars
  PROVE  LoopOK'
<1>1. ASSUME UNCHANGED <<thread, loop>> PROVE LoopOK'
  BY <1>1, LoopSame
<1>2. ASSUME NEW d, NEW c, Bounce(d, c) PROVE LoopOK'
  BY <1>1, <1>2 DEF Bounce, Contact
<1>3. ASSUME NEW d, Irq(d) PROVE LoopOK'
  BY <1>1, <1>3 DEF Irq, Interrupt
<1>4. ASSUME NEW t \in Threads, NEW c, Callback(t, c) PROVE LoopOK'
  BY <1>4, LoopGoes DEF Callback
<1>5. ASSUME NEW t \in Threads, Pass(t) PROVE LoopOK'
  BY <1>5, LoopGoes DEF Pass
<1>6. ASSUME NEW d \in Devices, Scan(d) PROVE LoopOK'
  <2>1. Goto("work", "read", d, 1) /\ 1 \in AllOutputs(d) /\ UNCHANGED loop
    BY <1>6, Sizes DEF Scan, StartScan
  <2>2. Work' = [at |-> "read", d |-> d, o |-> 1] /\ Low' = Low
    BY <2>1, WorkGoes
  <2>3. thread'["work"].at = "read" /\ thread'["low"] = thread["low"]
    BY <2>2 DEF Work, Low
  <2> QED
    BY <2>1, <2>3, LoopSame, ThreadNames
<1>7. ASSUME ProcessMsgq PROVE LoopOK'
  <2>1. UNCHANGED loop /\ \E c \in {Idle, [at |-> "raise"]} : thread' = [thread EXCEPT !["work"] = c]
    BY <1>7 DEF ProcessMsgq
  <2>2. Work'.at \in {"none", "raise"} /\ Low' = Low
    BY <2>1, WorkStops
  <2> QED
    BY <2>1, <2>2, LoopSame, ThreadNames DEF Work, Low
<1>8. ASSUME (\E l \in Layouts : Select(l)) \/ Switch PROVE LoopOK'
  <2>1. /\ UNCHANGED loop /\ thread'["work"] = thread["work"] /\ Low'.at # "report"
    BY <1>8, LowMoves
  <2> QED
    BY <2>1, LoopSame, ThreadNames DEF Low
<1>9. CASE WorkStep
  BY <1>3, <1>4, <1>5, <1>6, <1>7, <1>9, LoopRead, ThreadNames DEF WorkStep
<1>10. CASE LowStep
  BY <1>4, <1>5, <1>8, <1>10, LoopRead, ThreadNames DEF LowStep
<1>11. CASE UNCHANGED vars
  BY <1>1, <1>11 DEF vars, scanVars
<1> QED
  BY <1>2, <1>8, <1>9, <1>10, <1>11 DEF Next

LEMMA UntouchType ==
  ASSUME MatrixOK, Untouch, UNCHANGED contact
  PROVE  /\ DOMAIN touched' = Devices
         /\ \A d \in Devices : touched'[d] \subseteq Cells(d)
BY DEF MatrixOK, Untouch

LEMMA MatrixStep ==
  ASSUME ThreadsOK, MatrixOK, [Next]_vars
  PROVE  MatrixOK'
<1>10. LoopOK'
  BY LoopStep DEF MatrixOK
<1>1. ASSUME UNCHANGED <<deb, contact, touched>> PROVE MatrixOK'
  BY <1>1, <1>10 DEF MatrixOK
<1>2. ASSUME NEW d \in Devices, NEW c \in Cells(d), Bounce(d, c) PROVE MatrixOK'
  BY <1>2, <1>10 DEF Bounce, Contact, MatrixOK
<1>3. ASSUME NEW t \in Threads, Pass(t) \/ \E c : Callback(t, c) PROVE UNCHANGED <<deb, contact, touched>>
  BY <1>3 DEF Callback, Reports, Pass, Passes, layoutVars
<1>4. ASSUME NEW t \in Threads, Read(t) PROVE MatrixOK'
  <2> DEFINE d == thread[t].d
  <2>1. /\ UNCHANGED contact /\ Untouch /\ thread[t].at \in {"read", "report", "arm"}
        /\ deb' = deb \/ deb' = [deb EXCEPT ![d] = Sampled(d, thread[t].o)]
    BY <1>4 DEF Read, ReadOutput, ReadFails, EndRead, ArmOutput
  <2>2. d \in Devices
    BY <2>1, Calls, ThreadNames DEF Work, Low
  <2>3. DOMAIN deb' = Devices /\ \A e \in Devices : deb'[e] \in [Cells(e) -> Debouncers]
    BY <2>1, <2>2, SampledType DEF MatrixOK
  <2> QED
    BY <1>10, <2>1, <2>3, UntouchType DEF MatrixOK
<1>5. ASSUME NEW d \in Devices, Scan(d) PROVE MatrixOK'
  <2>1. UNCHANGED <<deb, contact>> /\ (UNCHANGED touched \/ touched' = [touched EXCEPT ![d] = Cells(d)])
    BY <1>5 DEF Scan, StartScan
  <2> QED
    BY <1>10, <2>1 DEF MatrixOK
<1>6. CASE WorkStep
  <2>1. ASSUME NEW d \in Devices, Irq(d) PROVE UNCHANGED <<deb, contact, touched>>
    BY <2>1 DEF Irq, Interrupt
  <2>2. ASSUME ProcessMsgq PROVE UNCHANGED <<deb, contact, touched>>
    BY <2>2 DEF ProcessMsgq
  <2> QED
    BY <1>1, <1>3, <1>4, <1>5, <1>6, <2>1, <2>2, ThreadNames DEF WorkStep
<1>7. CASE LowStep
  <2>1. ASSUME Switch PROVE UNCHANGED <<deb, contact, touched>>
    BY <2>1 DEF Switch, Mask, Suspend, Resume, Enable, layoutVars
  <2> QED
    BY <1>1, <1>3, <1>4, <1>7, <2>1, ThreadNames DEF LowStep
<1>8. ASSUME NEW l \in Layouts, Select(l) PROVE MatrixOK'
  BY <1>1, <1>8 DEF Select
<1>9. CASE UNCHANGED vars
  BY <1>1, <1>9 DEF vars, scanVars
<1> QED
  BY <1>2, <1>6, <1>7, <1>8, <1>9 DEF Next
-----------------------------------------------------------------------------
(* No ghosts *)

Rests(d, c) == ~deb[d][c].pressed /\ deb[d][c].counter = 0
Faint(d, c) == ~deb[d][c].pressed /\ deb[d][c].counter = 1
\* In the read of a device, only outputs that are still to be sampled are active; the ones
\* before have been turned off; of the cells behind it the loop that reports has noticed those that
\* are pressed or bounce, and once the read arms there are none
Cleared(t, d) ==
  \A c \in Cells(d) : c \in loop[t].todo \cup loop[t].told \/ loop[t].continue \/ Rests(d, c)
ScanPart(t, d) ==
  /\ thread[t].at = "read" => outs[d] \subseteq thread[t].o .. Outputs[d]
  /\ thread[t].at = "report" => outs[d] = {} /\ Cleared(t, d)
  /\ thread[t].at = "arm" => \A c \in Cells(d) : Rests(d, c)
\* Two reads of a device overlap only in a read of the low thread, which counts all as touched
Orderly(d) ==
  /\ ReadBy("work", d) => ScanPart("work", d)
  /\ ReadBy("low", d) => touched[d] = Cells(d) \/ (~ReadBy("work", d) /\ ScanPart("low", d))
\* When the cell is sampled next no output but its own is active
Past(t, d, c) == thread[t].at = "read" => c[1] < thread[t].o \/ outs[d] \subseteq 1 .. c[1]
Hidden(d, c) ==
  /\ \A t \in Threads : ReadBy(t, d) => Past(t, d, c)
  /\ (\A t \in Threads : ~ReadBy(t, d)) => outs[d] = {}
\* A ghost is seen once and not again
Tells(d, c) == c \in touched[d] \/ Rests(d, c) \/ (Faint(d, c) /\ Hidden(d, c))
GhostFree(d) == contact[d] \subseteq touched[d] /\ Orderly(d) /\ \A c \in Cells(d) : Tells(d, c)
GhostInv == faults = 0 => \A d \in Devices : GhostFree(d)

LEMMA ActiveDebouncer ==
  ASSUME NEW s \in Debouncers
  PROVE  /\ s.pressed \in BOOLEAN /\ s.counter \in Nat
         /\ ~DebounceActive(s) <=> ~s.pressed /\ s.counter = 0
<1>1. s.pressed \in BOOLEAN /\ s.counter \in Nat
  BY KeyScanAssumption DEF Debouncers
<1> QED
  BY <1>1 DEF DebounceActive

LEMMA RestsOrActive ==
  ASSUME MatrixOK, NEW d \in Devices, NEW c \in Cells(d)
  PROVE  /\ Rests(d, c) <=> ~DebounceActive(deb[d][c])
         /\ deb[d][c].pressed \in BOOLEAN /\ deb[d][c].counter \in Nat
<1>1. deb[d][c] \in Debouncers
  BY DEF MatrixOK
<1> QED
  BY <1>1, ActiveDebouncer DEF Rests

\* The loop that reports stays where it is, or goes on behind a cell that it has noticed
LoopKept(t, d) ==
  /\ loop[t].continue => loop'[t].continue
  /\ \A c \in Cells(d) : c \in loop[t].todo \cup loop[t].told =>
       c \in loop'[t].todo \cup loop'[t].told \/ loop'[t].continue \/ Rests(d, c)

LEMMA LoopStays ==
  ASSUME NEW t, loop'[t] = loop[t], NEW d
  PROVE  LoopKept(t, d)
BY DEF LoopKept

LEMMA LoopKeeps ==
  ASSUME MatrixOK, NEW t \in Threads, NEW c,
         Reports(t, c) \/ (Passes(t, c) /\ c \in loop[t].todo \cup loop[t].told),
         NEW d \in Devices, ReadBy(t, d)
  PROVE  LoopKept(t, d)
<1>1. PICK x \in Loops : x = loop[t]
  BY DEF MatrixOK, LoopOK
<1>2. OneTold(x) /\ thread[t].d = d
  BY <1>1 DEF MatrixOK, LoopOK, ReadBy
<1>3. CASE Reports(t, c)
  <2>1. c \in x.todo /\ x.told = {} /\ loop' = [loop EXCEPT ![t].todo = @ \ {c}, ![t].told = {c}]
    BY <1>1, <1>3 DEF Reports, Comes
  <2>2. loop'[t].todo = x.todo \ {c} /\ loop'[t].told = {c} /\ loop'[t].continue = x.continue
    BY <1>1, <2>1 DEF MatrixOK, LoopOK, Loops
  <2> QED
    BY <1>1, <2>1, <2>2 DEF LoopKept
<1>4. CASE Passes(t, c) /\ c \in loop[t].todo \cup loop[t].told
  <2>1. /\ c \in x.told \/ x.told = {}
        /\ thread[t].at = "report"
        /\ loop' = [loop EXCEPT ![t] = [todo |-> x.todo \ {c}, told |-> {},
                                       continue |-> x.continue \/ DebounceActive(deb[d][c])]]
    BY <1>1, <1>2, <1>4 DEF Passes, Comes, MatrixOK, LoopOK
  <2>2. /\ loop'[t].todo = x.todo \ {c} /\ loop'[t].told = {}
        /\ loop'[t].continue = (x.continue \/ DebounceActive(deb[d][c]))
    BY <2>1 DEF MatrixOK, LoopOK
  <2>3. c \in Cells(d)
    BY <1>2, <1>4, <2>1 DEF MatrixOK, LoopOK
  <2>4. Rests(d, c) \/ loop'[t].continue
    BY <2>2, <2>3, RestsOrActive
  <2>5. x.told \subseteq {c}
    BY <1>2, <2>1 DEF OneTold
  <2> QED
    BY <1>1, <2>2, <2>4, <2>5 DEF LoopKept
<1> QED
  BY <1>3, <1>4

\* The loops of the other threads
LEMMA ReadLoops ==
  ASSUME MatrixOK, NEW t \in Threads, Read(t)
  PROVE  \A u \in Threads \ {t} : loop'[u] = loop[u]
BY DEF Read, ReadOutput, ReadFails, EndRead, ArmOutput, MatrixOK, LoopOK

\* A step that turns no output on and samples nothing keeps the device free of ghosts
LEMMA GhostFrame ==
  ASSUME NEW d \in Devices, GhostFree(d), touched[d] \subseteq Cells(d), touched'[d] \subseteq Cells(d),
         contact'[d] \subseteq touched'[d], outs'[d] \subseteq outs[d],
         \A c \in Cells(d) : /\ deb'[d][c].pressed = deb[d][c].pressed
                             /\ deb'[d][c].counter = deb[d][c].counter
                             /\ c \in touched[d] => c \in touched'[d] \/ Rests(d, c)',
         ReadBy("low", d) => touched[d] \subseteq touched'[d],
         \A t \in Threads : /\ ReadThen(t, d) <=> ReadBy(t, d)
                            /\ ReadBy(t, d) => /\ thread'[t].at = thread[t].at /\ thread'[t].o = thread[t].o
                                               /\ LoopKept(t, d)
  PROVE  GhostFree(d)'
<1>1. \A c \in Cells(d) : (Rests(d, c)' <=> Rests(d, c)) /\ (Faint(d, c)' <=> Faint(d, c))
  BY DEF Rests, Faint
<1>6. \A t \in Threads : ReadBy(t, d) /\ Cleared(t, d) => Cleared(t, d)'
  BY <1>1 DEF Cleared, LoopKept
<1>2. \A t \in Threads : (ReadBy(t, d)' <=> ReadBy(t, d)) /\ (ReadBy(t, d) /\ ScanPart(t, d) => ScanPart(t, d)')
  BY <1>1, <1>6 DEF ScanPart, ReadBy, ReadThen
<1>3. Orderly(d)'
  BY <1>2, ThreadNames DEF Orderly, GhostFree
<1>4. \A c \in Cells(d) : Hidden(d, c) => Hidden(d, c)'
  <2> SUFFICES ASSUME NEW c \in Cells(d), Hidden(d, c) PROVE Hidden(d, c)'
    OBVIOUS
  <2>1. ASSUME NEW t \in Threads, ReadBy(t, d)' PROVE Past(t, d, c)'
    BY <1>2, <2>1 DEF Hidden, Past
  <2>2. ASSUME \A t \in Threads : ~ReadBy(t, d)' PROVE outs'[d] = {}
    BY <1>2, <2>2 DEF Hidden
  <2> QED
    BY <2>1, <2>2 DEF Hidden
<1>5. \A c \in Cells(d) : Tells(d, c)'
  BY <1>1, <1>4 DEF Tells, GhostFree
<1> QED
  BY <1>3, <1>5 DEF GhostFree

\* The step of a read, without faults
Sampling(t, d, o) ==
  /\ thread[t].at = "read" /\ deb' = [deb EXCEPT ![d] = Sampled(d, o)] /\ outs' = [outs EXCEPT ![d] = @ \ {o}]
  /\ \/ o < Outputs[d] /\ Goto(t, "read", d, o + 1)
     \/ o >= Outputs[d] /\ Goto(t, "report", d, 1) /\ loop'[t].todo = Cells(d)
Finishing(t, d) ==
  /\ thread[t].at = "report" /\ UNCHANGED <<deb, outs>>
  /\ \/ Return(t)
     \/ ~loop[t].continue /\ loop[t].todo \cup loop[t].told = {} /\ Goto(t, "arm", d, 1)
Arming(t, d, o) ==
  /\ thread[t].at = "arm" /\ UNCHANGED deb /\ outs' = [outs EXCEPT ![d] = @ \cup {o}]
  /\ (o < Outputs[d] /\ Goto(t, "arm", d, o + 1)) \/ Return(t)

LEMMA ReadCases ==
  ASSUME ScanInv, MatrixOK, faults = 0, faults' = 0, NEW t \in Threads, NEW d \in Devices, d = thread[t].d, Read(t)
  PROVE  LET o == thread[t].o IN Sampling(t, d, o) \/ Finishing(t, d) \/ Arming(t, d, o)
<1>1. ~Fails
  BY DEF Fails
<1>2. thread[t].o \in Nat /\ Outputs[d] \in Nat
  BY ReadsDevice, Sizes DEF ScanInv, ThreadsOK
<1>3. CASE ReadOutput(t)
  <2>1. ~(thread[t].o < Outputs[d]) => loop'[t].todo = Cells(d)
    BY <1>3 DEF ReadOutput, MatrixOK, LoopOK, NoLoop
  <2> QED
    BY <1>2, <1>3, <2>1 DEF ReadOutput, Sampling
<1>4. CASE ReadFails(t)
  BY <1>1, <1>4 DEF ReadFails
<1>5. CASE EndRead(t)
  BY <1>1, <1>5 DEF EndRead, Finishing
<1>6. CASE ArmOutput(t)
  BY <1>1, <1>6 DEF ArmOutput, Arming
<1> QED
  BY <1>3, <1>4, <1>5, <1>6 DEF Read
\* What is touched after a step of a read
LEMMA ReadTouches ==
  ASSUME ScanInv, MatrixOK, MatrixOK', NEW t \in Threads, Read(t), NEW d \in Devices, GhostFree(d)
  PROVE  /\ contact' = contact /\ contact'[d] \subseteq touched'[d] /\ touched'[d] \subseteq Cells(d)
         /\ \A c \in Cells(d) : c \in touched[d] => c \in touched'[d] \/ Rests(d, c)'
         /\ Low.at # "none" => touched'[d] = touched[d]
<1>1. contact' = contact /\ Untouch
  BY DEF Read, ReadOutput, ReadFails, EndRead, ArmOutput
<1>2. touched'[d] = IF thread["low"] # Idle THEN touched[d]
                    ELSE contact[d] \cup {c \in touched[d] : DebounceActive(deb'[d][c])}
  BY <1>1 DEF Untouch
<1>3. Low.at # "none" => thread["low"] # Idle
  BY DEF Low, Idle
<1>4. \A c \in Cells(d) : Rests(d, c)' <=> ~DebounceActive(deb'[d][c])
  <2>1. \A c \in Cells(d) : deb'[d][c] \in Debouncers
    BY DEF MatrixOK
  <2> QED
    BY <2>1, ActiveDebouncer DEF Rests
<1> QED
  BY <1>1, <1>2, <1>3, <1>4 DEF GhostFree, MatrixOK

\* A cell that is sampled as conducting but is not touched shows its one ghost, and one that
\* showed it rests
LEMMA SampleGhost ==
  ASSUME MatrixOK, PressScans # 0, NEW d \in Devices, NEW o \in AllOutputs(d), NEW c \in Cells(d), c[1] = o,
         contact[d] \subseteq touched[d], c \notin touched[d],
         deb' = [deb EXCEPT ![d] = Sampled(d, o)]
  PROVE  /\ Rests(d, c) => Rests(d, c)' \/ Faint(d, c)'
         /\ Faint(d, c) /\ outs[d] \subseteq {o} => Rests(d, c)'
<1> DEFINE s == deb[d][c]
<1> DEFINE level == Level(d, outs[d] \cup {o}, c[2])
<1>1. deb'[d][c] = DebounceUpdate(s, level) /\ level \in BOOLEAN
  BY DEF Sampled, Level, MatrixOK
<1>2. outs[d] \subseteq {o} => level = FALSE
  <2>1. c = <<o, c[2]>> /\ c \notin contact[d]
    BY DEF Cells
  <2> QED
    BY <2>1 DEF Level
<1>3. Rests(d, c) => s.pressed = FALSE /\ s.counter = 0
  BY RestsOrActive DEF Rests
<1>4. Faint(d, c) => s.pressed = FALSE /\ s.counter = 1
  BY RestsOrActive DEF Faint
<1>5. s \in Debouncers /\ PressScans \in Nat
  BY KeyScanAssumption DEF MatrixOK
<1> HIDE DEF s, level
<1>6. ASSUME s.pressed = FALSE, s.counter = 0
      PROVE  /\ DebounceUpdate(s, level).pressed = FALSE
             /\ DebounceUpdate(s, level).counter \in {0, 1}
  <2>1. CASE level = FALSE
    BY <1>5, <1>6, <2>1 DEF DebounceUpdate, Debouncers
  <2>2. CASE level = TRUE
    <3>1. s.counter < Threshold(s)
      BY <1>5, <1>6 DEF Threshold
    <3> QED
      BY <1>5, <1>6, <2>2, <3>1 DEF DebounceUpdate, Debouncers
  <2> QED
    BY <1>1, <2>1, <2>2
<1>7. ASSUME s.pressed = FALSE, s.counter = 1, level = FALSE
      PROVE  /\ DebounceUpdate(s, level).pressed = FALSE
             /\ DebounceUpdate(s, level).counter = 0
  <2>1. DebounceUpdate(s, level) = [s EXCEPT !.changed = FALSE, !.counter = IF @ = 0 THEN 0 ELSE @ - 1]
    BY <1>7 DEF DebounceUpdate
  <2>2. (IF s.counter = 0 THEN 0 ELSE s.counter - 1) = 0
    BY <1>7
  <2>3. DebounceUpdate(s, level).pressed = s.pressed
    BY <1>5, <2>1 DEF Debouncers
  <2>4. DebounceUpdate(s, level).counter = (IF s.counter = 0 THEN 0 ELSE s.counter - 1)
    BY <1>5, <2>1 DEF Debouncers
  <2> QED
    BY <1>7, <2>2, <2>3, <2>4
<1>8. Rests(d, c) => Rests(d, c)' \/ Faint(d, c)'
  BY <1>1, <1>3, <1>6 DEF Rests, Faint
<1>9. Faint(d, c) /\ outs[d] \subseteq {o} => Rests(d, c)'
  BY <1>1, <1>2, <1>4, <1>7 DEF Rests
<1> QED
  BY <1>8, <1>9

\* The device that is read
LEMMA GhostReader ==
  ASSUME ScanInv, MatrixOK, MatrixOK', PressScans # 0, faults = 0, faults' = 0,
         NEW t \in Threads, NEW d, d = thread[t].d, NEW o, o = thread[t].o, Read(t), GhostFree(d)
  PROVE  GhostFree(d)'
<1>1. /\ ThreadsOK /\ d \in Devices /\ ReadBy(t, d) /\ MayRun(t)
      /\ o \in AllOutputs(d) /\ Outputs[d] \in Nat \ {0} /\ AllOutputs(d) = 1 .. Outputs[d]
      /\ outs[d] \subseteq AllOutputs(d) /\ DOMAIN outs = Devices
  <2>1. ThreadsOK /\ d \in Devices /\ ReadBy(t, d) /\ MayRun(t)
    BY ReadsDevice DEF ScanInv
  <2> QED
    BY <2>1, Sizes DEF ScanInv, ThreadsOK, DevicesOK
<1>2. Sampling(t, d, o) \/ Finishing(t, d) \/ Arming(t, d, o)
  BY <1>1, ReadCases
<1>3. /\ contact' = contact /\ contact'[d] \subseteq touched'[d] /\ touched'[d] \subseteq Cells(d)
      /\ \A c \in Cells(d) : c \in touched[d] => c \in touched'[d] \/ Rests(d, c)'
      /\ Low.at # "none" => touched'[d] = touched[d]
  BY <1>1, ReadTouches
<1>4. \A u \in Threads \ {t} : thread'[u] = thread[u]
  BY <1>1, <1>2, ReadGoes, ReadReturns DEF Sampling, Finishing, Arming
<1>5. \A u \in Threads \ {t} : ReadBy(u, d)' <=> ReadBy(u, d)
  BY <1>4 DEF ReadBy
<1>6. Sampling(t, d, o) => /\ thread[t].at = "read" /\ outs'[d] = outs[d] \ {o}
                           /\ \/ thread'[t].at = "read" /\ thread'[t].o = o + 1
                              \/ thread'[t].at = "report" /\ o >= Outputs[d] /\ loop'[t].todo = Cells(d)
                           /\ ReadBy(t, d)'
  <2> SUFFICES ASSUME Sampling(t, d, o)
               PROVE  /\ outs'[d] = outs[d] \ {o}
                      /\ \/ thread'[t].at = "read" /\ thread'[t].o = o + 1
                         \/ thread'[t].at = "report" /\ o >= Outputs[d] /\ loop'[t].todo = Cells(d)
                      /\ ReadBy(t, d)'
    BY DEF Sampling
  <2>1. outs'[d] = outs[d] \ {o}
    BY <1>1 DEF Sampling
  <2>2. CASE o < Outputs[d] /\ Goto(t, "read", d, o + 1)
    <3>1. o + 1 \in AllOutputs(d)
      BY <1>1, <2>2
    <3>2. thread'[t].at = "read" /\ thread'[t].d = d /\ thread'[t].o = o + 1
      BY <1>1, <2>2, <3>1, ReadGoes
    <3> QED
      BY <2>1, <3>2 DEF ReadBy
  <2>3. CASE o >= Outputs[d] /\ Goto(t, "report", d, 1) /\ loop'[t].todo = Cells(d)
    <3>1. 1 \in AllOutputs(d)
      BY <1>1
    <3>2. thread'[t].at = "report" /\ thread'[t].d = d
      BY <1>1, <2>3, <3>1, ReadGoes
    <3> QED
      BY <2>1, <2>3, <3>2 DEF ReadBy
  <2> QED
    BY <2>2, <2>3 DEF Sampling
<1>7. Finishing(t, d) => /\ thread[t].at = "report" /\ UNCHANGED <<deb, outs>>
                         /\ \/ ~ReadBy(t, d)'
                            \/ thread'[t].at = "arm" /\ (Cleared(t, d) => \A c \in Cells(d) : Rests(d, c))
  <2> SUFFICES ASSUME Finishing(t, d)
               PROVE  ~ReadBy(t, d)'
                      \/ (thread'[t].at = "arm" /\ (Cleared(t, d) => \A c \in Cells(d) : Rests(d, c)))
    BY DEF Finishing
  <2>1. CASE Return(t)
    BY <1>1, <2>1, ReadReturns DEF ReadBy, ReadThen
  <2>2. CASE ~loop[t].continue /\ loop[t].todo \cup loop[t].told = {} /\ Goto(t, "arm", d, 1)
    <3>1. 1 \in AllOutputs(d)
      BY <1>1
    <3>2. thread'[t].at = "arm"
      BY <1>1, <2>2, <3>1, ReadGoes
    <3>3. Cleared(t, d) => \A c \in Cells(d) : Rests(d, c)
      BY <2>2 DEF Cleared
    <3> QED
      BY <3>2, <3>3
  <2> QED
    BY <2>1, <2>2 DEF Finishing
<1>8. Arming(t, d, o) => thread[t].at = "arm" /\ UNCHANGED deb /\ (~ReadBy(t, d)' \/ thread'[t].at = "arm")
  <2> SUFFICES ASSUME Arming(t, d, o)
               PROVE  ~ReadBy(t, d)' \/ thread'[t].at = "arm"
    BY DEF Arming
  <2>1. CASE Return(t)
    BY <1>1, <2>1, ReadReturns DEF ReadBy, ReadThen
  <2>2. CASE o < Outputs[d] /\ Goto(t, "arm", d, o + 1)
    <3>1. o + 1 \in AllOutputs(d)
      BY <1>1, <2>2
    <3> QED
      BY <1>1, <2>2, <3>1, ReadGoes
  <2> QED
    BY <2>1, <2>2 DEF Arming
<1>9. ScanPart(t, d) /\ ReadBy(t, d)' => ScanPart(t, d)'
  <2> SUFFICES ASSUME ScanPart(t, d), ReadBy(t, d)' PROVE ScanPart(t, d)'
    OBVIOUS
  <2>1. CASE Sampling(t, d, o)
    <3>1. outs[d] \subseteq o .. Outputs[d] /\ outs'[d] = outs[d] \ {o}
      BY <1>6, <2>1 DEF ScanPart
    <3>2. outs'[d] \subseteq (o + 1) .. Outputs[d]
      BY <1>1, <3>1
    <3>3. o >= Outputs[d] => outs'[d] = {}
      BY <1>1, <3>2
    <3> QED
      BY <1>6, <2>1, <3>2, <3>3 DEF ScanPart, Cleared
  <2>2. CASE Finishing(t, d)
    BY <1>7, <2>2 DEF ScanPart, Rests
  <2>3. CASE Arming(t, d, o)
    BY <1>8, <2>3 DEF ScanPart, Rests
  <2> QED
    BY <1>2, <2>1, <2>2, <2>3
\* Nobody else reads the device
<1>10. ASSUME ScanPart(t, d), \A u \in Threads \ {t} : ~ReadBy(u, d), NEW c \in Cells(d)
       PROVE  Tells(d, c)'
  <2>1. Hidden(d, c)' <=> (ReadBy(t, d)' => Past(t, d, c)') /\ (~ReadBy(t, d)' => outs'[d] = {})
    BY <1>5, <1>10 DEF Hidden
  <2>2. CASE c \in touched[d]
    BY <1>3, <2>2 DEF Tells
  <2>3. CASE c \notin touched[d]
    <3>1. Rests(d, c) \/ (Faint(d, c) /\ Past(t, d, c))
      BY <1>1, <2>3 DEF GhostFree, Tells, Hidden
    <3>2. CASE Sampling(t, d, o)
      <4>1. outs[d] \subseteq o .. Outputs[d] /\ outs'[d] = outs[d] \ {o} /\ thread[t].at = "read"
        BY <1>6, <1>10, <3>2 DEF ScanPart
      <4>2. c[1] \in 1 .. Outputs[d]
        BY DEF Cells
      <4>3. CASE c[1] = o
        <5>1. contact[d] \subseteq touched[d] /\ deb' = [deb EXCEPT ![d] = Sampled(d, o)]
          BY <3>2 DEF GhostFree, Sampling
        <5>2. /\ Rests(d, c) => Rests(d, c)' \/ Faint(d, c)'
              /\ Faint(d, c) /\ outs[d] \subseteq {o} => Rests(d, c)'
          BY <1>1, <2>3, <4>3, <5>1, SampleGhost
        <5>3. Past(t, d, c) => outs[d] \subseteq {o}
          BY <1>1, <4>1, <4>3 DEF Past
        <5>4. Past(t, d, c)' /\ ReadBy(t, d)'
          BY <1>1, <1>6, <3>2, <4>3 DEF Past
        <5> QED
          BY <2>1, <3>1, <5>2, <5>3, <5>4 DEF Tells
      <4>4. CASE c[1] # o
        <5>1. deb'[d][c] = deb[d][c]
          BY <1>1, <3>2, <4>4 DEF Sampling, Sampled, MatrixOK
        <5>2. (Rests(d, c)' <=> Rests(d, c)) /\ (Faint(d, c)' <=> Faint(d, c))
          BY <5>1 DEF Rests, Faint
        <5>3. Past(t, d, c) => Past(t, d, c)'
          BY <1>1, <1>6, <3>2, <4>1, <4>2 DEF Past
        <5> QED
          BY <1>6, <2>1, <3>1, <3>2, <5>2, <5>3 DEF Tells
      <4> QED
        BY <4>3, <4>4
    <3>3. CASE Finishing(t, d)
      <4>1. outs'[d] = {} /\ (Rests(d, c)' <=> Rests(d, c)) /\ (Faint(d, c)' <=> Faint(d, c))
        BY <1>7, <1>10, <3>3 DEF ScanPart, Rests, Faint
      <4>2. CASE ~ReadBy(t, d)'
        BY <2>1, <3>1, <4>1, <4>2 DEF Tells
      <4>3. CASE ReadBy(t, d)'
        <5>1. Cleared(t, d)
          BY <1>7, <1>10, <3>3 DEF ScanPart
        <5> QED
          BY <1>7, <3>3, <4>1, <4>3, <5>1 DEF Tells
      <4> QED
        BY <4>2, <4>3
    <3>4. CASE Arming(t, d, o)
      BY <1>8, <1>10, <3>4 DEF ScanPart, Rests, Tells
    <3> QED
      BY <1>2, <3>2, <3>3, <3>4
  <2> QED
    BY <2>2, <2>3
<1>11. t = "low" => Low.at # "none" /\ \A e \in Devices : ~ReadBy("work", e)
  BY <1>1, LowRuns DEF ReadBy, Low
<1>12. CASE t = "low" /\ touched[d] = Cells(d)
  <2>1. touched'[d] = Cells(d) /\ ~ReadBy("work", d)'
    BY <1>1, <1>3, <1>5, <1>11, <1>12, ThreadNames
  <2>2. Orderly(d)'
    BY <2>1 DEF Orderly
  <2> QED
    BY <1>3, <2>1, <2>2 DEF GhostFree, Tells
<1>13. CASE t = "work" /\ ReadBy("low", d)
  <2>1. ScanPart(t, d) /\ touched[d] = Cells(d) /\ Low.at # "none"
    BY <1>1, <1>13 DEF GhostFree, Orderly, ReadBy, Low
  <2>2. touched'[d] = Cells(d)
    BY <1>3, <2>1
  <2>3. Orderly(d)'
    BY <1>9, <1>13, <2>1, <2>2 DEF Orderly
  <2> QED
    BY <1>3, <2>2, <2>3 DEF GhostFree, Tells
<1>14. CASE ScanPart(t, d) /\ \A u \in Threads \ {t} : ~ReadBy(u, d)
  <2>1. \A u \in Threads \ {t} : ~ReadBy(u, d)'
    BY <1>5, <1>14
  <2>2. Orderly(d)'
    BY <1>9, <1>14, <2>1, ThreadNames DEF Orderly
  <2>3. \A c \in Cells(d) : Tells(d, c)'
    BY <1>10, <1>14
  <2> QED
    BY <1>3, <2>2, <2>3 DEF GhostFree
<1>15. CASE t = "work" /\ ~ReadBy("low", d)
  BY <1>1, <1>14, <1>15, ThreadNames DEF GhostFree, Orderly
<1>16. CASE t = "low" /\ touched[d] # Cells(d)
  BY <1>1, <1>11, <1>14, <1>16, ThreadNames DEF GhostFree, Orderly
<1> QED
  BY <1>12, <1>13, <1>15, <1>16, ThreadNames

LEMMA GhostRead ==
  ASSUME ScanInv, MatrixOK, MatrixOK', PressScans # 0, faults = 0, faults' = 0,
         NEW t \in Threads, Read(t), \A d \in Devices : GhostFree(d)
  PROVE  \A d \in Devices : GhostFree(d)'
<1> SUFFICES ASSUME NEW e \in Devices PROVE GhostFree(e)'
  OBVIOUS
<1>1. PICK d : d = thread[t].d
  OBVIOUS
<1>2. PICK o : o = thread[t].o
  OBVIOUS
<1>3. /\ ThreadsOK /\ DevicesOK /\ d \in Devices /\ ReadBy(t, d) /\ o \in AllOutputs(d)
  BY <1>1, <1>2, ReadsDevice DEF ScanInv, ThreadsOK
<1>4. CASE e = d
  BY <1>1, <1>2, <1>4, GhostReader
<1>5. CASE e # d
  <2>1. /\ contact' = contact /\ contact'[e] \subseteq touched'[e] /\ touched'[e] \subseteq Cells(e)
        /\ \A c \in Cells(e) : c \in touched[e] => c \in touched'[e] \/ Rests(e, c)'
        /\ Low.at # "none" => touched'[e] = touched[e]
    BY ReadTouches
  <2>2. Sampling(t, d, o) \/ Finishing(t, d) \/ Arming(t, d, o)
    BY <1>1, <1>2, <1>3, ReadCases
  <2>3. outs'[e] = outs[e] /\ deb'[e] = deb[e]
    BY <1>3, <1>5, <2>2 DEF Sampling, Finishing, Arming, DevicesOK, MatrixOK
  <2>4. \A u \in Threads \ {t} : thread'[u] = thread[u]
    BY <1>3, <2>2, ReadGoes, ReadReturns, Sizes DEF Sampling, Finishing, Arming
  <2>5. ~ReadBy(t, e)
    BY <1>3, <1>5 DEF ReadBy
  <2>6. ~ReadThen(t, e)
    <3>1. CASE Return(t)
      BY <1>3, <3>1, ReadReturns
    <3>2. CASE \E at \in {"read", "report", "arm"}, n \in AllOutputs(d) : Goto(t, at, d, n)
      BY <1>3, <1>5, <3>2, ReadGoes DEF ReadThen
    <3> QED
      BY <1>3, <2>2, <3>1, <3>2, Sizes DEF Sampling, Finishing, Arming
  <2>7. \A u \in Threads : /\ ReadThen(u, e) <=> ReadBy(u, e)
                           /\ ReadBy(u, e) => /\ thread'[u].at = thread[u].at /\ thread'[u].o = thread[u].o
                                              /\ LoopKept(u, e)
    <3>1. \A u \in Threads \ {t} : LoopKept(u, e)
      BY ReadLoops, LoopStays
    <3> QED
      BY <2>4, <2>5, <2>6, <3>1 DEF ReadBy, ReadThen
  <2>8. ReadBy("low", e) => touched[e] \subseteq touched'[e]
    BY <2>1 DEF ReadBy, Low
  <2>9. touched[e] \subseteq Cells(e) /\ GhostFree(e)
    BY DEF MatrixOK
  <2> QED
    BY <2>1, <2>3, <2>7, <2>8, <2>9, GhostFrame
<1> QED
  BY <1>4, <1>5

LEMMA GhostScan ==
  ASSUME ScanInv, ScanInv', MatrixOK, MatrixOK', NEW d \in Devices, Scan(d), \A e \in Devices : GhostFree(e)
  PROVE  \A e \in Devices : GhostFree(e)'
<1>1. /\ Work.at = "none" /\ Goto("work", "read", d, 1) /\ UNCHANGED <<contact, deb, outs, loop>>
      /\ IF Reading(d) THEN touched' = [touched EXCEPT ![d] = Cells(d)] ELSE UNCHANGED touched
  BY DEF Scan, StartScan, Work
<1>2. /\ ThreadsOK /\ 1 \in AllOutputs(d) /\ AllOutputs(d) = 1 .. Outputs[d] /\ Outputs[d] \in Nat
      /\ outs[d] \subseteq AllOutputs(d)
  BY Sizes DEF ScanInv, DevicesOK
<1>3. /\ thread'["work"].at = "read" /\ thread'["work"].d = d /\ thread'["work"].o = 1
      /\ thread'["low"] = thread["low"]
  <2>1. Work' = [at |-> "read", d |-> d, o |-> 1] /\ Low' = Low
    BY <1>1, <1>2, WorkGoes
  <2> QED
    BY <2>1 DEF Work, Low
<1>4. \A e : ~ReadBy("work", e)
  BY <1>1 DEF ReadBy, Work
<1>5. ReadBy("low", d) <=> Reading(d)
  BY <1>4, ThreadNames DEF Reading, ReadBy
<1> SUFFICES ASSUME NEW e \in Devices PROVE GhostFree(e)'
  OBVIOUS
<1>6. GhostFree(e) /\ touched[e] \subseteq Cells(e) /\ touched'[e] \subseteq Cells(e) /\ DOMAIN touched = Devices
  BY DEF MatrixOK
<1>7. CASE e # d
  <2>1. touched'[e] = touched[e] /\ outs'[e] = outs[e] /\ deb'[e] = deb[e] /\ contact'[e] = contact[e]
    BY <1>1, <1>6, <1>7
  <2>2. \A t \in Threads : /\ ReadThen(t, e) <=> ReadBy(t, e)
                           /\ ReadBy(t, e) => /\ thread'[t].at = thread[t].at /\ thread'[t].o = thread[t].o
                                              /\ LoopKept(t, e)
    BY <1>1, <1>3, <1>4, <1>7, ThreadNames, LoopStays DEF ReadBy, ReadThen
  <2>3. contact'[e] \subseteq touched'[e]
    BY <1>6, <2>1 DEF GhostFree
  <2> QED
    BY <1>6, <2>1, <2>2, <2>3, GhostFrame
<1>8. CASE e = d
  <2>1. contact'[d] \subseteq touched'[d] /\ touched[d] \subseteq touched'[d]
    BY <1>1, <1>6, <1>8 DEF GhostFree, MatrixOK
  <2>2. ReadBy("low", d) => touched'[d] = Cells(d)
    BY <1>1, <1>5, <1>6
  <2>3. ReadBy("work", d)' /\ (ReadBy("low", d)' <=> ReadBy("low", d))
    BY <1>3 DEF ReadBy
  <2>4. ScanPart("work", d)'
    BY <1>1, <1>2, <1>3 DEF ScanPart
  <2>5. Orderly(d)'
    BY <2>2, <2>3, <2>4 DEF Orderly
  <2>6. ASSUME NEW c \in Cells(d) PROVE Tells(d, c)'
    <3>1. CASE ReadBy("low", d)
      BY <2>2, <3>1 DEF Tells
    <3>2. CASE ~ReadBy("low", d)
      <4>1. Faint(d, c) /\ Hidden(d, c) => outs'[d] = {}
        BY <1>1, <1>4, <3>2, ThreadNames DEF Hidden
      <4>2. outs'[d] = {} => Hidden(d, c)'
        BY <2>3, <3>2, ThreadNames DEF Hidden, Past
      <4> QED
        BY <1>1, <1>6, <1>8, <2>1, <4>1, <4>2 DEF GhostFree, Tells, Rests, Faint
    <3> QED
      BY <3>1, <3>2
  <2> QED
    BY <1>8, <2>1, <2>5, <2>6 DEF GhostFree
<1> QED
  BY <1>7, <1>8

\* The same reads are under way
SameReads ==
  \A t \in Threads : \A d \in Devices :
    /\ ReadThen(t, d) <=> ReadBy(t, d)
    /\ ReadBy(t, d) => thread'[t].at = thread[t].at /\ thread'[t].o = thread[t].o /\ LoopKept(t, d)

LEMMA GhostSame ==
  ASSUME MatrixOK, MatrixOK', \A d \in Devices : GhostFree(d), SameReads, UNCHANGED <<contact, touched>>,
         \A d \in Devices : outs'[d] \subseteq outs[d],
         \A d \in Devices : \A c \in Cells(d) : /\ deb'[d][c].pressed = deb[d][c].pressed
                                                /\ deb'[d][c].counter = deb[d][c].counter
  PROVE  \A d \in Devices : GhostFree(d)'
<1> SUFFICES ASSUME NEW d \in Devices PROVE GhostFree(d)'
  OBVIOUS
<1>1. GhostFree(d) /\ touched[d] \subseteq Cells(d) /\ contact[d] \subseteq touched[d]
  BY DEF MatrixOK, GhostFree
<1> QED
  BY <1>1, GhostFrame DEF SameReads

LEMMA LowElsewhere ==
  ASSUME Low.at \notin {"read", "report", "arm"}, Low'.at \notin {"read", "report", "arm"}, Work' = Work,
         UNCHANGED loop
  PROVE  SameReads
BY ThreadNames, LoopStays DEF SameReads, ReadBy, ReadThen, Work, Low

\* The low thread starts to read a device, of which no output is turned on by that
LEMMA GhostBegins ==
  ASSUME ScanInv, ScanInv', MatrixOK, MatrixOK', \A e \in Devices : GhostFree(e), NEW d \in Devices,
         Work' = Work, \A e \in Devices : ~ReadBy("work", e),
         Low.at \notin {"read", "report", "arm"}, Low'.at = "read", Low'.d = d, Low'.o = 1,
         UNCHANGED <<deb, contact, touched>>, \A e \in Devices : outs'[e] \subseteq outs[e]
  PROVE  \A e \in Devices : GhostFree(e)'
<1> SUFFICES ASSUME NEW e \in Devices PROVE GhostFree(e)'
  OBVIOUS
<1>1. GhostFree(e) /\ touched[e] \subseteq Cells(e) /\ contact[e] \subseteq touched[e]
  BY DEF MatrixOK, GhostFree
<1>2. /\ ~ReadBy("work", e) /\ ~ReadBy("low", e) /\ ~ReadThen("work", e)
      /\ ReadThen("low", e) <=> e = d
  BY DEF ReadBy, ReadThen, Work, Low
<1>3. CASE e # d
  <2>1. \A t \in Threads : ~ReadThen(t, e) /\ ~ReadBy(t, e)
    BY <1>2, <1>3, ThreadNames
  <2> QED
    BY <1>1, <2>1, GhostFrame
<1>4. CASE e = d
  <2>1. thread'["low"].at = "read" /\ thread'["low"].o = 1
    BY DEF Low
  <2>2. outs'[d] \subseteq 1 .. Outputs[d]
    BY Sizes DEF ScanInv, DevicesOK
  <2>3. ScanPart("low", d)' /\ ~ReadBy("work", d)'
    BY <1>2, <1>4, <2>1, <2>2 DEF ScanPart, ReadBy, ReadThen
  <2>4. \A c \in Cells(d) : Hidden(d, c) => Hidden(d, c)'
    <3> SUFFICES ASSUME NEW c \in Cells(d), Hidden(d, c) PROVE Hidden(d, c)'
      OBVIOUS
    <3>1. outs'[d] = {}
      BY <1>2, <1>4, ThreadNames DEF Hidden
    <3>2. ReadBy("low", d)'
      BY <1>2, <1>4 DEF ReadBy, ReadThen
    <3> QED
      BY <3>1, <3>2, ThreadNames DEF Hidden, Past
  <2>5. \A c \in Cells(d) : Tells(d, c)'
    BY <1>1, <1>4, <2>4 DEF GhostFree, Tells, Rests, Faint
  <2> QED
    BY <1>1, <1>4, <2>3, <2>5 DEF GhostFree, Orderly
<1> QED
  BY <1>3, <1>4

LEMMA GhostSwitch ==
  ASSUME ScanInv, ScanInv', MatrixOK, MatrixOK', \A e \in Devices : GhostFree(e), Switch
  PROVE  \A e \in Devices : GhostFree(e)'
<1>1. ThreadsOK /\ DevicesOK /\ UNCHANGED <<deb, contact, touched, loop>>
  BY DEF ScanInv, Switch, Mask, Suspend, Resume, Enable, layoutVars
<1>2. CASE Mask \/ Suspend
  <2>1. /\ Low.at \in {"mask", "suspend"} /\ outs' = [outs EXCEPT ![Low.d] = {}]
        /\ \E at \in {"suspend", "select"} : thread' = [thread EXCEPT !["low"].at = at]
    BY <1>2 DEF Mask, Suspend, At, InterruptDisable, Low
  <2>2. Work' = Work /\ Low'.at \in {"suspend", "select"}
    BY <1>1, <2>1, LowStage
  <2>3. SameReads
    BY <1>1, <2>1, <2>2, LowElsewhere
  <2>4. \A d \in Devices : outs'[d] \subseteq outs[d]
    BY <1>1, <2>1 DEF DevicesOK
  <2> QED
    BY <1>1, <2>3, <2>4, GhostSame
<1>3. CASE Resume /\ Low.to \in Unmapped
  <2>1. Low.at = "select" /\ outs' = outs /\ thread' = [thread EXCEPT !["low"] = Idle]
    BY <1>3 DEF Resume, At, Low
  <2>2. Idle \in LowCall /\ Idle.at = "none"
    BY DEF LowCall, Idle
  <2>3. Low' = Idle /\ Work' = Work
    BY <1>1, <2>1, <2>2, LowGoes
  <2>4. SameReads
    BY <1>1, <2>1, <2>2, <2>3, LowElsewhere
  <2> QED
    BY <1>1, <2>1, <2>4, GhostSame
<1>4. CASE Resume /\ Low.to \notin Unmapped
  <2> DEFINE c == [Low EXCEPT !.at = "read", !.d = Kscan[Low.to], !.o = 1, !.resume = TRUE]
  <2>1. /\ Low.at = "select" /\ MayRun("low") /\ outs' = [outs EXCEPT ![Kscan[Low.to]] = {}]
        /\ thread' = [thread EXCEPT !["low"] = c]
    BY <1>4 DEF Resume, At, Low
  <2>2. /\ Low \in [at : LowStages, d : Devices, o : Nat, to : Layouts, resume : BOOLEAN]
        /\ Kscan[Low.to] \in Devices
    BY <1>1, <2>1, Calls, Sizes
  <2>3. c \in [at : LowStages, d : Devices, o : Nat, to : Layouts, resume : BOOLEAN]
    BY <2>2 DEF LowStages
  <2>4. c \in LowCall /\ c.at = "read" /\ c.d = Kscan[Low.to] /\ c.o = 1 /\ 1 \in AllOutputs(c.d)
    BY <2>2, <2>3, Sizes DEF LowCall
  <2> HIDE DEF c
  <2>5. Low' = c /\ Work' = Work
    BY <1>1, <2>1, <2>4, LowGoes
  <2>6. \A d \in Devices : outs'[d] \subseteq outs[d] /\ ~ReadBy("work", d)
    BY <1>1, <2>1, LowRuns DEF DevicesOK
  <2> QED
    BY <1>1, <2>1, <2>2, <2>4, <2>5, <2>6, GhostBegins
<1>5. CASE Enable
  <2> DEFINE c == [Low EXCEPT !.at = "read", !.o = 1, !.resume = FALSE]
  <2>1. Low.at = "config" /\ MayRun("low") /\ outs' = outs /\ thread' = [thread EXCEPT !["low"] = c]
    BY <1>5 DEF Enable, At, Low
  <2>2. /\ Low \in [at : LowStages, d : Devices, o : Nat, to : Layouts, resume : BOOLEAN]
        /\ Low.d \in Devices
    BY <1>1, <2>1, Calls
  <2>3. c \in [at : LowStages, d : Devices, o : Nat, to : Layouts, resume : BOOLEAN]
    BY <2>2 DEF LowStages
  <2>4. c \in LowCall /\ c.at = "read" /\ c.d = Low.d /\ c.o = 1 /\ 1 \in AllOutputs(c.d)
    BY <2>2, <2>3, Sizes DEF LowCall
  <2> HIDE DEF c
  <2>5. Low' = c /\ Work' = Work
    BY <1>1, <2>1, <2>4, LowGoes
  <2>6. \A d \in Devices : ~ReadBy("work", d)
    BY <1>1, <2>1, LowRuns
  <2> QED
    BY <1>1, <2>1, <2>2, <2>4, <2>5, <2>6, GhostBegins
<1> QED
  BY <1>2, <1>3, <1>4, <1>5 DEF Switch

LEMMA FaultsStay ==
  ASSUME faults \in Nat, [Next]_vars, faults' = 0
  PROVE  faults = 0
<1>1. ASSUME UNCHANGED faults \/ Fails PROVE faults = 0
  BY <1>1 DEF Fails
<1>2. ASSUME NEW d \in Devices, NEW c \in Cells(d), Bounce(d, c) PROVE UNCHANGED faults
  BY <1>2 DEF Bounce, Contact
<1>3. ASSUME NEW t, Read(t) PROVE UNCHANGED faults \/ Fails
  BY <1>3 DEF Read, ReadOutput, ReadFails, EndRead, ArmOutput, Works
<1>4. ASSUME NEW t, Pass(t) \/ \E c : Callback(t, c) PROVE UNCHANGED faults
  BY <1>4 DEF Callback, Reports, Pass, Passes
<1>5. ASSUME NEW d, Scan(d) \/ Irq(d) PROVE UNCHANGED faults \/ Fails
  BY <1>5 DEF Scan, StartScan, Irq, Interrupt, Works
<1>6. ASSUME ProcessMsgq \/ Switch \/ \E l \in Layouts : Select(l) PROVE UNCHANGED faults
  BY <1>6 DEF ProcessMsgq, Switch, Mask, Suspend, Resume, Enable, Select
<1>7. CASE WorkStep
  BY <1>1, <1>3, <1>4, <1>5, <1>6, <1>7 DEF WorkStep
<1>8. CASE LowStep
  BY <1>1, <1>3, <1>4, <1>6, <1>8 DEF LowStep
<1>9. CASE UNCHANGED vars
  BY <1>1, <1>9 DEF vars, scanVars
<1> QED
  BY <1>1, <1>2, <1>6, <1>7, <1>8, <1>9 DEF Next

LEMMA GhostStep ==
  ASSUME PressScans # 0, ScanInv, ScanInv', MatrixOK, MatrixOK', GhostInv, [Next]_vars
  PROVE  GhostInv'
<1> SUFFICES ASSUME faults' = 0 PROVE \A d \in Devices : GhostFree(d)'
  BY DEF GhostInv
<1>1. ThreadsOK /\ DevicesOK /\ faults = 0 /\ \A d \in Devices : GhostFree(d)
  BY FaultsStay DEF ScanInv, DevicesOK, GhostInv
<1>2. ASSUME UNCHANGED <<thread, loop>> PROVE SameReads
  BY <1>2, LoopStays DEF SameReads, ReadBy, ReadThen
<1>3. ASSUME UNCHANGED <<thread, loop, contact, touched, outs, deb>> PROVE \A d \in Devices : GhostFree(d)'
  BY <1>1, <1>2, <1>3, GhostSame
<1>4. ASSUME NEW d \in Devices, NEW c \in Cells(d), Bounce(d, c) PROVE \A e \in Devices : GhostFree(e)'
  <2>1. /\ contact' = [contact EXCEPT ![d] = IF c \in @ THEN @ \ {c} ELSE @ \cup {c}]
        /\ touched' = [touched EXCEPT ![d] = @ \cup {c}] /\ UNCHANGED <<thread, loop, outs, deb>>
    BY <1>4 DEF Bounce, Contact
  <2> SUFFICES ASSUME NEW e \in Devices PROVE GhostFree(e)'
    OBVIOUS
  <2>2. contact[e] \subseteq touched[e] /\ touched[e] \subseteq Cells(e) /\ touched'[e] \subseteq Cells(e)
    BY <1>1 DEF GhostFree, MatrixOK
  <2>3. contact'[e] \subseteq touched'[e] /\ touched[e] \subseteq touched'[e]
    BY <2>1, <2>2 DEF MatrixOK
  <2> QED
    BY <1>1, <1>2, <2>1, <2>2, <2>3, GhostFrame DEF SameReads
<1>5. ASSUME NEW t \in Threads, Pass(t) \/ \E c : Callback(t, c) PROVE \A e \in Devices : GhostFree(e)'
  <2>1. PICK c : Reports(t, c) \/ (Passes(t, c) /\ c \in loop[t].todo \cup loop[t].told)
    BY <1>5 DEF Pass, Callback
  <2>2. UNCHANGED <<contact, touched, thread, outs, deb>>
    BY <1>5 DEF Callback, Reports, Pass, Passes, layoutVars
  <2>3. \A u \in Threads \ {t} : loop'[u] = loop[u]
    BY <2>1, LoopGoes DEF MatrixOK
  <2>4. ASSUME NEW u \in Threads, NEW d \in Devices, ReadBy(u, d) PROVE LoopKept(u, d)
    BY <2>1, <2>3, <2>4, LoopStays, LoopKeeps
  <2>5. SameReads
    BY <2>2, <2>4 DEF SameReads, ReadBy, ReadThen
  <2> QED
    BY <1>1, <2>2, <2>5, GhostSame
<1>6. ASSUME NEW d \in Devices, Irq(d) PROVE \A e \in Devices : GhostFree(e)'
  <2>1. UNCHANGED <<deb, contact, touched, thread, loop>> /\ (outs' = [outs EXCEPT ![d] = {}] \/ Fails)
    BY <1>6 DEF Irq, Interrupt, InterruptDisable
  <2>2. ~Fails
    BY <1>1 DEF Fails
  <2>3. \A e \in Devices : outs'[e] \subseteq outs[e]
    BY <1>1, <2>1, <2>2 DEF DevicesOK
  <2> QED
    BY <1>1, <1>2, <2>1, <2>3, GhostSame
<1>7. ASSUME ProcessMsgq PROVE \A e \in Devices : GhostFree(e)'
  <2>1. /\ Work.at \in {"none", "raise"} /\ UNCHANGED <<outs, deb, contact, touched, loop>>
        /\ \E c \in {Idle, [at |-> "raise"]} : thread' = [thread EXCEPT !["work"] = c]
    BY <1>7 DEF ProcessMsgq, Work
  <2>2. Work'.at \in {"none", "raise"} /\ Low' = Low
    BY <1>1, <2>1, WorkStops
  <2>3. SameReads
    BY <2>1, <2>2, ThreadNames, LoopStays DEF SameReads, ReadBy, ReadThen, Work, Low
  <2> QED
    BY <1>1, <2>1, <2>3, GhostSame
<1>8. ASSUME NEW l \in Layouts, Select(l) PROVE \A e \in Devices : GhostFree(e)'
  <2> DEFINE c == [at |-> "mask", d |-> Kscan[active], o |-> 1, to |-> l, resume |-> FALSE]
  <2>1. /\ Low.at = "none" /\ thread' = [thread EXCEPT !["low"] = c]
        /\ UNCHANGED <<outs, deb, contact, touched, loop>>
    BY <1>8 DEF Select, At, Low
  <2>2. c.at = "mask"
    OBVIOUS
  <2> HIDE DEF c
  <2>3. Low' = c /\ Work' = Work
    BY <1>1, <2>1, ThreadNames DEF ThreadsOK, Low, Work
  <2>4. SameReads
    BY <2>1, <2>2, <2>3, LowElsewhere
  <2> QED
    BY <1>1, <2>1, <2>4, GhostSame
<1>9. ASSUME NEW t \in Threads, Read(t) PROVE \A e \in Devices : GhostFree(e)'
  BY <1>1, <1>9, GhostRead
<1>10. CASE WorkStep
  BY <1>1, <1>5, <1>6, <1>7, <1>9, <1>10, GhostScan, ThreadNames DEF WorkStep
<1>11. CASE LowStep
  BY <1>1, <1>5, <1>9, <1>11, GhostSwitch, ThreadNames DEF LowStep
<1>12. CASE UNCHANGED vars
  BY <1>3, <1>12 DEF vars, scanVars
<1> QED
  BY <1>4, <1>8, <1>10, <1>11, <1>12 DEF Next

LEMMA InitGhost == Init => MatrixOK /\ GhostInv
<1> SUFFICES ASSUME Init PROVE MatrixOK /\ GhostInv
  OBVIOUS
<1>1. /\ contact = [d \in Devices |-> {}] /\ touched = contact /\ outs = [d \in Devices |-> {}]
      /\ loop = [t \in Threads |-> NoLoop]
      /\ deb = [d \in Devices |-> [c \in Cells(d) |-> Released]]
  BY DEF Init
<1>2. Released \in Debouncers /\ Released.pressed = FALSE /\ Released.counter = 0
  BY KeyScanAssumption DEF Released, Debouncers
<1>4. \A t \in Threads : thread[t].at \notin {"read", "report", "arm"}
  BY ThreadNames DEF Init, Idle
<1>7. LoopOK
  <2>1. NoLoop \in Loops /\ NoLoop.todo = {} /\ NoLoop.told = {}
    BY DEF NoLoop, Loops
  <2> QED
    BY <1>1, <1>4, <2>1 DEF LoopOK, OneTold
<1>3. MatrixOK
  BY <1>1, <1>2, <1>7 DEF MatrixOK
<1>5. \A d \in Devices : \A c \in Cells(d) : Rests(d, c)
  BY <1>1, <1>2 DEF Rests
<1>6. GhostInv
  BY <1>1, <1>4, <1>5, ThreadNames DEF GhostInv, GhostFree, Orderly, Tells, ReadBy
<1> QED
  BY <1>3, <1>6

\* With a debounce time for presses that is not zero, a key counts as pressed only if its own switch
\* has conducted, though an interrupt in the middle of arming leaves outputs active in the next scan,
\* for a matrix of any size (kscan_gpio_matrix.c:153-176, 223-260, debounce.c:30-54).
THEOREM NoGhostKeys ==
  ASSUME PressScans # 0
  PROVE  Spec => []NoGhosts
<1>1. Init => ScanInv /\ MatrixOK /\ GhostInv
  BY InitScan, InitGhost
<1>2. ScanInv /\ MatrixOK /\ GhostInv /\ [Next]_vars => (ScanInv /\ MatrixOK /\ GhostInv)'
  <2> SUFFICES ASSUME ScanInv, MatrixOK, GhostInv, [Next]_vars PROVE (ScanInv /\ MatrixOK /\ GhostInv)'
    OBVIOUS
  <2>1. ScanInv'
    BY NextScan
  <2>2. MatrixOK'
    BY MatrixStep DEF ScanInv
  <2> QED
    BY <2>1, <2>2, GhostStep
<1>3. ScanInv /\ GhostInv => NoGhosts
  <2> SUFFICES ASSUME ScanInv, GhostInv, ~(faults > 0), NEW d \in Devices, NEW c \in Cells(d)
               PROVE  deb[d][c].pressed => c \in touched[d]
    BY DEF NoGhosts
  <2>1. faults = 0
    BY DEF ScanInv, DevicesOK
  <2> QED
    BY <2>1 DEF GhostInv, GhostFree, Tells, Rests, Faint
<1> QED
  BY <1>1, <1>2, <1>3, PTL DEF Spec
-----------------------------------------------------------------------------
(* What the keymap is told *)

\* What the callback has been told of a key, last
Told(s) == IF s.changed THEN ~s.pressed ELSE s.pressed
\* The events about a cell alternate; ups are the places after which the key is down
Trace(q, c, ups) ==
  \A i \in 1 .. Len(q) :
    /\ i \in ups <=> IF q[i].cell = c THEN i - 1 \notin ups ELSE i - 1 \in ups
    /\ q[i].cell = c => (q[i].pressed <=> i \in ups)
\* ... from what the keymap holds to what the callback has been told
Alternates(q, c, p, hs, s) ==
  \E ups \in SUBSET (0 .. Len(q)) :
    (0 \in ups <=> p \in hs) /\ (Len(q) \in ups <=> Told(s)) /\ Trace(q, c, ups)

Events == [d : Devices, cell : AllCells, pressed : BOOLEAN]

\* The least of a set of numbers
LEMMA Least ==
  ASSUME NEW T, T \subseteq Nat, T # {}
  PROVE  \E n \in T : \A k \in T : n <= k
<1>1. PICK n \in T : \A k \in T : ~(<<k, n>> \in OpToRel(<, Nat))
  BY WFMin, NatLessThanWellFounded
<1>2. \A k \in T : ~(k < n)
  BY <1>1 DEF OpToRel
<1> QED
  BY <1>2

\* An event about another key leaves the trace of a key as it was ...
LEMMA AppendOther ==
  ASSUME NEW q \in Seq(Events), NEW e \in Events, NEW c, NEW p, NEW hs, NEW s,
         e.cell # c, Alternates(q, c, p, hs, s)
  PROVE  Alternates(Append(q, e), c, p, hs, s)
<1> DEFINE n == Len(q)
<1>1. PICK ups \in SUBSET (0 .. n) :
        (0 \in ups <=> p \in hs) /\ (n \in ups <=> Told(s)) /\ Trace(q, c, ups)
  BY DEF Alternates
<1> DEFINE more == IF n \in ups THEN ups \cup {n + 1} ELSE ups
<1>2. n \in Nat /\ Len(Append(q, e)) = n + 1 /\ Append(q, e)[n + 1] = e
      /\ \A i \in 1 .. n : Append(q, e)[i] = q[i]
  OBVIOUS
<1>3. n + 1 \notin ups
  BY <1>2
<1>4. /\ more \in SUBSET (0 .. n + 1) /\ \A i \in 0 .. n : i \in more <=> i \in ups
      /\ n + 1 \in more <=> n \in ups
  <2>1. \A i \in 0 .. n : i # n + 1 /\ i \in 0 .. n + 1
    BY <1>2
  <2>2. n + 1 \in 0 .. n + 1
    BY <1>2
  <2> HIDE DEF n
  <2>3. CASE n \in ups
    BY <1>3, <2>1, <2>2, <2>3
  <2>4. CASE n \notin ups
    BY <1>3, <2>1, <2>2, <2>4
  <2> QED
    BY <2>3, <2>4
<1> HIDE DEF more
<1>5. Trace(Append(q, e), c, more)
  <2> SUFFICES ASSUME NEW i \in 1 .. n + 1
               PROVE  LET x == Append(q, e)[i] IN
                      /\ i \in more <=> IF x.cell = c THEN i - 1 \notin more ELSE i - 1 \in more
                      /\ x.cell = c => (x.pressed <=> i \in more)
    BY <1>2 DEF Trace
  <2>1. CASE i \in 1 .. n
    <3>1. i \in 0 .. n /\ i - 1 \in 0 .. n
      BY <1>2, <2>1
    <3>2. i \in more <=> i \in ups
      BY <1>4, <3>1
    <3>3. i - 1 \in more <=> i - 1 \in ups
      BY <1>4, <3>1
    <3> QED
      BY <1>1, <1>2, <2>1, <3>2, <3>3 DEF Trace
  <2>2. CASE i = n + 1
    <3>1. i - 1 = n /\ n \in 0 .. n
      BY <1>2, <2>2
    <3> QED
      BY <1>2, <1>4, <2>2, <3>1
  <2> QED
    BY <1>2, <2>1, <2>2
<1>6. 0 \in more <=> p \in hs
  BY <1>1, <1>2, <1>4
<1> QED
  BY <1>1, <1>2, <1>4, <1>5, <1>6 DEF Alternates

\* ... and one about the key itself continues it, if the callback was told the opposite before.
LEMMA AppendSame ==
  ASSUME NEW q \in Seq(Events), NEW e \in Events, NEW c, NEW p, NEW hs, NEW s, NEW r,
         e.cell = c, Alternates(q, c, p, hs, s), Told(s) <=> ~e.pressed, Told(r) <=> e.pressed
  PROVE  Alternates(Append(q, e), c, p, hs, r)
<1> DEFINE n == Len(q)
<1>1. PICK ups \in SUBSET (0 .. n) :
        (0 \in ups <=> p \in hs) /\ (n \in ups <=> Told(s)) /\ Trace(q, c, ups)
  BY DEF Alternates
<1> DEFINE more == IF e.pressed THEN ups \cup {n + 1} ELSE ups
<1>2. n \in Nat /\ Len(Append(q, e)) = n + 1 /\ Append(q, e)[n + 1] = e
      /\ \A i \in 1 .. n : Append(q, e)[i] = q[i]
  OBVIOUS
<1>3. n + 1 \notin ups
  BY <1>2
<1>4. /\ more \in SUBSET (0 .. n + 1) /\ \A i \in 0 .. n : i \in more <=> i \in ups
      /\ n + 1 \in more <=> e.pressed
  <2>1. \A i \in 0 .. n : i # n + 1 /\ i \in 0 .. n + 1
    BY <1>2
  <2>2. n + 1 \in 0 .. n + 1
    BY <1>2
  <2> HIDE DEF n
  <2>3. CASE e.pressed
    BY <1>3, <2>1, <2>2, <2>3
  <2>4. CASE ~e.pressed
    BY <1>3, <2>1, <2>2, <2>4
  <2> QED
    BY <2>3, <2>4
<1> HIDE DEF more
<1>5. Trace(Append(q, e), c, more)
  <2> SUFFICES ASSUME NEW i \in 1 .. n + 1
               PROVE  LET x == Append(q, e)[i] IN
                      /\ i \in more <=> IF x.cell = c THEN i - 1 \notin more ELSE i - 1 \in more
                      /\ x.cell = c => (x.pressed <=> i \in more)
    BY <1>2 DEF Trace
  <2>1. CASE i \in 1 .. n
    <3>1. i \in 0 .. n /\ i - 1 \in 0 .. n
      BY <1>2, <2>1
    <3>2. i \in more <=> i \in ups
      BY <1>4, <3>1
    <3>3. i - 1 \in more <=> i - 1 \in ups
      BY <1>4, <3>1
    <3> QED
      BY <1>1, <1>2, <2>1, <3>2, <3>3 DEF Trace
  <2>2. CASE i = n + 1
    <3>1. i - 1 = n /\ n \in 0 .. n
      BY <1>2, <2>2
    <3>2. n \in more <=> ~e.pressed
      BY <1>1, <1>4, <3>1
    <3> QED
      BY <1>2, <1>4, <2>2, <3>1, <3>2
  <2> QED
    BY <1>2, <2>1, <2>2
<1>6. 0 \in more <=> p \in hs
  BY <1>1, <1>2, <1>4
<1>7. n + 1 \in more <=> Told(r)
  BY <1>4
<1> QED
  BY <1>2, <1>4, <1>5, <1>6, <1>7 DEF Alternates

\* The first event about a key changes what the keymap holds of it
LEMMA HeadChanges ==
  ASSUME NEW q \in Seq(Events), q # <<>>, NEW c, NEW p, NEW hs, NEW s,
         Head(q).cell = c, Alternates(q, c, p, hs, s)
  PROVE  Head(q).pressed <=> p \notin hs
<1>1. PICK ups \in SUBSET (0 .. Len(q)) : (0 \in ups <=> p \in hs) /\ Trace(q, c, ups)
  BY DEF Alternates
<1>2. Len(q) \in Nat /\ 1 \in 1 .. Len(q) /\ 1 - 1 = 0 /\ Head(q) = q[1]
  OBVIOUS
<1>3. /\ 1 \in ups <=> IF q[1].cell = c THEN 1 - 1 \notin ups ELSE 1 - 1 \in ups
      /\ q[1].cell = c => (q[1].pressed <=> 1 \in ups)
  BY <1>1, <1>2 DEF Trace
<1> QED
  BY <1>1, <1>2, <1>3

\* Once the first event is told, the trace goes on behind it
LEMMA TailTold ==
  ASSUME NEW q \in Seq(Events), q # <<>>, NEW c, NEW p, NEW hs, NEW s, NEW gs,
         Alternates(q, c, p, hs, s),
         p \in gs <=> IF Head(q).cell = c THEN Head(q).pressed ELSE p \in hs
  PROVE  Alternates(Tail(q), c, p, gs, s)
<1> DEFINE n == Len(q)
<1>1. PICK ups \in SUBSET (0 .. n) :
        (0 \in ups <=> p \in hs) /\ (n \in ups <=> Told(s)) /\ Trace(q, c, ups)
  BY DEF Alternates
<1>2. /\ n \in Nat \ {0} /\ 1 \in 1 .. n /\ 1 - 1 = 0 /\ Head(q) = q[1]
      /\ Len(Tail(q)) = n - 1 /\ \A i \in 1 .. n - 1 : Tail(q)[i] = q[i + 1]
  OBVIOUS
<1> DEFINE rest == {i \in 0 .. n - 1 : i + 1 \in ups}
<1>3. \A i \in 0 .. n - 1 : i \in rest <=> i + 1 \in ups
  OBVIOUS
<1>4. rest \in SUBSET (0 .. n - 1)
  OBVIOUS
<1> HIDE DEF rest
<1>5. 1 \in ups <=> p \in gs
  <2>1. /\ 1 \in ups <=> IF q[1].cell = c THEN 1 - 1 \notin ups ELSE 1 - 1 \in ups
        /\ q[1].cell = c => (q[1].pressed <=> 1 \in ups)
    BY <1>1, <1>2 DEF Trace
  <2> QED
    BY <1>1, <1>2, <2>1
<1>6. Trace(Tail(q), c, rest)
  <2> SUFFICES ASSUME NEW i \in 1 .. n - 1
               PROVE  LET x == Tail(q)[i] IN
                      /\ i \in rest <=> IF x.cell = c THEN i - 1 \notin rest ELSE i - 1 \in rest
                      /\ x.cell = c => (x.pressed <=> i \in rest)
    BY <1>2 DEF Trace
  <2>1. i \in 0 .. n - 1 /\ i - 1 \in 0 .. n - 1 /\ i + 1 \in 1 .. n /\ (i - 1) + 1 = i /\ (i + 1) - 1 = i
    BY <1>2
  <2>2. (i \in rest <=> i + 1 \in ups) /\ (i - 1 \in rest <=> i \in ups)
    BY <1>3, <2>1
  <2>3. /\ i + 1 \in ups <=> IF q[i + 1].cell = c THEN i \notin ups ELSE i \in ups
        /\ q[i + 1].cell = c => (q[i + 1].pressed <=> i + 1 \in ups)
    BY <1>1, <2>1 DEF Trace
  <2> QED
    BY <1>2, <2>2, <2>3
<1>7. (0 \in rest <=> p \in gs) /\ (n - 1 \in rest <=> Told(s))
  <2>1. 0 \in 0 .. n - 1 /\ 0 + 1 = 1 /\ n - 1 \in 0 .. n - 1 /\ (n - 1) + 1 = n
    BY <1>2
  <2>2. (0 \in rest <=> 1 \in ups) /\ (n - 1 \in rest <=> n \in ups)
    BY <1>3, <2>1
  <2> QED
    BY <1>1, <1>5, <2>2
<1> QED
  BY <1>2, <1>4, <1>6, <1>7 DEF Alternates

\* Without an event about a key the callback was told what the keymap holds
LEMMA NoEvent ==
  ASSUME NEW q \in Seq(Events), NEW c, NEW p, NEW hs, NEW s,
         \A i \in 1 .. Len(q) : q[i].cell # c, Alternates(q, c, p, hs, s)
  PROVE  p \in hs <=> Told(s)
<1> DEFINE n == Len(q)
<1>1. PICK ups \in SUBSET (0 .. n) :
        (0 \in ups <=> p \in hs) /\ (n \in ups <=> Told(s)) /\ Trace(q, c, ups)
  BY DEF Alternates
<1>2. n \in Nat
  OBVIOUS
<1>3. \A i \in 1 .. n : i \in ups <=> i - 1 \in ups
  BY <1>1 DEF Trace
<1> HIDE DEF n
<1> DEFINE T == {i \in 0 .. n : ~(i \in ups <=> 0 \in ups)}
<1>4. T = {}
  <2> SUFFICES ASSUME T # {} PROVE FALSE
    OBVIOUS
  <2>1. T \subseteq Nat
    BY <1>2
  <2>2. PICK i \in T : \A k \in T : i <= k
    <3> HIDE DEF T
    <3> QED
      BY <2>1, Least
  <2>3. i \in 0 .. n /\ i # 0
    OBVIOUS
  <2>4. i \in 1 .. n /\ i - 1 \in 0 .. n /\ ~(i <= i - 1)
    BY <1>2, <2>3
  <2>5. i - 1 \notin T
    BY <2>2, <2>4
  <2> QED
    BY <1>3, <2>4, <2>5
<1>5. n \in 0 .. n
  BY <1>2
<1>6. n \notin T
  BY <1>4
<1>7. n \in ups <=> 0 \in ups
  BY <1>5, <1>6
<1> QED
  BY <1>1, <1>7

\* ... and the other way round
LEMMA Settled ==
  ASSUME NEW q \in Seq(Events), NEW c, NEW p, NEW hs, NEW s,
         \A i \in 1 .. Len(q) : q[i].cell # c, p \in hs <=> Told(s)
  PROVE  Alternates(q, c, p, hs, s)
<1> DEFINE n == Len(q)
<1>1. n \in Nat
  OBVIOUS
<1> DEFINE ups == IF p \in hs THEN 0 .. n ELSE {}
<1>2. ups \in SUBSET (0 .. n) /\ \A i \in 0 .. n : i \in ups <=> p \in hs
  OBVIOUS
<1> HIDE DEF ups
<1>3. Trace(q, c, ups)
  <2> SUFFICES ASSUME NEW i \in 1 .. n PROVE i \in ups <=> i - 1 \in ups
    BY DEF Trace
  <2>1. i \in 0 .. n /\ i - 1 \in 0 .. n
    BY <1>1
  <2> QED
    BY <1>2, <2>1
<1>4. 0 \in 0 .. n /\ n \in 0 .. n
  BY <1>1
<1> QED
  BY <1>2, <1>3, <1>4 DEF Alternates

\* What is known of a key: a change counts while a read is yet to report it
Seen(d, c) == [pressed |-> deb[d][c].pressed, changed |-> c \in ToReport(d)]
Follows(d, c, p) == Alternates(queue, c, p, held, Seen(d, c))
Overlaps(d) == ReadBy("work", d) /\ ReadBy("low", d)
\* Each key of the selected layout is excused, or its events lead from the keymap to the scan
KeymapInv ==
  /\ ~twice /\ held \cap strayed = {}
  /\ IF active = NoLayout THEN queue = <<>> /\ held = {}
     ELSE LET d == Kscan[active] IN
          /\ held \subseteq {Transform[active][c] : c \in Cells(d)}
          /\ \A c \in Cells(d) : LET p == Transform[active][c] IN
               p \in {0} \cup strayed \/ (Follows(d, c, p) /\ ~Overlaps(d))
KeyTypes ==
  /\ callback \in [Devices -> BOOLEAN] /\ queue \in Seq(Events) /\ Len(queue) <= QueueSize
  /\ msgWork \in BOOLEAN /\ selections \in 0 .. MaxMishaps /\ pending \in BOOLEAN
  /\ twice \in BOOLEAN /\ held \subseteq AllPositions /\ strayed \subseteq AllPositions

\* Only the device of the selected layout is read
LEMMA ReadsSelected ==
  ASSUME ScanInv, NEW t \in Threads, NEW d \in Devices, ReadBy(t, d)
  PROVE  active \in Layouts /\ d = Kscan[active]
<1>1. CASE t = "work"
  BY <1>1, WorkReadsSelected
<1>2. CASE t = "low"
  BY <1>2 DEF ScanInv, LowInv, ReadBy, Low, DevicesOK
<1> QED
  BY <1>1, <1>2, ThreadNames

\* A step that excuses keys, or none, keeps the invariant if the other keys still follow
LEMMA KeysKept ==
  ASSUME KeymapInv, NEW l \in Layouts, active = l, active' = l, NEW d, d = Kscan[l],
         ~twice', strayed \subseteq strayed', held' = held \ strayed',
         \A c \in Cells(d) : Transform[l][c] \notin {0} \cup strayed' /\ Follows(d, c, Transform[l][c])
             /\ ~Overlaps(d) => Follows(d, c, Transform[l][c])' /\ ~Overlaps(d)'
  PROVE  KeymapInv'
<1>1. l # NoLayout
  BY LayoutsAssumption
<1>2. /\ held \subseteq {Transform[l][c] : c \in Cells(d)}
      /\ \A c \in Cells(d) : Transform[l][c] \in {0} \cup strayed
           \/ (Follows(d, c, Transform[l][c]) /\ ~Overlaps(d))
  BY <1>1 DEF KeymapInv
<1>3. /\ held' \subseteq {Transform[l][c] : c \in Cells(d)} /\ held' \cap strayed' = {}
      /\ \A c \in Cells(d) : Transform[l][c] \in {0} \cup strayed'
           \/ (Follows(d, c, Transform[l][c])' /\ ~Overlaps(d)')
  BY <1>2
<1> QED
  BY <1>1, <1>3 DEF KeymapInv

\* The trace of a key depends only on what is known of the key
LEMMA SameTrace ==
  ASSUME NEW q, NEW c, NEW p, NEW hs, NEW gs, NEW r, NEW s,
         p \in gs <=> p \in hs, Told(s) <=> Told(r), Alternates(q, c, p, hs, r)
  PROVE  Alternates(q, c, p, gs, s)
BY DEF Alternates

LEMMA ToldSeen ==
  ASSUME NEW d, NEW c
  PROVE  Told(Seen(d, c)) <=> IF c \in ToReport(d) THEN ~deb[d][c].pressed ELSE deb[d][c].pressed
<1>1. Seen(d, c).pressed = deb[d][c].pressed /\ Seen(d, c).changed = (c \in ToReport(d))
  BY DEF Seen
<1> QED
  BY <1>1 DEF Told

LEMMA ToldThen ==
  ASSUME NEW d, NEW c
  PROVE  Told(Seen(d, c))' <=> IF c \in ToReport(d)' THEN ~deb'[d][c].pressed ELSE deb'[d][c].pressed
<1>1. Seen(d, c)'.pressed = deb'[d][c].pressed /\ Seen(d, c)'.changed = (c \in ToReport(d)')
  BY DEF Seen
<1> QED
  BY <1>1 DEF Told

\* A key goes on to be followed while its events and what the callback was told stay the same
LEMMA FollowsOn ==
  ASSUME NEW d, NEW c, NEW p, Follows(d, c, p), UNCHANGED queue, p \in held' <=> p \in held,
         Told(Seen(d, c))' <=> Told(Seen(d, c))
  PROVE  Follows(d, c, p)'
<1>1. PICK r : r = Seen(d, c)'
  OBVIOUS
<1>2. Told(r) <=> Told(Seen(d, c))
  BY <1>1
<1>3. Alternates(queue, c, p, held', r)
  BY <1>2, SameTrace DEF Follows
<1>4. Alternates(queue', c, p, held', Seen(d, c)')
  BY <1>1, <1>3
<1> QED
  BY <1>4 DEF Follows

\* Nothing is to be reported by threads that have yet to sample the cell, or are behind it
LEMMA NotDue ==
  ASSUME NEW d, NEW c,
         \A t \in Threads : /\ thread[t].at = "read" /\ thread[t].d = d => ~(c[1] < thread[t].o)
                            /\ thread[t].at = "report" /\ thread[t].d = d => c \notin loop[t].todo
  PROVE  c \notin ToReport(d)
BY DEF ToReport

LEMMA NotDueThen ==
  ASSUME NEW d, NEW c,
         \A t \in Threads : /\ thread'[t].at = "read" /\ thread'[t].d = d => ~(c[1] < thread'[t].o)
                            /\ thread'[t].at = "report" /\ thread'[t].d = d => c \notin loop'[t].todo
  PROVE  c \notin ToReport(d)'
BY DEF ToReport

\* A step that changes neither keys nor events, nor what is to be reported
LEMMA KeysSame ==
  ASSUME KeymapInv, DevicesOK, UNCHANGED <<active, queue, held, strayed, twice, deb>>,
         \A d \in Devices : /\ \A c \in Cells(d) : c \in ToReport(d)' <=> c \in ToReport(d)
                            /\ Overlaps(d)' => Overlaps(d)
  PROVE  KeymapInv'
<1>1. CASE active = NoLayout
  BY <1>1 DEF KeymapInv
<1>2. CASE active # NoLayout
  <2>1. PICK l \in Layouts : active = l
    BY <1>2 DEF DevicesOK
  <2>2. PICK d \in Devices : d = Kscan[l]
    BY Sizes
  <2>3. held' = held \ strayed' /\ ~twice'
    BY DEF KeymapInv
  <2>4. ASSUME NEW c \in Cells(d), Follows(d, c, Transform[l][c]), ~Overlaps(d)
        PROVE  Follows(d, c, Transform[l][c])' /\ ~Overlaps(d)'
    <3>1. Told(Seen(d, c))' <=> Told(Seen(d, c))
      BY ToldSeen, ToldThen
    <3>2. PICK p : p = Transform[l][c]
      OBVIOUS
    <3>3. Follows(d, c, p)'
      BY <2>4, <3>1, <3>2, FollowsOn
    <3> QED
      BY <2>4, <3>2, <3>3
  <2> QED
    BY <2>1, <2>2, <2>3, <2>4, KeysKept
<1> QED
  BY <1>1, <1>2

LEMMA SameReports ==
  ASSUME UNCHANGED <<thread, loop, deb>>
  PROVE  \A d : ToReport(d)' = ToReport(d) /\ (Overlaps(d)' <=> Overlaps(d))
BY DEF ToReport, Overlaps, ReadBy

LEMMA KeysScan ==
  ASSUME ScanInv, KeymapInv, NEW d \in Devices, Scan(d)
  PROVE  KeymapInv'
<1>1. /\ Work.at = "none" /\ work[d] # "none" /\ Goto("work", "read", d, 1)
      /\ UNCHANGED <<deb, active, queue, twice>> /\ held' = held \ strayed'
      /\ IF Reading(d) THEN strayed' = strayed \cup Selected(d, Cells(d)) ELSE UNCHANGED strayed
  BY DEF Scan, StartScan, Work
<1>2. active \in Layouts /\ d = Kscan[active] /\ ThreadsOK /\ 1 \in AllOutputs(d)
  BY <1>1, WorkReadsSelected, Sizes DEF ScanInv
<1>3. PICK l \in Layouts : active = l
  BY <1>2
<1>4. /\ thread'["low"] = thread["low"] /\ ~ReadBy("work", d)
      /\ thread'["work"].at = "read" /\ thread'["work"].o = 1
  <2>1. Work' = [at |-> "read", d |-> d, o |-> 1] /\ Low' = Low
    BY <1>1, <1>2, WorkGoes
  <2> QED
    BY <1>1, <2>1 DEF Low, Work, ReadBy
<1>5. ASSUME NEW c \in Cells(d), Transform[l][c] \notin {0} \cup strayed',
             Follows(d, c, Transform[l][c]), ~Overlaps(d)
      PROVE  Follows(d, c, Transform[l][c])' /\ ~Overlaps(d)'
  <2>1. ~Reading(d)
    <3> SUFFICES ASSUME Reading(d) PROVE FALSE
      OBVIOUS
    <3>1. Selected(d, Cells(d)) = {Transform[l][x] : x \in Cells(d)} \ {0}
      BY <1>2, <1>3, LayoutsAssumption DEF Selected
    <3> QED
      BY <1>1, <1>5, <3>1
  <2>2. \A t \in Threads : ~ReadBy(t, d)
    BY <2>1 DEF Reading, ReadBy
  <2>3. c \notin ToReport(d)
    BY <2>2, NotDue DEF ReadBy
  <2>4. c \notin ToReport(d)'
    <3>1. thread'["work"].at = "read" /\ thread'["work"].o = 1 /\ ~ReadBy("low", d) /\ c[1] \in Nat \ {0}
      BY <1>2, <1>4, <2>2, ThreadNames, Sizes DEF Cells
    <3>2. ~(c[1] < thread'["work"].o)
      BY <3>1
    <3> QED
      BY <1>4, <3>1, <3>2, ThreadNames, NotDueThen DEF ReadBy
  <2>5. strayed' = strayed /\ held' = held
    BY <1>1, <2>1 DEF KeymapInv
  <2>6. Told(Seen(d, c))' <=> Told(Seen(d, c))
    BY <1>1, <2>3, <2>4, ToldSeen, ToldThen
  <2>7. Follows(d, c, Transform[l][c])'
    <3>1. PICK p : p = Transform[l][c]
      OBVIOUS
    <3> QED
      BY <1>1, <1>5, <2>5, <2>6, <3>1, FollowsOn
  <2>8. ~ReadBy("low", d)'
    BY <1>4, <2>2, ThreadNames DEF ReadBy
  <2> QED
    BY <2>7, <2>8 DEF Overlaps
<1>6. strayed \subseteq strayed' /\ ~twice'
  BY <1>1 DEF KeymapInv
<1> QED
  BY <1>1, <1>2, <1>3, <1>5, <1>6, KeysKept

\* An update of the debouncer changes the key and marks it, or does neither
LEMMA MarksUpdate ==
  ASSUME NEW s \in Debouncers, NEW level \in BOOLEAN, NEW u, u = DebounceUpdate(s, level)
  PROVE  s.pressed <=> IF u.changed THEN ~u.pressed ELSE u.pressed
<1>1. s.pressed \in BOOLEAN /\ s.counter \in Nat
  BY KeyScanAssumption DEF Debouncers
<1>2. CASE level = s.pressed
  <2>1. u = [s EXCEPT !.changed = FALSE, !.counter = IF @ = 0 THEN 0 ELSE @ - 1]
    BY <1>2 DEF DebounceUpdate
  <2> QED
    BY <2>1 DEF Debouncers
<1>3. CASE level # s.pressed /\ s.counter < Threshold(s)
  <2>1. u = [s EXCEPT !.changed = FALSE, !.counter = @ + 1]
    BY <1>3 DEF DebounceUpdate
  <2> QED
    BY <2>1 DEF Debouncers
<1>4. CASE level # s.pressed /\ ~(s.counter < Threshold(s))
  <2>1. PICK up \in BOOLEAN : up = ~s.pressed
    OBVIOUS
  <2>2. u = [pressed |-> up, changed |-> TRUE, counter |-> 0]
    BY <1>4, <2>1 DEF DebounceUpdate
  <2>3. u.pressed = up /\ u.changed = TRUE
    BY <2>2
  <2>4. ~up <=> s.pressed
    BY <1>1, <2>1
  <2> QED
    BY <2>3, <2>4
<1> QED
  BY <1>2, <1>3, <1>4

LEMMA MarksSampled ==
  ASSUME MatrixOK, NEW d \in Devices, NEW o, NEW c \in Cells(d), NEW u, u = Sampled(d, o)[c]
  PROVE  /\ c[1] = o => (deb[d][c].pressed <=> IF u.changed THEN ~u.pressed ELSE u.pressed)
         /\ c[1] # o => u = deb[d][c]
<1>1. deb[d][c] \in Debouncers
  BY DEF MatrixOK
<1>2. PICK level \in BOOLEAN : level = Level(d, outs[d] \cup {o}, c[2])
  BY DEF Level
<1>3. u = IF c[1] = o THEN DebounceUpdate(deb[d][c], level) ELSE deb[d][c]
  BY <1>2 DEF Sampled
<1> QED
  BY <1>1, <1>3, MarksUpdate

\* What a step of a read leaves of the reads
LEMMA ReadGoesOn ==
  ASSUME ScanInv, NEW t \in Threads, Read(t), NEW d \in Devices, d = thread[t].d
  PROVE  /\ \A u \in Threads \ {t} : thread'[u] = thread[u]
         /\ \A e : ReadThen(t, e) => ReadBy(t, e)
<1>1. ThreadsOK /\ DevicesOK /\ ReadBy(t, d) /\ thread[t].o \in AllOutputs(d)
  BY ReadsDevice DEF ScanInv, ThreadsOK
<1>2. \/ Return(t)
      \/ \E at \in {"read", "report", "arm"}, o \in AllOutputs(d) : Goto(t, at, d, o)
  <2>1. thread[t].o \in Nat /\ 1 <= thread[t].o /\ Outputs[d] \in Nat \ {0} /\ AllOutputs(d) = 1 .. Outputs[d]
    BY <1>1, Sizes
  <2>2. Samples(t, d) \/ Breaks(t) \/ Rescans(t, d) \/ StartsArming(t, d) \/ Arms(t, d)
    BY <1>1, ReadDoes
  <2>3. 1 \in AllOutputs(d) /\ (thread[t].o < Outputs[d] => thread[t].o + 1 \in AllOutputs(d))
    BY <2>1
  <2> QED
    BY <2>2, <2>3 DEF Samples, Breaks, Rescans, StartsArming, Arms
<1>3. CASE Return(t)
  BY <1>1, <1>3, ReadReturns
<1>4. ASSUME NEW at \in {"read", "report", "arm"}, NEW o \in AllOutputs(d), Goto(t, at, d, o)
      PROVE  /\ \A u \in Threads \ {t} : thread'[u] = thread[u]
             /\ \A e : ReadThen(t, e) => ReadBy(t, e)
  <2>1. thread'[t].d = d /\ \A u \in Threads \ {t} : thread'[u] = thread[u]
    BY <1>1, <1>4, ReadGoes
  <2> QED
    BY <1>1, <2>1 DEF ReadThen, ReadBy
<1> QED
  BY <1>2, <1>3, <1>4

\* The sample of a key shows a change that the read will still report
LEMMA KeysSample ==
  ASSUME ScanInv, MatrixOK, NEW t \in Threads, NEW d \in Devices, d = thread[t].d, ReadBy(t, d), ReadOutput(t),
         held' = held, UNCHANGED queue, \A u \in Threads \ {t} : thread'[u] = thread[u],
         NEW c \in Cells(d), NEW p, Follows(d, c, p), ~Overlaps(d)
  PROVE  Follows(d, c, p)' /\ ~Overlaps(d)'
<1> DEFINE o == thread[t].o
<1>1. ThreadsOK /\ o \in AllOutputs(d) /\ o \in Nat /\ Outputs[d] \in Nat /\ AllOutputs(d) = 1 .. Outputs[d]
  BY Sizes DEF ScanInv, ThreadsOK, ReadBy
<1>2. /\ thread[t].at = "read" /\ deb' = [deb EXCEPT ![d] = Sampled(d, o)]
      /\ IF o < Outputs[d] THEN Goto(t, "read", d, o + 1) ELSE Goto(t, "report", d, 1)
  BY DEF ReadOutput
<1>3. deb'[d] = Sampled(d, o)
  BY <1>2 DEF MatrixOK
<1>4. \A u \in Threads \ {t} : ~ReadBy(u, d) /\ ~ReadBy(u, d)'
  BY ThreadNames DEF Overlaps, ReadBy
<1>5. /\ thread'[t].d = d
      /\ \/ thread'[t].at = "read" /\ thread'[t].o = o + 1
         \/ thread'[t].at = "report" /\ loop'[t].todo = Cells(d) /\ ~(o < Outputs[d])
  <2>1. CASE o < Outputs[d]
    <3>1. o + 1 \in AllOutputs(d)
      BY <1>1, <2>1
    <3>2. Goto(t, "read", d, o + 1)
      BY <1>2, <2>1
    <3> QED
      BY <1>1, <3>1, <3>2, ReadGoes
  <2>2. CASE ~(o < Outputs[d])
    <3>1. 1 \in AllOutputs(d)
      BY <1>1
    <3>2. Goto(t, "report", d, 1)
      BY <1>2, <2>2
    <3>3. thread'[t].at = "report" /\ thread'[t].d = d
      BY <1>1, <3>1, <3>2, ReadGoes
    <3>4. loop'[t].todo = Cells(d)
      BY <2>2 DEF ReadOutput, MatrixOK, LoopOK, NoLoop
    <3> QED
      BY <2>2, <3>3, <3>4
  <2> QED
    BY <2>1, <2>2
<1>6. c[1] \in Nat /\ c[1] <= Outputs[d]
  BY <1>1 DEF Cells
<1>7. c \in ToReport(d) <=> deb[d][c].changed /\ c[1] < o
  BY <1>2, <1>4 DEF ToReport, ReadBy
<1>8. c \in ToReport(d)' <=> deb'[d][c].changed /\ c[1] <= o
  <2>1. c \in ToReport(d)' <=> deb'[d][c].changed /\ \E u \in Threads :
          \/ thread'[u].at = "read" /\ thread'[u].d = d /\ c[1] < thread'[u].o
          \/ thread'[u].at = "report" /\ thread'[u].d = d /\ c \in loop'[u].todo
    BY DEF ToReport
  <2>2. c[1] < o + 1 <=> c[1] <= o
    BY <1>1, <1>6
  <2>3. ~(o < Outputs[d]) => c[1] <= o
    BY <1>1, <1>6
  <2> QED
    BY <1>4, <1>5, <2>1, <2>2, <2>3 DEF ReadBy
<1>9. PICK u : u = Sampled(d, o)[c]
  OBVIOUS
<1>10. /\ deb'[d][c] = u
       /\ c[1] = o => (deb[d][c].pressed <=> IF u.changed THEN ~u.pressed ELSE u.pressed)
       /\ c[1] # o => u = deb[d][c]
  BY <1>3, <1>9, MarksSampled
<1>11. Told(Seen(d, c))' <=> Told(Seen(d, c))
  <2>1. CASE c[1] < o
    <3>1. c[1] # o /\ c[1] <= o
      BY <1>1, <1>6, <2>1
    <3> QED
      BY <1>7, <1>8, <1>10, <2>1, <3>1, ToldSeen, ToldThen
  <2>2. CASE c[1] = o
    <3>1. ~(c[1] < o) /\ c[1] <= o
      BY <1>1, <1>6, <2>2
    <3> QED
      BY <1>7, <1>8, <1>10, <2>2, <3>1, ToldSeen, ToldThen
  <2>3. CASE ~(c[1] <= o)
    <3>1. c[1] # o /\ ~(c[1] < o)
      BY <1>1, <1>6, <2>3
    <3> QED
      BY <1>7, <1>8, <1>10, <2>3, <3>1, ToldSeen, ToldThen
  <2> QED
    BY <1>1, <1>6, <2>1, <2>2, <2>3
<1>12. Follows(d, c, p)'
  BY <1>11, FollowsOn
<1> QED
  BY <1>4, <1>12, ThreadNames DEF Overlaps

LEMMA KeysRead ==
  ASSUME ScanInv, MatrixOK, KeymapInv, NEW t \in Threads, Read(t)
  PROVE  KeymapInv'
<1>1. PICK d \in Devices : d = thread[t].d
  BY ReadsDevice DEF ScanInv
<1>2. /\ ReadBy(t, d) /\ held' = held \ strayed'
      /\ UNCHANGED <<active, queue, twice>>
      /\ strayed \subseteq strayed' /\ ~twice'
  BY <1>1, ReadsDevice DEF ScanInv, Read, KeymapInv
<1>3. active \in Layouts /\ d = Kscan[active]
  BY <1>2, ReadsSelected
<1>4. PICK l \in Layouts : active = l
  BY <1>3
<1>5. /\ \A u \in Threads \ {t} : thread'[u] = thread[u]
      /\ \A e : ReadThen(t, e) => ReadBy(t, e)
  BY <1>1, ReadGoesOn
<1>6. ~Overlaps(d) => ~Overlaps(d)'
  BY <1>5, ThreadNames DEF Overlaps, ReadBy, ReadThen
<1> SUFFICES ASSUME NEW c \in Cells(d), Transform[l][c] \notin {0} \cup strayed',
                    Follows(d, c, Transform[l][c]), ~Overlaps(d)
             PROVE  Follows(d, c, Transform[l][c])' /\ ~Overlaps(d)'
  BY <1>2, <1>3, <1>4, KeysKept
<1>7. PICK p : p = Transform[l][c]
  OBVIOUS
<1>8. p \in held' <=> p \in held
  BY <1>2, <1>7
<1>14. \A u \in Threads \ {t} : ~ReadBy(u, d) /\ thread'[u] = thread[u]
  BY <1>2, <1>5, ThreadNames DEF Overlaps
\* Nothing of the key is to be reported, and it does not change
<1>9. ASSUME c \notin ToReport(d), c \notin ToReport(d)', deb'[d][c].pressed <=> deb[d][c].pressed
      PROVE  Follows(d, c, p)' /\ ~Overlaps(d)'
  <2>1. Told(Seen(d, c))' <=> Told(Seen(d, c))
    BY <1>9, ToldSeen, ToldThen
  <2>2. Follows(d, c, p)'
    BY <1>2, <1>7, <1>8, <2>1, FollowsOn
  <2> QED
    BY <1>6, <2>2
\* The read is at its end, or fails
<1>15. ASSUME thread'[t].at \notin {"read", "report"} PROVE c \notin ToReport(d)'
  BY <1>14, <1>15, NotDueThen DEF ReadBy
<1>16. ASSUME Return(t) \/ \E o \in AllOutputs(d) : Goto(t, "arm", d, o) PROVE thread'[t].at \notin {"read", "report"}
  <2>1. CASE Return(t)
    <3>1. \A e : ~ReadThen(t, e)
      BY <1>2, <2>1, ReadReturns DEF ScanInv
    <3>2. ~ReadThen(t, thread'[t].d)
      BY <3>1
    <3> QED
      BY <3>2 DEF ReadThen
  <2>2. CASE \E o \in AllOutputs(d) : Goto(t, "arm", d, o)
    BY <1>2, <2>2, ReadGoes DEF ScanInv
  <2> QED
    BY <1>16, <2>1, <2>2
<1>17. thread[t].o \in AllOutputs(d) /\ 1 \in AllOutputs(d) /\ (thread[t].o < Outputs[d] => thread[t].o + 1 \in AllOutputs(d))
  BY <1>1, <1>2, Sizes DEF ScanInv, ThreadsOK
<1>10. CASE ReadOutput(t) /\ UNCHANGED strayed
  <2>1. held' = held
    BY <1>2, <1>10 DEF KeymapInv
  <2> QED
    BY <1>1, <1>2, <1>5, <1>10, <2>1, KeysSample
<1>11. CASE EndRead(t)
  <2>1. thread[t].at = "report" /\ loop[t].todo = {} /\ deb' = deb /\ (Return(t) \/ Goto(t, "arm", d, 1))
    BY <1>1, <1>11 DEF EndRead
  <2>2. c \notin ToReport(d)
    BY <1>14, <2>1, NotDue DEF ReadBy
  <2>3. c \notin ToReport(d)'
    BY <1>15, <1>16, <1>17, <2>1
  <2> QED
    BY <1>7, <1>9, <2>1, <2>2, <2>3
<1>12. CASE ArmOutput(t)
  <2>1. /\ thread[t].at = "arm" /\ deb' = deb
        /\ Return(t) \/ (thread[t].o < Outputs[d] /\ Goto(t, "arm", d, thread[t].o + 1))
    BY <1>1, <1>12 DEF ArmOutput
  <2>2. c \notin ToReport(d)
    BY <1>14, <2>1, NotDue DEF ReadBy
  <2>3. c \notin ToReport(d)'
    BY <1>15, <1>16, <1>17, <2>1
  <2> QED
    BY <1>7, <1>9, <2>1, <2>2, <2>3
<1>13. CASE ReadFails(t) /\ strayed' = strayed \cup Unreported(d)
  <2>1. PICK lost : lost = ToReport(d) \cup {x \in Cells(d) : deb'[d][x].changed /\ deb'[d][x] # deb[d][x]}
    OBVIOUS
  <2>2. c \notin lost
    <3>1. Unreported(d) = {Transform[l][x] : x \in lost} \ {0}
      BY <1>3, <1>4, <2>1, LayoutsAssumption DEF Unreported, Selected
    <3> QED
      BY <1>13, <3>1
  <2>3. deb' = deb \/ deb' = [deb EXCEPT ![d] = Sampled(d, thread[t].o)]
    BY <1>1, <1>13 DEF ReadFails
  <2>4. PICK u : u = Sampled(d, thread[t].o)[c]
    OBVIOUS
  <2>5. /\ thread[t].o = c[1] => (deb[d][c].pressed <=> IF u.changed THEN ~u.pressed ELSE u.pressed)
        /\ thread[t].o # c[1] => u = deb[d][c]
    BY <2>4, MarksSampled
  <2>6. deb'[d][c] = deb[d][c] \/ deb'[d][c] = u
    BY <2>3, <2>4 DEF MatrixOK
  <2>7. deb'[d][c].pressed <=> deb[d][c].pressed
    BY <2>1, <2>2, <2>5, <2>6
  <2>8. c \notin ToReport(d)'
    BY <1>13, <1>15, <1>16 DEF ReadFails
  <2> QED
    BY <1>7, <1>9, <2>1, <2>2, <2>7, <2>8
<1> QED
  BY <1>1, <1>10, <1>11, <1>12, <1>13 DEF Read

\* The cell that is reported is one of the device, and was to be reported
LEMMA ReportedCell ==
  ASSUME ThreadsOK, LoopOK, NEW t \in Threads, NEW x, Reports(t, x)
  PROVE  /\ thread[t].d \in Devices /\ x \in ToReport(thread[t].d) /\ x \in Cells(thread[t].d)
         /\ x \in AllCells
<1>1. thread[t].at = "report" /\ x \in loop[t].todo /\ deb[thread[t].d][x].changed
  BY DEF Reports, Comes
<1>2. PICK d \in Devices : d = thread[t].d
  BY <1>1, Calls, ThreadNames DEF Work, Low
<1>3. x \in Cells(d)
  BY <1>1, <1>2 DEF LoopOK
<1> QED
  BY <1>1, <1>2, <1>3 DEF ToReport, AllCells

\* What is to be reported after the loop has handed a cell to the callback, or passed it
LEMMA LoopLeaves ==
  ASSUME ThreadsOK, LoopOK, NEW t \in Threads, NEW d \in Devices, d = thread[t].d, ~Overlaps(d), NEW x,
         Reports(t, x) \/ (Passes(t, x) /\ x \in loop[t].todo \cup loop[t].told)
  PROVE  /\ UNCHANGED <<thread, deb>>
         /\ \A c : c \in ToReport(d)' <=> c \in ToReport(d) /\ c # x
<1>1. thread[t].at = "report" /\ UNCHANGED <<thread, deb>>
  BY DEF Reports, Passes, Comes
<1>2. \A u \in Threads \ {t} : ~ReadBy(u, d)
  BY <1>1, ThreadNames DEF Overlaps, ReadBy
<1>3. loop'[t].todo = loop[t].todo \ {x}
  BY LoopGoes
<1>4. \A c : c \in ToReport(d) <=> c \in Cells(d) /\ deb[d][c].changed /\ c \in loop[t].todo
  BY <1>1, <1>2 DEF ToReport, ReadBy
<1>5. \A c : c \in ToReport(d)' <=> c \in Cells(d) /\ deb[d][c].changed /\ c \in loop'[t].todo
  BY <1>1, <1>2 DEF ToReport, ReadBy
<1> QED
  BY <1>1, <1>3, <1>4, <1>5

\* The cell that the loop passes has been reported, or need not be
LEMMA KeysPass ==
  ASSUME ScanInv, MatrixOK, KeymapInv, NEW t \in Threads, Pass(t)
  PROVE  KeymapInv'
<1>1. PICK x : x \in loop[t].todo \cup loop[t].told /\ Passes(t, x)
  BY DEF Pass
<1>2. /\ UNCHANGED <<active, queue, held, strayed, twice, deb, thread>> /\ thread[t].at = "report"
      /\ x \in loop[t].told \/ ~deb[thread[t].d][x].changed
  BY <1>1 DEF Pass, Passes, Comes, layoutVars
<1>3. PICK d \in Devices : d = thread[t].d
  BY <1>2, Calls, ThreadNames DEF ScanInv, Work, Low
<1>4. ThreadsOK /\ LoopOK /\ DevicesOK
  BY DEF ScanInv, MatrixOK
<1>5. active \in Layouts /\ d = Kscan[active]
  BY <1>2, <1>3, ReadsSelected DEF ReadBy
<1>6. PICK l \in Layouts : active = l
  BY <1>5
<1>7. ASSUME NEW c \in Cells(d), Follows(d, c, Transform[l][c]), ~Overlaps(d)
      PROVE  Follows(d, c, Transform[l][c])' /\ ~Overlaps(d)'
  <2>1. \A e : e \in ToReport(d)' <=> e \in ToReport(d) /\ e # x
    BY <1>1, <1>3, <1>4, <1>7, LoopLeaves
  <2>2. x \notin ToReport(d)
    <3>1. \A u \in Threads \ {t} : ~ReadBy(u, d)
      BY <1>2, <1>3, <1>7, ThreadNames DEF Overlaps, ReadBy
    <3>2. x \notin loop[t].todo \/ ~deb[d][x].changed
      BY <1>2, <1>3, <1>4 DEF LoopOK, OneTold
    <3> QED
      BY <1>2, <3>1, <3>2 DEF ToReport, ReadBy
  <2>3. Told(Seen(d, c))' <=> Told(Seen(d, c))
    BY <1>2, <2>1, <2>2, ToldSeen, ToldThen
  <2>4. PICK p : p = Transform[l][c]
    OBVIOUS
  <2>5. Follows(d, c, p)'
    BY <1>2, <1>7, <2>3, <2>4, FollowsOn
  <2> QED
    BY <1>2, <1>7, <2>4, <2>5 DEF Overlaps, ReadBy
<1>8. held' = held \ strayed' /\ ~twice'
  BY <1>2 DEF KeymapInv
<1> QED
  BY <1>2, <1>5, <1>6, <1>7, <1>8, KeysKept

LEMMA KeysCallback ==
  ASSUME ScanInv, MatrixOK, KeyTypes, KeymapInv, NEW t \in Threads, NEW x, Callback(t, x)
  PROVE  KeymapInv'
<1>1. /\ thread[t].at = "report" /\ Reports(t, x) /\ ThreadsOK /\ LoopOK
      /\ UNCHANGED <<active, twice, thread>> /\ held' = held \ strayed'
  BY DEF Callback, Reports, Comes, ScanInv, MatrixOK
<1>2. PICK d \in Devices : d = thread[t].d
  BY <1>1, Calls, ThreadNames DEF ScanInv, Work, Low
<1>3. ReadBy(t, d) /\ active \in Layouts /\ d = Kscan[active]
  <2>1. ReadBy(t, d)
    BY <1>1, <1>2 DEF ReadBy
  <2> QED
    BY <2>1, ReadsSelected
<1>4. PICK l \in Layouts : active = l
  BY <1>3
<1>5. x \in ToReport(d) /\ x \in Cells(d) /\ x \in AllCells
  BY <1>1, <1>2, ReportedCell
<1>6. PICK up \in BOOLEAN : up = deb[d][x].pressed
  BY <1>2, <1>5 DEF MatrixOK, Debouncers
<1>7. PICK e \in Events : e = [d |-> d, cell |-> x, pressed |-> up]
  BY <1>5 DEF Events
<1>8. \/ queue' = Append(queue, e) /\ strayed' = strayed
      \/ strayed' = strayed \cup Selected(d, {x}) /\ queue' = queue
  BY <1>2, <1>3, <1>6, <1>7, LayoutsAssumption DEF Callback
<1>9. strayed \subseteq strayed' /\ ~twice'
  BY <1>1, <1>8 DEF KeymapInv
<1> SUFFICES ASSUME NEW c \in Cells(d), Transform[l][c] \notin {0} \cup strayed',
                    Follows(d, c, Transform[l][c]), ~Overlaps(d)
             PROVE  Follows(d, c, Transform[l][c])' /\ ~Overlaps(d)'
  BY <1>1, <1>3, <1>4, <1>9, KeysKept
<1>10. deb' = deb /\ \A k : k \in ToReport(d)' <=> k \in ToReport(d) /\ k # x
  <2>1. t \in Threads /\ d \in Devices /\ ThreadsOK /\ LoopOK /\ d = thread[t].d /\ ~Overlaps(d) /\ Reports(t, x)
    BY <1>1, <1>2
  <2>2. Reports(t, x) \/ (Passes(t, x) /\ x \in loop[t].todo \cup loop[t].told)
    BY <2>1
  <2>3. /\ UNCHANGED <<thread, deb>>
        /\ \A k : k \in ToReport(d)' <=> k \in ToReport(d) /\ k # x
    BY ONLY <2>1, <2>2, LoopLeaves
  <2> QED
    BY <2>3
<1>11. PICK p : p = Transform[l][c]
  OBVIOUS
<1>12. PICK r : r = Seen(d, c)
  OBVIOUS
<1>13. PICK r1 : r1 = Seen(d, c)'
  OBVIOUS
<1>14. Alternates(queue, c, p, held, r) /\ queue \in Seq(Events)
  BY <1>11, <1>12 DEF Follows, KeyTypes
<1>15. p \in held' <=> p \in held
  BY <1>1, <1>11
<1>16. ~Overlaps(d)'
  BY <1>1 DEF Overlaps, ReadBy
<1>17. ASSUME Alternates(queue', c, p, held, r1) PROVE Follows(d, c, p)'
  <2>1. Alternates(queue', c, p, held', r1)
    BY <1>15, <1>17, SameTrace
  <2>2. Alternates(queue', c, p, held', Seen(d, c)')
    BY <1>13, <2>1
  <2> QED
    BY <2>2 DEF Follows
<1>18. CASE c = x
  <2>1. Selected(d, {x}) = {p} \ {0}
    BY <1>3, <1>4, <1>11, <1>18, LayoutsAssumption DEF Selected
  <2>2. queue' = Append(queue, e)
    BY <1>8, <1>11, <2>1
  <2>3. (Told(r) <=> ~e.pressed) /\ (Told(r1) <=> e.pressed) /\ e.cell = c
    BY <1>5, <1>6, <1>7, <1>10, <1>12, <1>13, <1>18, ToldSeen, ToldThen
  <2>4. Alternates(Append(queue, e), c, p, held, r1)
    BY <1>14, <2>3, AppendSame
  <2> QED
    BY <1>11, <1>16, <1>17, <2>2, <2>4
<1>19. CASE c # x
  <2>1. e.cell # c /\ (Told(r1) <=> Told(r))
    BY <1>7, <1>10, <1>12, <1>13, <1>19, ToldSeen, ToldThen
  <2>2. Alternates(queue', c, p, held, r)
    BY <1>8, <1>14, <2>1, AppendOther
  <2>3. Alternates(queue', c, p, held, r1)
    BY <2>1, <2>2, SameTrace
  <2> QED
    BY <1>11, <1>16, <1>17, <2>3
<1> QED
  BY <1>18, <1>19

LEMMA KeysProcess ==
  ASSUME ScanInv, KeyTypes, KeymapInv, ProcessMsgq
  PROVE  KeymapInv'
<1>1. /\ Work.at \in {"none", "raise"} /\ UNCHANGED <<deb, active, loop>>
      /\ \E c \in {Idle, [at |-> "raise"]} : thread' = [thread EXCEPT !["work"] = c]
  BY DEF ProcessMsgq, Work
<1>2. Work'.at \in {"none", "raise"} /\ Low' = Low
  BY <1>1, WorkStops DEF ScanInv
<1>4. \A d : ~Overlaps(d)' /\ ToReport(d)' = ToReport(d)
  <2> SUFFICES ASSUME NEW d PROVE ~Overlaps(d)' /\ ToReport(d)' = ToReport(d)
    OBVIOUS
  <2>1. ~ReadBy("work", d)'
    BY <1>2 DEF ReadBy, Work
  <2>2. \A t \in Threads : /\ thread'[t].at = "read" <=> thread[t].at = "read"
                           /\ thread'[t].at = "report" <=> thread[t].at = "report"
                           /\ thread[t].at \in {"read", "report"} => thread'[t] = thread[t]
    BY <1>1, <1>2, ThreadNames DEF Work, Low
  <2>3. ToReport(d)' = ToReport(d)
    BY <1>1, <2>2 DEF ToReport
  <2> QED
    BY <2>1, <2>3 DEF Overlaps
<1>5. CASE queue = <<>>
  <2>1. UNCHANGED <<queue, held, strayed, twice>>
    BY <1>5 DEF ProcessMsgq
  <2>2. CASE active = NoLayout
    BY <1>1, <2>1, <2>2 DEF KeymapInv
  <2>3. CASE active # NoLayout
    <3>1. PICK l \in Layouts : active = l
      BY <2>3 DEF ScanInv, DevicesOK
    <3>2. PICK d \in Devices : d = Kscan[l]
      BY Sizes
    <3>3. held' = held \ strayed' /\ ~twice'
      BY <2>1 DEF KeymapInv
    <3>4. \A c \in Cells(d) : Follows(d, c, Transform[l][c]) => Follows(d, c, Transform[l][c])'
      BY <1>1, <1>4, <2>1 DEF Follows, Seen
    <3> QED
      BY <1>1, <1>4, <2>1, <3>1, <3>2, <3>3, <3>4, KeysKept
  <2> QED
    BY <2>2, <2>3
<1>6. CASE queue # <<>>
  <2>1. active # NoLayout /\ active \in Layouts /\ Kscan[active] \in Devices
    BY <1>6, Sizes DEF KeymapInv, ScanInv, DevicesOK
  <2>2. PICK l \in Layouts : active = l
    BY <2>1
  <2>3. PICK d \in Devices : d = Kscan[l]
    BY <2>1, <2>2
  <2>4. PICK q : q = queue
    OBVIOUS
  <2>5. PICK e : e = Head(q)
    OBVIOUS
  <2>6. PICK p : p = Position(l, e.cell)
    OBVIOUS
  <2>7. /\ q \in Seq(Events) /\ q # <<>> /\ e = Head(q) /\ e \in Events
    BY <1>6, <2>4, <2>5 DEF KeyTypes
  <2>8. /\ queue' = Tail(q)
        /\ IF p = 0 THEN UNCHANGED <<held, strayed, twice>> ELSE Tell(p, e, Tail(q))
    BY <1>6, <2>2, <2>4, <2>5, <2>6 DEF ProcessMsgq
  <2>9. /\ ~twice /\ held \cap strayed = {} /\ held \subseteq {Transform[l][c] : c \in Cells(d)}
        /\ \A c \in Cells(d) : Transform[l][c] \in {0} \cup strayed \/ Follows(d, c, Transform[l][c])
    BY <2>1, <2>2, <2>3 DEF KeymapInv
  <2>10. Transform[l] \in [Cells(d) -> Nat]
    BY <2>3, TransformAssumption
  <2>11. p # 0 => e.cell \in Cells(d) /\ p = Transform[l][e.cell]
    BY <2>6, <2>10 DEF Position
  <2>12. \A c \in Cells(d) : c # e.cell /\ Transform[l][c] # 0 => Transform[l][c] # p
    BY <2>3, <2>11, TransformAssumption
  <2>13. ~twice'
    <3>1. CASE p = 0
      BY <2>8, <2>9, <3>1
    <3>2. CASE p # 0
      <4>1. twice' = (twice \/ (p \notin strayed /\ e.pressed = (p \in held)))
        BY <2>8, <3>2 DEF Tell
      <4>2. p \notin strayed => (e.pressed <=> p \notin held)
        <5> SUFFICES ASSUME p \notin strayed PROVE e.pressed <=> p \notin held
          OBVIOUS
        <5>1. Follows(d, e.cell, p)
          BY <2>9, <2>11, <3>2
        <5>2. Alternates(q, e.cell, p, held, Seen(d, e.cell)) /\ Head(q).cell = e.cell
          BY <2>4, <2>7, <5>1 DEF Follows
        <5>3. Head(q).pressed <=> p \notin held
          BY <2>7, <5>2, HeadChanges
        <5> QED
          BY <2>7, <5>3
      <4>3. e.pressed \in BOOLEAN
        BY <2>7 DEF Events
      <4> QED
        BY <2>9, <4>1, <4>2, <4>3
    <3> QED
      BY <3>1, <3>2
  <2>14. /\ held' \cap strayed' = {} /\ held' \subseteq {Transform[l][c] : c \in Cells(d)}
         /\ \A r : r # p => (r \in held' <=> r \in held) /\ (r \in strayed' <=> r \in strayed)
    <3>1. CASE p = 0
      BY <2>8, <2>9, <3>1
    <3>2. CASE p # 0
      <4>1. \/ strayed' = strayed \ {p} /\ (held' = held \cup {p} \/ held' = held \ {p})
            \/ strayed' = strayed /\ held' = held \ {p}
        BY <2>8, <3>2 DEF Tell
      <4>2. p \in {Transform[l][c] : c \in Cells(d)}
        BY <2>11, <3>2
      <4> QED
        BY <2>9, <4>1, <4>2
    <3> QED
      BY <3>1, <3>2
  <2>15. ASSUME NEW c \in Cells(d), Transform[l][c] \notin {0} \cup strayed'
         PROVE  Follows(d, c, Transform[l][c])'
    <3>1. PICK r : r = Transform[l][c]
      OBVIOUS
    <3>2. ASSUME Alternates(Tail(q), c, r, held', Seen(d, c))
          PROVE  Follows(d, c, r)'
      <4>1. Seen(d, c)' = Seen(d, c)
        BY <1>1, <1>4 DEF Seen
      <4>2. Alternates(queue', c, r, held', Seen(d, c)')
        BY <2>8, <3>2, <4>1
      <4> QED
        BY <4>2 DEF Follows
    <3>3. CASE c # e.cell
      <4>1. r # p \/ p = 0
        BY <2>12, <2>15, <3>1, <3>3
      <4>2. (r \in held' <=> r \in held) /\ r \notin {0} \cup strayed
        BY <2>8, <2>14, <2>15, <3>1, <4>1
      <4>3. Follows(d, c, r)
        BY <2>9, <3>1, <4>2
      <4>4. Alternates(Tail(q), c, r, held', Seen(d, c))
        BY <2>4, <2>7, <3>3, <4>2, <4>3, TailTold DEF Follows
      <4> QED
        BY <3>1, <3>2, <4>4
    <3>4. CASE c = e.cell
      <4>1. r = p /\ p # 0
        BY <2>6, <2>10, <2>15, <3>1, <3>4 DEF Position
      <4>2. CASE p \notin strayed
        <5>1. p \in held' <=> e.pressed
          BY <2>8, <4>1, <4>2 DEF Tell
        <5>2. Follows(d, c, r)
          BY <2>9, <3>1, <4>1, <4>2
        <5>3. Alternates(Tail(q), c, r, held', Seen(d, c))
          BY <2>4, <2>7, <3>4, <4>1, <5>1, <5>2, TailTold DEF Follows
        <5> QED
          BY <3>1, <3>2, <5>3
      <4>3. CASE p \in strayed
        <5>1. /\ e.d = Kscan[active] /\ deb[e.d][e.cell].pressed = e.pressed
              /\ e.cell \notin ToReport(e.d)
              /\ \A i \in DOMAIN Tail(q) : Tail(q)[i].cell # e.cell
          BY <2>8, <2>15, <3>1, <4>1, <4>3 DEF Tell
        <5>2. strayed' = strayed \ {p} /\ held' = IF e.pressed THEN held \cup {p} ELSE held \ {p}
          BY <2>8, <4>1, <5>1 DEF Tell
        <5>3. p \in held' <=> Told(Seen(d, c))
          BY <2>2, <2>3, <3>4, <5>1, <5>2, ToldSeen
        <5>4. Tail(q) \in Seq(Events) /\ \A i \in 1 .. Len(Tail(q)) : Tail(q)[i].cell # c
          <6>1. Tail(q) \in Seq(Events)
            BY <2>7
          <6>2. DOMAIN Tail(q) = 1 .. Len(Tail(q))
            BY <6>1
          <6> QED
            BY <3>4, <5>1, <6>1, <6>2
        <5>5. Alternates(Tail(q), c, r, held', Seen(d, c))
          BY <4>1, <5>3, <5>4, Settled
        <5> QED
          BY <3>1, <3>2, <5>5
      <4> QED
        BY <4>2, <4>3
    <3> QED
      BY <3>3, <3>4
  <2>16. active' = l /\ d = Kscan[l]
    BY <1>1, <2>2, <2>3
  <2> QED
    BY <1>4, <2>1, <2>2, <2>13, <2>14, <2>15, <2>16 DEF KeymapInv
<1> QED
  BY <1>5, <1>6

\* The low thread works on a layout while nothing is read, so that no change is to be reported
LEMMA LowReports ==
  ASSUME ThreadsOK, (\E l \in Layouts : Select(l)) \/ Switch, NEW d \in Devices
  PROVE  /\ \A c \in Cells(d) : c \notin ToReport(d)' /\ c \notin ToReport(d)
         /\ ~Overlaps(d)'
<1>1. /\ ~ReadBy("work", d) /\ ~ReadBy("low", d) /\ thread'["work"] = thread["work"]
      /\ Low'.at \notin {"read", "report", "arm"} \/ (Low'.at = "read" /\ Low'.o = 1)
  BY LowMoves
<1>2. ASSUME NEW c \in Cells(d) PROVE c \notin ToReport(d)
  BY <1>1, NotDue, ThreadNames DEF ReadBy
<1>3. ASSUME NEW c \in Cells(d) PROVE c \notin ToReport(d)'
  <2>1. ~(c[1] < 1)
    BY Sizes DEF Cells
  <2>2. /\ thread'["low"].at # "report"
        /\ thread'["low"].at = "read" => ~(c[1] < thread'["low"].o)
    BY <1>1, <2>1 DEF Low
  <2> QED
    BY <1>1, <2>2, NotDueThen, ThreadNames DEF ReadBy
<1> QED
  BY <1>1, <1>2, <1>3 DEF Overlaps, ReadBy

LEMMA KeysLow ==
  ASSUME ScanInv, KeymapInv,
         \/ \E l \in Layouts : Select(l)
         \/ Mask \/ Suspend \/ Enable \/ (Resume /\ Low.to \in Unmapped)
  PROVE  KeymapInv'
<1>1. UNCHANGED <<active, queue, held, strayed, twice, deb>>
  BY DEF Select, Mask, Suspend, Enable, Resume, Low, layoutVars
<1>2. ((\E l \in Layouts : Select(l)) \/ Switch) /\ DevicesOK
  BY DEF Switch, ScanInv
<1>3. ASSUME NEW d \in Devices
      PROVE  /\ \A c \in Cells(d) : c \in ToReport(d)' <=> c \in ToReport(d)
             /\ Overlaps(d)' => Overlaps(d)
  BY <1>2, LowReports DEF ScanInv
<1> QED
  BY <1>1, <1>2, <1>3, KeysSame

\* When another device is resumed, all that is not settled and released is excused
LEMMA KeysResume ==
  ASSUME ScanInv, MatrixOK, KeyTypes, KeymapInv, Resume, Low.to \notin Unmapped
  PROVE  KeymapInv'
<1>1. PICK l : l = Low.to
  OBVIOUS
<1>2. /\ Low.at = "select" /\ MayRun("low") /\ active' = l /\ UNCHANGED <<deb, queue, twice>>
      /\ strayed' = strayed \cup UNION {Caught(e) : e \in Devices} /\ held' = held \ strayed'
      /\ \E c : thread' = [thread EXCEPT !["low"] = c]
  BY <1>1 DEF Resume, At, Low
<1>3. l \in Layouts /\ Kscan[l] \in Devices /\ l # NoLayout
  BY <1>1, <1>2, Calls, Sizes DEF ScanInv
<1>4. PICK d \in Devices : d = Kscan[l]
  BY <1>3
<1>5. \A e \in Devices : /\ \A c \in Cells(e) : c \notin ToReport(e)' /\ c \notin ToReport(e)
                         /\ ~Overlaps(e)'
  BY LowReports DEF ScanInv, Switch
\* A cell that is not caught is not pressed, and no event of it is queued
<1>7. ASSUME NEW k \in Layouts, NEW e \in Devices, e = Kscan[k], NEW c \in Cells(e),
             Transform[k][c] \notin {0} \cup strayed'
      PROVE  /\ ~deb[e][c].pressed
             /\ \A i \in 1 .. Len(queue) : queue[i].cell # c
  <2>1. Transform[k][c] \in Positions(e, c)
    BY <1>7 DEF Positions
  <2>2. Transform[k][c] \notin Caught(e)
    BY <1>2, <1>7
  <2>3. ~deb[e][c].pressed
    BY <2>1, <2>2 DEF Caught
  <2>4. DOMAIN queue = 1 .. Len(queue)
    BY DEF KeyTypes
  <2>5. \A i \in 1 .. Len(queue) : queue[i].cell # c
    BY <2>1, <2>2, <2>4 DEF Caught
  <2> QED
    BY <2>3, <2>5
<1>8. held' = {}
  <2> SUFFICES ASSUME NEW p \in held, p \notin strayed' PROVE FALSE
    BY <1>2
  <2>1. p \notin strayed /\ p # 0
    BY <1>2 DEF KeyTypes, AllPositions, Positions
  <2>2. active # NoLayout /\ active \in Layouts
    BY DEF KeymapInv, ScanInv, DevicesOK
  <2>3. PICK k \in Layouts : active = k
    BY <2>2
  <2>4. PICK e \in Devices : e = Kscan[k]
    BY Sizes
  <2>5. PICK c \in Cells(e) : p = Transform[k][c]
    BY <2>2, <2>3, <2>4 DEF KeymapInv
  <2>6. Follows(e, c, p)
    BY <2>1, <2>2, <2>3, <2>4, <2>5 DEF KeymapInv
  <2>7. /\ ~deb[e][c].pressed
        /\ \A i \in 1 .. Len(queue) : queue[i].cell # c
    BY <1>7, <2>1, <2>4, <2>5
  <2>8. p \in held <=> Told(Seen(e, c))
    BY <2>6, <2>7, NoEvent DEF Follows, KeyTypes
  <2> QED
    BY <1>5, <2>7, <2>8, ToldSeen
<1>9. ASSUME NEW c \in Cells(d), Transform[l][c] \notin {0} \cup strayed'
      PROVE  Follows(d, c, Transform[l][c])' /\ ~Overlaps(d)'
  <2>1. /\ ~deb[d][c].pressed
        /\ \A i \in 1 .. Len(queue) : queue[i].cell # c
    BY <1>3, <1>4, <1>7, <1>9
  <2>2. PICK r : r = Seen(d, c)'
    OBVIOUS
  <2>3. ~Told(r)
    BY <1>2, <1>5, <2>1, <2>2, ToldThen
  <2>4. Alternates(queue, c, Transform[l][c], held', r)
    BY <1>8, <2>1, <2>3, Settled DEF KeyTypes
  <2>5. Alternates(queue', c, Transform[l][c], held', Seen(d, c)')
    BY <1>2, <2>2, <2>4
  <2> QED
    BY <1>5, <2>5 DEF Follows
<1>10. ~twice'
  BY <1>2 DEF KeymapInv
<1> QED
  BY <1>2, <1>3, <1>4, <1>8, <1>9, <1>10 DEF KeymapInv

LEMMA KeymapStep ==
  ASSUME ScanInv, MatrixOK, KeyTypes, KeymapInv, [Next]_vars
  PROVE  KeymapInv'
<1>1. ASSUME UNCHANGED <<active, queue, held, strayed, twice, deb, thread, loop>> PROVE KeymapInv'
  BY <1>1, SameReports, KeysSame DEF ScanInv
<1>2. ASSUME NEW d \in Devices, NEW c \in Cells(d), Bounce(d, c) PROVE KeymapInv'
  BY <1>1, <1>2 DEF Bounce, Contact
<1>3. ASSUME NEW d \in Devices, Irq(d) PROVE KeymapInv'
  BY <1>1, <1>3 DEF Irq, Interrupt
<1>4. CASE WorkStep
  BY <1>3, <1>4, KeysRead, KeysPass, KeysProcess, KeysCallback, KeysScan, ThreadNames DEF WorkStep
<1>5. CASE LowStep
  <2>1. CASE Switch
    BY <2>1, KeysLow, KeysResume DEF Switch
  <2> QED
    BY <1>5, <2>1, KeysRead, KeysPass, KeysCallback, ThreadNames DEF LowStep
<1>6. CASE UNCHANGED vars
  BY <1>1, <1>6 DEF vars, scanVars
<1> QED
  BY <1>2, <1>4, <1>5, <1>6, KeysLow DEF Next

LEMMA LayoutPositions ==
  ASSUME NEW l \in Layouts, NEW cells, cells \subseteq Cells(Kscan[l])
  PROVE  {Transform[l][c] : c \in cells} \ {0} \subseteq AllPositions
<1> SUFFICES ASSUME NEW c \in cells, Transform[l][c] # 0 PROVE Transform[l][c] \in AllPositions
  OBVIOUS
<1>1. PICK d \in Devices : d = Kscan[l]
  BY Sizes
<1>2. Transform[l][c] \in Positions(d, c) /\ c \in Cells(d)
  BY <1>1 DEF Positions
<1> QED
  BY <1>2 DEF AllPositions

LEMMA SelectedPositions ==
  ASSUME DevicesOK, NEW d \in Devices, NEW cells, cells \subseteq Cells(d)
  PROVE  Selected(d, cells) \subseteq AllPositions
<1>1. CASE active # NoLayout /\ Kscan[active] = d
  BY <1>1, LayoutPositions DEF Selected, DevicesOK
<1>2. CASE ~(active # NoLayout /\ Kscan[active] = d)
  BY <1>2 DEF Selected
<1> QED
  BY <1>1, <1>2

\* What steps lose or tell is of the keymap
LEMMA PositionsStep ==
  ASSUME ScanInv, MatrixOK, KeyTypes, KeymapInv, [Next]_vars
  PROVE  held' \subseteq AllPositions /\ strayed' \subseteq AllPositions
<1>1. held \subseteq AllPositions /\ strayed \subseteq AllPositions /\ DevicesOK
  BY DEF KeyTypes, ScanInv
<1>2. ASSUME strayed' \subseteq AllPositions, held' = held \ strayed'
      PROVE  held' \subseteq AllPositions /\ strayed' \subseteq AllPositions
  BY <1>1, <1>2
<1>3. ASSUME UNCHANGED <<held, strayed>>
      PROVE  held' \subseteq AllPositions /\ strayed' \subseteq AllPositions
  BY <1>1, <1>3
<1>4. ASSUME NEW t \in Threads, Read(t) PROVE strayed' \subseteq AllPositions /\ held' = held \ strayed'
  <2>1. /\ held' = held \ strayed' /\ UNCHANGED active
        /\ strayed' = strayed \/ strayed' = strayed \cup Unreported(thread[t].d)
    BY <1>4 DEF Read
  <2>2. thread[t].d \in Devices
    BY <1>4, ReadsDevice DEF ScanInv
  <2>3. \A d \in Devices : Unreported(d) \subseteq AllPositions
    BY <1>1, SelectedPositions DEF Unreported, ToReport
  <2> QED
    BY <1>1, <2>1, <2>2, <2>3
<1>5. ASSUME NEW d \in Devices, Scan(d) PROVE strayed' \subseteq AllPositions /\ held' = held \ strayed'
  <2>1. Selected(d, Cells(d)) \subseteq AllPositions
    BY <1>1, SelectedPositions
  <2> QED
    BY <1>1, <1>5, <2>1 DEF Scan
<1>6. ASSUME NEW t \in Threads, NEW x, Callback(t, x)
      PROVE  strayed' \subseteq AllPositions /\ held' = held \ strayed'
  <2>1. thread[t].d \in Devices /\ x \in Cells(thread[t].d)
    BY <1>6, ReportedCell DEF Callback, ScanInv, MatrixOK
  <2>2. Selected(thread[t].d, {x}) \subseteq AllPositions
    BY <1>1, <2>1, SelectedPositions
  <2> QED
    BY <1>1, <1>6, <2>2 DEF Callback
<1>7. ASSUME ProcessMsgq PROVE held' \subseteq AllPositions /\ strayed' \subseteq AllPositions
  <2>1. CASE UNCHANGED <<held, strayed>>
    BY <1>3, <2>1
  <2>2. ASSUME NEW e \in Events, NEW p, p = Position(active, e.cell), queue # <<>>, p # 0, Tell(p, e, Tail(queue))
        PROVE  held' \subseteq AllPositions /\ strayed' \subseteq AllPositions
    <3>1. active \in Layouts
      BY <1>1, <2>2 DEF KeymapInv, DevicesOK
    <3>2. e.cell \in Cells(Kscan[active]) /\ p = Transform[active][e.cell]
      BY <2>2, <3>1, TransformAssumption DEF Position
    <3>3. {Transform[active][c] : c \in {e.cell}} \ {0} \subseteq AllPositions
      BY <3>1, <3>2, LayoutPositions
    <3>4. p \in AllPositions
      BY <2>2, <3>2, <3>3
    <3> QED
      BY <1>1, <2>2, <3>4 DEF Tell
  <2>3. queue # <<>> => Head(queue) \in Events
    BY DEF KeyTypes
  <2> QED
    BY <1>7, <2>1, <2>2, <2>3 DEF ProcessMsgq
<1>8. ASSUME Switch PROVE held' \subseteq AllPositions /\ strayed' \subseteq AllPositions
  <2>1. CASE Mask \/ Suspend \/ Enable \/ (Resume /\ Low.to \in Unmapped)
    BY <1>3, <2>1 DEF Mask, Suspend, Enable, Resume, Low, layoutVars
  <2>2. CASE Resume /\ Low.to \notin Unmapped
    <3>1. strayed' = strayed \cup UNION {Caught(e) : e \in Devices} /\ held' = held \ strayed'
      BY <2>2 DEF Resume, Low
    <3>2. \A e \in Devices : Caught(e) \subseteq AllPositions
      BY DEF Caught, AllPositions
    <3> QED
      BY <1>1, <1>2, <3>1, <3>2
  <2> QED
    BY <1>8, <2>1, <2>2 DEF Switch
<1>9. ASSUME NEW d, NEW c, Bounce(d, c) PROVE UNCHANGED <<held, strayed>>
  BY <1>9 DEF Bounce
<1>10. ASSUME NEW d, Irq(d) PROVE UNCHANGED <<held, strayed>>
  BY <1>10 DEF Irq
<1>11. ASSUME NEW l, Select(l) PROVE UNCHANGED <<held, strayed>>
  BY <1>11 DEF Select
<1>15. ASSUME NEW t, Pass(t) PROVE UNCHANGED <<held, strayed>>
  BY <1>15 DEF Pass, layoutVars
<1>12. CASE WorkStep
  BY <1>2, <1>3, <1>4, <1>5, <1>6, <1>7, <1>10, <1>12, <1>15, ThreadNames DEF WorkStep
<1>13. CASE LowStep
  BY <1>2, <1>3, <1>4, <1>6, <1>8, <1>13, <1>15, ThreadNames DEF LowStep
<1>14. CASE UNCHANGED vars
  BY <1>3, <1>14 DEF vars
<1> QED
  BY <1>3, <1>9, <1>11, <1>12, <1>13, <1>14 DEF Next

\* The message queue keeps to its size, and what is counted to its bounds
LEMMA QueueStep ==
  ASSUME ScanInv, MatrixOK, KeyTypes, [Next]_vars
  PROVE  queue' \in Seq(Events) /\ Len(queue') <= QueueSize /\ msgWork' \in BOOLEAN /\ twice' \in BOOLEAN
<1>1. queue \in Seq(Events) /\ Len(queue) <= QueueSize /\ msgWork \in BOOLEAN /\ twice \in BOOLEAN
      /\ QueueSize \in Nat
  BY LayoutsAssumption DEF KeyTypes
<1> DEFINE Queued == queue' \in Seq(Events) /\ Len(queue') <= QueueSize /\ msgWork' \in BOOLEAN
                     /\ twice' \in BOOLEAN
<1>2. ASSUME UNCHANGED <<queue, msgWork, twice>> PROVE Queued
  BY <1>1, <1>2
<1>3. ASSUME NEW t \in Threads, NEW x, Callback(t, x) PROVE Queued
  <2>1. PICK d \in Devices : d = thread[t].d
    BY <1>3, ReportedCell DEF Callback, ScanInv, MatrixOK
  <2>2. x \in Cells(d) /\ x \in AllCells
    BY <1>3, <2>1, ReportedCell DEF Callback, ScanInv, MatrixOK
  <2>3. deb[d][x].pressed \in BOOLEAN
    BY <2>1, <2>2 DEF MatrixOK, Debouncers
  <2>4. PICK e : e = [d |-> d, cell |-> x, pressed |-> deb[d][x].pressed]
    OBVIOUS
  <2>5. e \in Events
    BY <2>1, <2>2, <2>3, <2>4 DEF Events
  <2>6. /\ UNCHANGED twice
        /\ \/ UNCHANGED <<queue, msgWork>>
           \/ msgWork' = TRUE /\ UNCHANGED queue
           \/ msgWork' = TRUE /\ Len(queue) < QueueSize /\ queue' = Append(queue, e)
    BY <1>3, <2>1, <2>4 DEF Callback
  <2>7. Append(queue, e) \in Seq(Events) /\ Len(Append(queue, e)) = Len(queue) + 1
    BY <1>1, <2>5
  <2>8. msgWork' \in BOOLEAN /\ twice' \in BOOLEAN
    BY <1>1, <2>6
  <2>9. Len(queue) \in Nat
    BY <1>1
  <2> HIDE DEF Queued
  <2>10. CASE queue' = queue
    BY <1>1, <2>8, <2>10 DEF Queued
  <2>11. CASE Len(queue) < QueueSize /\ queue' = Append(queue, e)
    BY <1>1, <2>7, <2>8, <2>9, <2>11 DEF Queued
  <2> QED
    BY <2>6, <2>10, <2>11
<1>4. ASSUME ProcessMsgq PROVE Queued
  <2>1. msgWork' \in BOOLEAN
    <3>1. (msgWork /\ thread["work"].at = "raise") \in BOOLEAN
      OBVIOUS
    <3> QED
      BY <1>4, <3>1 DEF ProcessMsgq
  <2>2. twice' \in BOOLEAN
    <3>1. \A p, e : (twice \/ (p \notin strayed /\ e.pressed = (p \in held))) \in BOOLEAN
      OBVIOUS
    <3> QED
      BY <1>1, <1>4, <3>1 DEF ProcessMsgq, Tell
  <2>3. queue' \in Seq(Events) /\ Len(queue') <= QueueSize
    <3>1. CASE queue = <<>>
      BY <1>1, <1>4, <3>1 DEF ProcessMsgq
    <3>2. CASE queue # <<>>
      <4>1. queue' = Tail(queue)
        BY <1>4, <3>2 DEF ProcessMsgq
      <4>2. Tail(queue) \in Seq(Events) /\ Len(Tail(queue)) = Len(queue) - 1
        BY <1>1, <3>2
      <4> QED
        BY <1>1, <4>1, <4>2
    <3> QED
      BY <3>1, <3>2
  <2> QED
    BY <2>1, <2>2, <2>3
<1>5. ASSUME \/ \E d \in Devices : Scan(d) \/ Irq(d)
             \/ \E t \in Threads : Read(t) \/ Pass(t)
             \/ \E d, c : Bounce(d, c)
             \/ \E l : Select(l)
             \/ Switch
      PROVE  UNCHANGED <<queue, msgWork, twice>>
  <2>1. ASSUME NEW d, Scan(d) \/ Irq(d) PROVE UNCHANGED <<queue, msgWork, twice>>
    BY <2>1 DEF Scan, Irq
  <2>2. ASSUME NEW t, Read(t) \/ Pass(t) PROVE UNCHANGED <<queue, msgWork, twice>>
    BY <2>2 DEF Read, Pass, layoutVars
  <2>3. ASSUME NEW d, NEW c, Bounce(d, c) PROVE UNCHANGED <<queue, msgWork, twice>>
    BY <2>3 DEF Bounce
  <2>4. ASSUME (\E l : Select(l)) \/ Switch PROVE UNCHANGED <<queue, msgWork, twice>>
    BY <2>4 DEF Select, Switch, Mask, Suspend, Enable, Resume, layoutVars
  <2> QED
    BY <1>5, <2>1, <2>2, <2>3, <2>4
<1>6. CASE WorkStep
  BY <1>2, <1>3, <1>4, <1>5, <1>6, ThreadNames DEF WorkStep
<1>7. CASE LowStep
  BY <1>2, <1>3, <1>5, <1>7, ThreadNames DEF LowStep
<1>8. CASE UNCHANGED vars
  BY <1>2, <1>8 DEF vars
<1> QED
  BY <1>2, <1>5, <1>6, <1>7, <1>8 DEF Next

LEMMA CountStep ==
  ASSUME DevicesOK', KeyTypes, [Next]_vars
  PROVE  selections' \in 0 .. MaxMishaps /\ pending' \in BOOLEAN /\ callback' \in [Devices -> BOOLEAN]
<1>1. /\ selections \in Nat /\ selections <= MaxMishaps /\ MaxMishaps \in Nat /\ faults' \in Nat
      /\ pending \in BOOLEAN /\ callback \in [Devices -> BOOLEAN]
  BY LayoutsAssumption DEF KeyTypes, DevicesOK
<1>2. ASSUME selections' = selections \/ (selections' = selections + 1 /\ Bounded)
      PROVE  selections' \in 0 .. MaxMishaps
  BY <1>1, <1>2 DEF Bounded
<1>3. ASSUME NEW d, NEW c, Bounce(d, c) PROVE UNCHANGED <<selections, pending, callback>>
  BY <1>3 DEF Bounce, Contact
<1>4. ASSUME WorkStep PROVE UNCHANGED <<selections, pending, callback>>
  <2>1. ASSUME NEW t, Read(t) PROVE UNCHANGED <<selections, pending, callback>>
    BY <2>1 DEF Read, ReadOutput, ReadFails, EndRead, ArmOutput
  <2>2. ASSUME NEW t, Pass(t) \/ \E x : Callback(t, x) PROVE UNCHANGED <<selections, pending, callback>>
    BY <2>2 DEF Callback, Reports, Pass, Passes, layoutVars
  <2>3. ASSUME NEW d, Scan(d) \/ Irq(d) PROVE UNCHANGED <<selections, pending, callback>>
    BY <2>3 DEF Scan, StartScan, Irq, Interrupt
  <2>4. ASSUME ProcessMsgq PROVE UNCHANGED <<selections, pending, callback>>
    BY <2>4 DEF ProcessMsgq
  <2> QED
    BY <1>4, <2>1, <2>2, <2>3, <2>4 DEF WorkStep
<1>5. ASSUME LowStep
      PROVE  selections' = selections /\ pending' \in BOOLEAN /\ callback' \in [Devices -> BOOLEAN]
  <2>1. ASSUME NEW t, Read(t) PROVE UNCHANGED <<selections, pending, callback>>
    BY <2>1 DEF Read, ReadOutput, ReadFails, EndRead, ArmOutput
  <2>2. ASSUME NEW t, Pass(t) \/ \E x : Callback(t, x) PROVE UNCHANGED <<selections, pending, callback>>
    BY <2>2 DEF Callback, Reports, Pass, Passes, layoutVars
  <2>3. ASSUME Mask \/ Suspend PROVE UNCHANGED <<selections, pending, callback>>
    BY <2>3 DEF Mask, Suspend, layoutVars
  <2>4. ASSUME Resume PROVE UNCHANGED <<selections, callback>> /\ pending' \in BOOLEAN
    BY <2>4 DEF Resume
  <2>5. ASSUME Enable
        PROVE  UNCHANGED <<selections, pending>> /\ callback' \in [Devices -> BOOLEAN]
    BY <1>1, <2>5 DEF Enable
  <2> QED
    BY <1>1, <1>5, <2>1, <2>2, <2>3, <2>4, <2>5 DEF LowStep, Switch
<1>6. ASSUME NEW l, Select(l) PROVE selections' = selections + 1 /\ UNCHANGED <<pending, callback>>
  BY <1>6 DEF Select
<1>7. CASE UNCHANGED vars
  BY <1>1, <1>2, <1>7 DEF vars, scanVars
<1> QED
  BY <1>1, <1>2, <1>3, <1>4, <1>5, <1>6, <1>7 DEF Next

LEMMA InitKeys == Init => KeyTypes /\ KeymapInv
<1> SUFFICES ASSUME Init PROVE KeyTypes /\ KeymapInv
  OBVIOUS
<1>1. /\ queue = <<>> /\ held = {} /\ strayed = {} /\ ~twice /\ active = NoLayout
      /\ selections = 0 /\ msgWork = FALSE /\ pending = FALSE /\ twice = FALSE
      /\ callback \in [Devices -> BOOLEAN]
  BY DEF Init
<1>2. queue \in Seq(Events) /\ Len(queue) <= QueueSize /\ selections \in 0 .. MaxMishaps
  BY <1>1, LayoutsAssumption
<1> QED
  BY <1>1, <1>2 DEF KeyTypes, KeymapInv

\* The types of the module
LEMMA KeysTyped == ScanInv /\ MatrixOK /\ KeyTypes => TypeOK
<1> SUFFICES ASSUME ScanInv, MatrixOK, KeyTypes PROVE TypeOK
  OBVIOUS
<1>1. ScanTypeOK
  <2>1. \A t \in Threads : thread[t].at \in Stages
    BY Calls, ThreadNames DEF ScanInv, Work, Low, LowStages, Stages
  <2> QED
    BY <2>1 DEF ScanInv, DevicesOK, MatrixOK, LoopOK, KeyTypes, ScanTypeOK
<1>2. /\ active \in Layouts \cup {NoLayout} /\ deaf \in BOOLEAN
      /\ \A d \in Devices : touched[d] \subseteq Cells(d)
  BY DEF ScanInv, DevicesOK, MatrixOK
<1> QED
  BY <1>1, <1>2 DEF TypeOK, KeyTypes, Events

\* Once its events are processed the keymap holds exactly the keys that are debounced as pressed, and
\* it was told of each change once; but for keys whose event was lost in the full queue or in a failing
\* read, or that were down while the layout changed: for any matrix, layouts, size of the queue and
\* debounce times (physical_layouts.c:183-220).
THEOREM KeymapFollows == Spec => []KeymapFollowsMatrix
<1> DEFINE Inv == ScanInv /\ MatrixOK /\ KeyTypes /\ KeymapInv
<1>1. Init => Inv
  BY InitScan, InitGhost, InitKeys
<1>2. Inv /\ [Next]_vars => Inv'
  <2> SUFFICES ASSUME ScanInv, MatrixOK, KeyTypes, KeymapInv, [Next]_vars PROVE Inv'
    OBVIOUS
  <2>1. ScanInv' /\ DevicesOK'
    BY NextScan DEF ScanInv
  <2>2. MatrixOK'
    BY MatrixStep DEF ScanInv
  <2>3. KeyTypes'
    BY <2>1, PositionsStep, QueueStep, CountStep DEF KeyTypes
  <2> QED
    BY <2>1, <2>2, <2>3, KeymapStep
<1>3. Inv => KeymapFollowsMatrix
  <2> SUFFICES ASSUME ScanInv, MatrixOK, KeyTypes, KeymapInv PROVE KeymapFollowsMatrix
    OBVIOUS
  <2>1. TypeOK /\ ~twice
    BY KeysTyped DEF KeymapInv
  <2>2. ASSUME queue = <<>>, active # NoLayout, ToReport(Kscan[active]) = {}, NEW c \in Cells(Kscan[active]),
               NEW p, p = Position(active, c), p \notin {0} \cup strayed
        PROVE  p \in held <=> deb[Kscan[active]][c].pressed
    <3>1. active \in Layouts
      BY <2>2 DEF ScanInv, DevicesOK
    <3>2. p = Transform[active][c]
      BY <2>2, <3>1, TransformAssumption DEF Position
    <3>3. Follows(Kscan[active], c, p)
      BY <2>2, <3>2 DEF KeymapInv
    <3>4. p \in held <=> Told(Seen(Kscan[active], c))
      <4>1. queue \in Seq(Events) /\ 1 .. Len(queue) = {}
        BY <2>2 DEF KeyTypes
      <4>2. Alternates(queue, c, p, held, Seen(Kscan[active], c))
        BY <3>3 DEF Follows
      <4> QED
        BY <4>1, <4>2, NoEvent
    <3> QED
      BY <2>2, <3>4, ToldSeen
  <2> QED
    BY <2>1, <2>2 DEF KeymapFollowsMatrix
<1> QED
  BY <1>1, <1>2, <1>3, PTL DEF Spec
=============================================================================
