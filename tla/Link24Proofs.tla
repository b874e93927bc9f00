----------------------------- MODULE Link24Proofs -----------------------------
(* Proofs about Link24: that the dongle processes messages at most once and in *)
(* order, as LossyFifo promises, and that at rest the host has the reports of  *)
(* the keyboard.                                                               *)
EXTENDS Link24, SequenceTheorems, TLAPS

\* What has been written before what: sessions count up, and so do counters in a session
Before(m, n) == m.session < n.session \/ (m.session = n.session /\ m.counter < n.counter)
Now == [session |-> session, counter |-> counter]
Sorted(s) == \A i, j \in DOMAIN s : i < j => Before(s[i].msg, s[j].msg)

TxType == [fifo : Seq(Packets), radio : Radio, left : 0 .. RetransmitCount, pid : 0 .. PidMax]
SeenType == [session : {0} \cup Sessions, counter : 0 .. CounterMax, seen : SUBSET (0 .. CounterMax)]
TypeInv ==
  /\ tx \in TxType /\ Len(tx.fifo) <= TxFifoSize
  /\ (tx.radio \notin {"idle", "off"} => tx.fifo # <<>>) /\ (tx.radio = "off" => tx.fifo = <<>>)
  /\ txEvents \in Seq({"success", "failed"}) /\ Len(txEvents) <= EventSize
  /\ ack \in BOOLEAN /\ rxInfo \in Packets \cup {Nothing}
  /\ rxFifo \in Seq(Packets) /\ Len(rxFifo) <= RxFifoSize
  /\ report \in [ReportTypes -> AllBodies] /\ host \in [ReportTypes -> AllBodies]
  /\ \A t \in ReportTypes : report[t] \in Bodies[t] /\ host[t] \in Bodies[t]
  /\ fails \in 0 .. FailureWrap - 1 /\ resend \in 0 .. Len(Types)
  /\ session \in Sessions /\ counter \in 0 .. CounterMax /\ faults \in 0 .. MaxFaults
  /\ session <= faults + 1
  /\ replay \in SeenType
  /\ connected \in BOOLEAN /\ excused \subseteq ReportTypes

\* The packets of the FIFO f were written in order and before n, and p, which the dongle
\* received last, before them, unless it is the one at the head
InOrder(f, p, n) ==
  /\ \A i \in DOMAIN f : Before(f[i].msg, n)
  /\ Sorted(f)
  /\ p # Nothing =>
       /\ Before(p.msg, n)
       /\ \A i \in DOMAIN f : Before(p.msg, f[i].msg) \/ (i = 1 /\ f[1] = p)
SentInv == InOrder(tx.fifo, rxInfo, Now) /\ (ack => tx.radio = "waiting" /\ tx.fifo[1] = rxInfo)

\* What the dongle has not processed was received in order, after what it has processed
ReceivedInv ==
  /\ \A i \in DOMAIN rxFifo :
       /\ rxInfo # Nothing /\ ~Before(rxInfo.msg, rxFifo[i].msg)
       /\ Before(replay, rxFifo[i].msg)
  /\ Sorted(rxFifo)
  /\ IF rxInfo = Nothing THEN replay.session = 0 ELSE ~Before(rxInfo.msg, replay)

\* When the messages of u are processed, a host that shows h of t will show b
Shows(u, t, h, b) ==
  \/ \E i \in DOMAIN u : /\ u[i].type = t /\ u[i].body = b
                         /\ \A j \in DOMAIN u : j > i => u[j].type # t
  \/ h = b /\ \A i \in DOMAIN u : u[i].type # t

ToResend == {Types[i] : i \in Len(Types) - resend + 1 .. Len(Types)}
FailureKnown == \E i \in DOMAIN txEvents : txEvents[i] = "failed"
\* Each report is on its way, or will be sent again, or is excused
SettleInv ==
  /\ ready \/ txEvents = <<>> \/ excused = ReportTypes
  /\ \A t \in ReportTypes \ excused :
       FailureKnown \/ t \in ToResend \/ Shows(Unprocessed, t, host[t], report[t])

LinkInv == TypeInv /\ SentInv /\ ReceivedInv /\ SettleInv
-----------------------------------------------------------------------------
(* Types and the operators of the driver *)

LEMMA Sizes ==
  /\ TxFifoSize \in Nat \ {0} /\ RxFifoSize \in Nat \ {0} /\ EventSize \in Nat \ {0}
  /\ RetransmitCount \in Nat /\ PidMax \in Nat /\ CounterMax \in Nat /\ ReplayWindow \in Nat
  /\ MaxFaults \in Nat /\ MaxFailures \in Nat \ {0} /\ FailureWrap \in Nat \ {0}
  /\ MaxFailures < FailureWrap
BY EsbAssumption, LinkAssumption

LEMMA TypesKnown ==
  /\ Types \in Seq(STRING) /\ Len(Types) \in Nat \ {0} /\ DOMAIN Types = 1 .. Len(Types)
  /\ "keepalive" \notin ReportTypes /\ "boot" \notin ReportTypes
  /\ \A i \in DOMAIN Types : Types[i] \in ReportTypes
  /\ \A t \in ReportTypes : Released \in Bodies[t] /\ Bodies[t] \subseteq AllBodies
  /\ Released \in AllBodies
<1>1. Types \in Seq(STRING \ {"keepalive", "boot"}) /\ Types # <<>>
  BY LinkAssumption
<1>2. /\ Len(Types) \in Nat \ {0} /\ DOMAIN Types = 1 .. Len(Types)
      /\ \A i \in DOMAIN Types : Types[i] \in STRING \ {"keepalive", "boot"}
  BY <1>1
<1>3. Types \in Seq(STRING)
  BY <1>1
<1>4. \A i \in DOMAIN Types : Types[i] \in ReportTypes
  BY DEF ReportTypes
<1>5. "keepalive" \notin ReportTypes /\ "boot" \notin ReportTypes
  BY <1>2 DEF ReportTypes
<1>6. \A t \in ReportTypes : Released \in Bodies[t] /\ Bodies[t] \subseteq AllBodies
  BY LinkAssumption DEF ReportTypes, AllBodies
<1>7. Types[1] \in ReportTypes
  BY <1>2, <1>4
<1> QED
  BY <1>2, <1>3, <1>4, <1>5, <1>6, <1>7

LEMMA PacketParts ==
  ASSUME NEW p \in Packets
  PROVE  /\ p.msg \in Messages /\ p.pid \in 0 .. PidMax /\ p # Nothing
         /\ p.msg.session \in Sessions /\ p.msg.counter \in 0 .. CounterMax - 1
         /\ p.msg.session \in Nat /\ p.msg.counter \in Nat
         /\ p.msg.type \in ReportTypes => p.msg.body \in Bodies[p.msg.type]
BY NothingAssumption, Sizes DEF Packets, Messages, Sessions

LEMMA MessageType ==
  ASSUME TypeInv, counter < CounterMax,
         NEW t \in ReportTypes \cup {"keepalive", "boot"}, NEW b \in AllBodies,
         t \in ReportTypes => b \in Bodies[t]
  PROVE  Message(t, b) \in Messages
BY Sizes DEF Message, Messages, TypeInv

\* A message that is being written is later than all that was
LEMMA BeforeNow ==
  ASSUME NEW m, Before(m, Now), NEW t, NEW b
  PROVE  Before(m, Message(t, b))
BY DEF Before, Now, Message

LEMMA StartTxDoes ==
  ASSUME NEW t \in TxType, t.radio \in {"idle", "sending", "waiting"}
  PROVE  /\ StartTx(t) \in TxType /\ StartTx(t).fifo = t.fifo
         /\ StartTx(t).radio = IF t.fifo = <<>> THEN "idle" ELSE "sending"
         /\ StartTx(t).pid = t.pid
<1>1. t.fifo \in Seq(Packets) /\ RetransmitCount \in 0 .. RetransmitCount
  BY Sizes DEF TxType
<1>2. CASE t.fifo = <<>>
  <2>1. StartTx(t) = [t EXCEPT !.radio = "idle"]
    BY <1>2 DEF StartTx
  <2> QED
    BY <1>2, <2>1 DEF TxType, Radio
<1>3. CASE t.fifo # <<>>
  <2>1. StartTx(t) = [t EXCEPT !.radio = "sending", !.left = RetransmitCount]
    BY <1>3 DEF StartTx
  <2> QED
    BY <1>1, <1>3, <2>1 DEF TxType, Radio
<1> QED
  BY <1>2, <1>3

LEMMA WriteDoes ==
  ASSUME NEW t \in TxType, NEW m \in Messages
  PROVE  /\ WritePayload(t, m) \in TxType
         /\ \E pid \in 0 .. PidMax :
              WritePayload(t, m).fifo = Append(t.fifo, [pid |-> pid, msg |-> m])
         /\ WritePayload(t, m).fifo # <<>>
         /\ WritePayload(t, m).radio = IF t.radio = "idle" THEN "sending" ELSE t.radio
<1> DEFINE pid == (t.pid + 1) % (PidMax + 1)
           p == [pid |-> pid, msg |-> m]
           queued == [t EXCEPT !.fifo = Append(@, p), !.pid = pid]
<1>1. pid \in 0 .. PidMax
  <2>1. t.pid \in Nat /\ PidMax \in Nat
    BY Sizes DEF TxType
  <2> QED
    BY <2>1
<1>2. p \in Packets
  BY <1>1 DEF Packets
<1>3. t.fifo \in Seq(Packets)
  BY DEF TxType
<1>4. Append(t.fifo, p) \in Seq(Packets) /\ Append(t.fifo, p) # <<>>
  BY <1>2, <1>3
<1> HIDE DEF p, pid
<1>5. /\ queued \in TxType /\ queued.fifo = Append(t.fifo, p) /\ queued.radio = t.radio
  BY <1>1, <1>4 DEF TxType
<1>6. CASE t.radio = "idle"
  <2>1. StartTx(queued) \in TxType /\ StartTx(queued).fifo = queued.fifo /\ StartTx(queued).radio = "sending"
    BY <1>4, <1>5, <1>6, StartTxDoes
  <2>2. WritePayload(t, m) = StartTx(queued)
    BY <1>6 DEF WritePayload, pid, p
  <2> QED
    BY <1>1, <1>4, <1>5, <1>6, <2>1, <2>2 DEF p
<1>7. CASE t.radio # "idle"
  <2>1. WritePayload(t, m) = queued
    BY <1>7 DEF WritePayload, pid, p
  <2> QED
    BY <1>1, <1>4, <1>5, <1>7, <2>1 DEF p
<1> QED
  BY <1>6, <1>7

LEMMA FlushDoes ==
  ASSUME NEW t \in TxType
  PROVE  /\ FlushTx(t) \in TxType /\ FlushTx(t).radio = t.radio
         /\ t.fifo = <<>> \/ t.radio = "idle" => FlushTx(t).fifo = <<>>
         /\ t.fifo # <<>> /\ t.radio # "idle" => FlushTx(t).fifo = <<Head(t.fifo)>>
         /\ Len(FlushTx(t).fifo) <= Len(t.fifo)
<1>1. t.fifo \in Seq(Packets)
  BY DEF TxType
<1> DEFINE kept == IF t.radio # "idle" /\ t.fifo # <<>> THEN <<Head(t.fifo)>> ELSE <<>>
<1>2. kept \in Seq(Packets) /\ Len(kept) <= Len(t.fifo)
  <2>1. CASE t.fifo = <<>>
    BY <2>1
  <2>2. CASE t.fifo # <<>>
    <3>1. Head(t.fifo) \in Packets /\ Len(t.fifo) \in Nat /\ Len(t.fifo) >= 1
      BY <1>1, <2>2
    <3> QED
      BY <3>1
  <2> QED
    BY <2>1, <2>2
<1>3. FlushTx(t) = [t EXCEPT !.fifo = kept]
  BY DEF FlushTx
<1> HIDE DEF kept
<1>4. FlushTx(t) \in TxType /\ FlushTx(t).radio = t.radio /\ FlushTx(t).fifo = kept
  BY <1>2, <1>3 DEF TxType
<1> QED
  BY <1>2, <1>4 DEF kept

LEMMA NextDoes ==
  ASSUME NEW t \in TxType, t.fifo # <<>>, t.radio = "waiting"
  PROVE  /\ NextTx(t) \in TxType /\ NextTx(t).fifo = Tail(t.fifo)
         /\ NextTx(t).radio = IF Tail(t.fifo) = <<>> THEN "idle" ELSE "sending"
<1> DEFINE u == [t EXCEPT !.fifo = IF t.fifo = <<>> THEN <<>> ELSE Tail(@)]
<1>1. t.fifo \in Seq(Packets)
  BY DEF TxType
<1>2. Tail(t.fifo) \in Seq(Packets)
  BY <1>1
<1>3. u \in TxType /\ u.fifo = Tail(t.fifo) /\ u.radio = "waiting"
  BY <1>2 DEF TxType
<1>4. NextTx(t) = StartTx(u)
  BY DEF NextTx
<1> QED
  BY <1>3, <1>4, StartTxDoes

\* What send_report leaves in the FIFO
LEMMA PutReportDoes ==
  ASSUME NEW t \in TxType, Len(t.fifo) <= TxFifoSize, NEW m \in Messages,
         t.radio = "off" => t.fifo = <<>>, t.radio # "off",
         t.radio # "idle" => t.fifo # <<>>
  PROVE  /\ PutReport(t, m) \in TxType /\ Len(PutReport(t, m).fifo) <= TxFifoSize
         /\ PutReport(t, m).fifo # <<>> /\ PutReport(t, m).radio # "off"
         /\ Room(FlushTx(t)) =>
              \E kept \in {t.fifo, FlushTx(t).fifo}, pid \in 0 .. PidMax :
                PutReport(t, m).fifo = Append(kept, [pid |-> pid, msg |-> m])
         /\ ~Room(FlushTx(t)) => PutReport(t, m).fifo = t.fifo
         /\ PutReport(t, m).radio = IF t.radio = "idle" THEN "sending" ELSE t.radio
<1>1. /\ FlushTx(t) \in TxType /\ FlushTx(t).radio = t.radio
      /\ Len(FlushTx(t).fifo) <= Len(t.fifo) /\ Len(t.fifo) \in Nat /\ Len(FlushTx(t).fifo) \in Nat
      /\ t.fifo \in Seq(Packets) /\ FlushTx(t).fifo \in Seq(Packets)
  <2>1. FlushTx(t) \in TxType /\ FlushTx(t).radio = t.radio /\ Len(FlushTx(t).fifo) <= Len(t.fifo)
    BY FlushDoes
  <2>2. t.fifo \in Seq(Packets) /\ FlushTx(t).fifo \in Seq(Packets)
    BY <2>1 DEF TxType
  <2> QED
    BY <2>1, <2>2
<1>2. CASE Room(t)
  <2>1. PutReport(t, m) = WritePayload(t, m)
    BY <1>2 DEF PutReport
  <2>2. Room(FlushTx(t))
    BY <1>1, <1>2, Sizes DEF Room
  <2>3. PICK pid \in 0 .. PidMax : WritePayload(t, m).fifo = Append(t.fifo, [pid |-> pid, msg |-> m])
    BY WriteDoes
  <2>4. Len(WritePayload(t, m).fifo) = Len(t.fifo) + 1
    BY <1>1, <2>3
  <2>5. Len(WritePayload(t, m).fifo) <= TxFifoSize
    BY <1>1, <1>2, <2>4, Sizes DEF Room
  <2> QED
    BY <2>1, <2>2, <2>3, <2>5, WriteDoes
<1>3. CASE ~Room(t) /\ Room(FlushTx(t))
  <2>1. PutReport(t, m) = WritePayload(FlushTx(t), m)
    BY <1>3 DEF PutReport
  <2>3. PICK pid \in 0 .. PidMax :
          WritePayload(FlushTx(t), m).fifo = Append(FlushTx(t).fifo, [pid |-> pid, msg |-> m])
    BY <1>1, WriteDoes
  <2>4. Len(WritePayload(FlushTx(t), m).fifo) = Len(FlushTx(t).fifo) + 1
    BY <1>1, <2>3
  <2>5. Len(WritePayload(FlushTx(t), m).fifo) <= TxFifoSize
    BY <1>1, <1>3, <2>4, Sizes DEF Room
  <2> QED
    BY <1>1, <1>3, <2>1, <2>3, <2>5, WriteDoes
<1>4. CASE ~Room(t) /\ ~Room(FlushTx(t))
  <2>1. PutReport(t, m) = FlushTx(t)
    BY <1>4 DEF PutReport
  <2>2. t.radio # "idle" /\ t.fifo # <<>> /\ FlushTx(t).fifo = <<Head(t.fifo)>>
    BY <1>4, FlushDoes, Sizes DEF Room
  <2>3. TxFifoSize = 1 /\ Len(t.fifo) = 1
    <3>1. Len(FlushTx(t).fifo) = 1
      BY <2>2
    <3> QED
      BY <1>1, <1>4, <3>1, Sizes DEF Room
  <2>4. t.fifo = <<Head(t.fifo)>>
    BY <1>1, <2>3
  <2> QED
    BY <1>1, <1>4, <2>1, <2>2, <2>4
<1> QED
  BY <1>2, <1>3, <1>4
-----------------------------------------------------------------------------
(* Sequences of packets and their messages *)

Msgs(s) == [i \in DOMAIN s |-> s[i].msg]
WithoutAt(s, k) == [i \in 1 .. Len(s) - 1 |-> IF i < k THEN s[i] ELSE s[i + 1]]
\* The packets of the FIFO f that the dongle has yet to receive, when it got p last
Waiting(f, p) == IF f # <<>> /\ Head(f) = p THEN Tail(f) ELSE f

LEMMA UnprocessedIs ==
  /\ Unprocessed = Msgs(rxFifo \o Waiting(tx.fifo, rxInfo))
  /\ Unprocessed' = Msgs(rxFifo' \o Waiting(tx'.fifo, rxInfo'))
BY DEF Unprocessed, Msgs, Waiting

LEMMA MsgsType ==
  ASSUME NEW s \in Seq(Packets)
  PROVE  /\ Msgs(s) \in Seq(Messages) /\ Len(Msgs(s)) = Len(s)
         /\ \A i \in DOMAIN s : Msgs(s)[i] = s[i].msg
         /\ DOMAIN Msgs(s) = DOMAIN s /\ DOMAIN s = 1 .. Len(s)
<1>1. \A i \in 1 .. Len(s) : s[i].msg \in Messages
  BY PacketParts
<1>2. DOMAIN s = 1 .. Len(s)
  OBVIOUS
<1>3. Msgs(s) = [i \in 1 .. Len(s) |-> s[i].msg]
  BY <1>2 DEF Msgs
<1>4. Msgs(s) \in Seq(Messages) /\ Len(Msgs(s)) = Len(s)
  BY <1>1, <1>3
<1> QED
  BY <1>2, <1>3, <1>4

LEMMA MsgsEmpty == Msgs(<<>>) = <<>>
<1>1. DOMAIN <<>> = {}
  OBVIOUS
<1> QED
  BY <1>1 DEF Msgs

LEMMA MsgsAppend ==
  ASSUME NEW s \in Seq(Packets), NEW p \in Packets
  PROVE  Msgs(Append(s, p)) = Append(Msgs(s), p.msg)
<1>1. Append(s, p) \in Seq(Packets) /\ Len(Append(s, p)) = Len(s) + 1
  OBVIOUS
<1>2. /\ Msgs(s) \in Seq(Messages) /\ Len(Msgs(s)) = Len(s) /\ p.msg \in Messages
      /\ Msgs(Append(s, p)) \in Seq(Messages) /\ Len(Msgs(Append(s, p))) = Len(s) + 1
  BY <1>1, MsgsType, PacketParts
<1>3. Append(Msgs(s), p.msg) \in Seq(Messages) /\ Len(Append(Msgs(s), p.msg)) = Len(s) + 1
  BY <1>2
<1>4. ASSUME NEW i \in 1 .. Len(s) + 1
      PROVE  Msgs(Append(s, p))[i] = Append(Msgs(s), p.msg)[i]
  <2>1. Msgs(Append(s, p))[i] = Append(s, p)[i].msg
    BY <1>1, MsgsType
  <2>2. CASE i = Len(s) + 1
    BY <1>2, <2>1, <2>2
  <2>3. CASE i # Len(s) + 1
    <3>1. i \in 1 .. Len(s)
      BY <2>3
    <3>2. Msgs(s)[i] = s[i].msg
      BY <3>1, MsgsType
    <3> QED
      BY <1>2, <2>1, <3>1, <3>2
  <2> QED
    BY <2>2, <2>3
<1> QED
  BY <1>2, <1>3, <1>4, SeqEqual

LEMMA SubSeqIs ==
  ASSUME NEW S, NEW s \in Seq(S), NEW n \in 0 .. Len(s)
  PROVE  /\ SubSeq(s, 1, n) \in Seq(S) /\ Len(SubSeq(s, 1, n)) = n
         /\ \A i \in 1 .. n : SubSeq(s, 1, n)[i] = s[i]
OBVIOUS

LEMMA OnlyElement ==
  ASSUME NEW S, NEW s \in Seq(S), Len(s) = 1
  PROVE  s = <<s[1]>>
OBVIOUS

LEMMA MsgsPrefix ==
  ASSUME NEW s \in Seq(Packets), NEW n \in 0 .. Len(s)
  PROVE  Msgs(SubSeq(s, 1, n)) = SubSeq(Msgs(s), 1, n)
<1> DEFINE a == SubSeq(s, 1, n)
<1>1. a \in Seq(Packets) /\ Len(a) = n /\ \A i \in 1 .. n : a[i] = s[i]
  BY SubSeqIs
<1>2. Msgs(s) \in Seq(Messages) /\ Len(Msgs(s)) = Len(s) /\ \A i \in 1 .. Len(s) : Msgs(s)[i] = s[i].msg
  BY MsgsType
<1>3. /\ SubSeq(Msgs(s), 1, n) \in Seq(Messages) /\ Len(SubSeq(Msgs(s), 1, n)) = n
      /\ \A i \in 1 .. n : SubSeq(Msgs(s), 1, n)[i] = Msgs(s)[i]
  BY <1>2, SubSeqIs
<1> HIDE DEF a
<1>4. Msgs(a) \in Seq(Messages) /\ Len(Msgs(a)) = n /\ \A i \in 1 .. n : Msgs(a)[i] = a[i].msg
  BY <1>1, MsgsType
<1>5. \A i \in 1 .. n : Msgs(a)[i] = SubSeq(Msgs(s), 1, n)[i]
  BY <1>1, <1>2, <1>3, <1>4
<1>6. Msgs(a) = SubSeq(Msgs(s), 1, n)
  BY <1>3, <1>4, <1>5, SeqEqual
<1> QED
  BY <1>6 DEF a

LEMMA WithoutIs ==
  ASSUME NEW S, NEW s \in Seq(S), NEW k \in 1 .. Len(s)
  PROVE  /\ WithoutAt(s, k) \in Seq(S) /\ Len(WithoutAt(s, k)) = Len(s) - 1
         /\ \A i \in 1 .. Len(s) - 1 : WithoutAt(s, k)[i] = IF i < k THEN s[i] ELSE s[i + 1]
<1>1. Len(s) - 1 \in Nat
  OBVIOUS
<1>2. \A i \in 1 .. Len(s) - 1 : (IF i < k THEN s[i] ELSE s[i + 1]) \in S
  OBVIOUS
<1> QED
  BY <1>1, <1>2 DEF WithoutAt

LEMMA MsgsWithout ==
  ASSUME NEW s \in Seq(Packets), NEW k \in 1 .. Len(s)
  PROVE  Msgs(WithoutAt(s, k)) = WithoutAt(Msgs(s), k)
<1>1. /\ WithoutAt(s, k) \in Seq(Packets) /\ Len(WithoutAt(s, k)) = Len(s) - 1
      /\ \A i \in 1 .. Len(s) - 1 : WithoutAt(s, k)[i] = IF i < k THEN s[i] ELSE s[i + 1]
  BY WithoutIs
<1>2. Msgs(s) \in Seq(Messages) /\ Len(Msgs(s)) = Len(s) /\ \A i \in 1 .. Len(s) : Msgs(s)[i] = s[i].msg
  BY MsgsType
<1>3. /\ WithoutAt(Msgs(s), k) \in Seq(Messages) /\ Len(WithoutAt(Msgs(s), k)) = Len(s) - 1
      /\ \A i \in 1 .. Len(s) - 1 : WithoutAt(Msgs(s), k)[i] = IF i < k THEN Msgs(s)[i] ELSE Msgs(s)[i + 1]
  BY <1>2, WithoutIs
<1>4. /\ Msgs(WithoutAt(s, k)) \in Seq(Messages) /\ Len(Msgs(WithoutAt(s, k))) = Len(s) - 1
      /\ \A i \in 1 .. Len(s) - 1 : Msgs(WithoutAt(s, k))[i] = WithoutAt(s, k)[i].msg
  BY <1>1, MsgsType
<1>5. ASSUME NEW i \in 1 .. Len(s) - 1
      PROVE  Msgs(WithoutAt(s, k))[i] = WithoutAt(Msgs(s), k)[i]
  <2>1. i \in 1 .. Len(s) /\ i + 1 \in 1 .. Len(s)
    OBVIOUS
  <2>2. Msgs(s)[i] = s[i].msg /\ Msgs(s)[i + 1] = s[i + 1].msg
    BY <1>2, <2>1
  <2>3. CASE i < k
    BY <1>1, <1>3, <1>4, <2>2, <2>3
  <2>4. CASE ~(i < k)
    BY <1>1, <1>3, <1>4, <2>2, <2>4
  <2> QED
    BY <2>3, <2>4
<1> QED
  BY <1>3, <1>4, <1>5, SeqEqual

LEMMA TailIsWithout ==
  ASSUME NEW S, NEW s \in Seq(S), s # <<>>
  PROVE  Tail(s) = WithoutAt(s, 1) /\ 1 \in 1 .. Len(s) /\ s[1] = Head(s)
<1>1. Len(s) \in Nat /\ Len(s) >= 1
  OBVIOUS
<1>2. /\ WithoutAt(s, 1) \in Seq(S) /\ Len(WithoutAt(s, 1)) = Len(s) - 1
      /\ \A i \in 1 .. Len(s) - 1 : WithoutAt(s, 1)[i] = s[i + 1]
  BY <1>1, WithoutIs
<1>3. Tail(s) \in Seq(S) /\ Len(Tail(s)) = Len(s) - 1 /\ \A i \in 1 .. Len(s) - 1 : Tail(s)[i] = s[i + 1]
  OBVIOUS
<1>4. Tail(s) = WithoutAt(s, 1)
  BY <1>2, <1>3, SeqEqual
<1> QED
  BY <1>1, <1>4
LEMMA ConcatIs ==
  ASSUME NEW S, NEW r \in Seq(S), NEW w \in Seq(S)
  PROVE  /\ r \o w \in Seq(S) /\ Len(r \o w) = Len(r) + Len(w)
         /\ \A i \in 1 .. Len(r) + Len(w) : (r \o w)[i] = IF i <= Len(r) THEN r[i] ELSE w[i - Len(r)]
OBVIOUS

LEMMA ConcatAppend ==
  ASSUME NEW S, NEW r \in Seq(S), NEW w \in Seq(S), NEW e \in S
  PROVE  r \o Append(w, e) = Append(r \o w, e)
<1>1. Append(w, e) \in Seq(S) /\ Len(Append(w, e)) = Len(w) + 1 /\ r \o w \in Seq(S) /\ Len(r \o w) = Len(r) + Len(w)
  OBVIOUS
<1>2. r \o Append(w, e) \in Seq(S) /\ Append(r \o w, e) \in Seq(S)
      /\ Len(r \o Append(w, e)) = Len(r) + Len(w) + 1 /\ Len(Append(r \o w, e)) = Len(r) + Len(w) + 1
  BY <1>1
<1>3. ASSUME NEW i \in 1 .. Len(r) + Len(w) + 1
      PROVE  (r \o Append(w, e))[i] = Append(r \o w, e)[i]
  <2>1. CASE i <= Len(r)
    BY <1>1, <2>1, ConcatIs
  <2>2. CASE i > Len(r) /\ i <= Len(r) + Len(w)
    <3>1. (r \o Append(w, e))[i] = Append(w, e)[i - Len(r)]
      BY <1>1, <2>2, ConcatIs
    <3>2. Append(w, e)[i - Len(r)] = w[i - Len(r)]
      BY <2>2
    <3>3. Append(r \o w, e)[i] = (r \o w)[i] /\ (r \o w)[i] = w[i - Len(r)]
      BY <1>1, <2>2, ConcatIs
    <3> QED
      BY <3>1, <3>2, <3>3
  <2>3. CASE i = Len(r) + Len(w) + 1
    <3>1. (r \o Append(w, e))[i] = Append(w, e)[Len(w) + 1]
      BY <1>1, <2>3, ConcatIs
    <3> QED
      BY <1>1, <2>3, <3>1
  <2> QED
    BY <2>1, <2>2, <2>3
<1> QED
  BY <1>2, <1>3, SeqEqual

LEMMA ConcatTail ==
  ASSUME NEW S, NEW r \in Seq(S), NEW w \in Seq(S), r # <<>>
  PROVE  r \o w # <<>> /\ Tail(r) \o w = Tail(r \o w) /\ Head(r \o w) = Head(r)
<1>1. Len(r) \in Nat /\ Len(r) >= 1 /\ Len(w) \in Nat
  OBVIOUS
<1>2. /\ r \o w \in Seq(S) /\ Len(r \o w) = Len(r) + Len(w)
      /\ \A i \in 1 .. Len(r) + Len(w) : (r \o w)[i] = IF i <= Len(r) THEN r[i] ELSE w[i - Len(r)]
  BY ConcatIs
<1>3. /\ Tail(r) \in Seq(S) /\ Len(Tail(r)) = Len(r) - 1
      /\ \A i \in 1 .. Len(r) - 1 : Tail(r)[i] = r[i + 1]
  OBVIOUS
<1>4. /\ Tail(r) \o w \in Seq(S) /\ Len(Tail(r) \o w) = Len(r) - 1 + Len(w)
      /\ \A i \in 1 .. Len(r) - 1 + Len(w) :
           (Tail(r) \o w)[i] = IF i <= Len(r) - 1 THEN Tail(r)[i] ELSE w[i - (Len(r) - 1)]
  BY <1>3, ConcatIs
<1>5. r \o w # <<>> /\ Head(r \o w) = Head(r)
  BY <1>1, <1>2
<1>6. /\ Tail(r \o w) \in Seq(S) /\ Len(Tail(r \o w)) = Len(r) + Len(w) - 1
      /\ \A i \in 1 .. Len(r) + Len(w) - 1 : Tail(r \o w)[i] = (r \o w)[i + 1]
  BY <1>2, <1>5
<1>7. ASSUME NEW i \in 1 .. Len(r) + Len(w) - 1
      PROVE  (Tail(r) \o w)[i] = Tail(r \o w)[i]
  <2>1. i + 1 \in 1 .. Len(r) + Len(w) /\ (i + 1 <= Len(r) <=> i <= Len(r) - 1)
        /\ i - (Len(r) - 1) = i + 1 - Len(r) /\ i \in 1 .. Len(r) - 1 + Len(w)
    BY <1>1
  <2>2. CASE i <= Len(r) - 1
    BY <1>1, <1>2, <1>3, <1>4, <1>6, <2>1, <2>2
  <2>3. CASE ~(i <= Len(r) - 1)
    BY <1>1, <1>2, <1>4, <1>6, <2>1, <2>3
  <2> QED
    BY <2>2, <2>3
<1>8. Tail(r) \o w = Tail(r \o w)
  BY <1>1, <1>4, <1>6, <1>7, SeqEqual
<1> QED
  BY <1>5, <1>8

\* A packet moves from the FIFO of the keyboard to that of the dongle
LEMMA ConcatMove ==
  ASSUME NEW S, NEW r \in Seq(S), NEW w \in Seq(S), w # <<>>
  PROVE  Append(r, Head(w)) \o Tail(w) = r \o w
<1>1. Len(w) \in Nat /\ Len(w) >= 1 /\ Len(r) \in Nat /\ Head(w) \in S
  OBVIOUS
<1>2. /\ r \o w \in Seq(S) /\ Len(r \o w) = Len(r) + Len(w)
      /\ \A i \in 1 .. Len(r) + Len(w) : (r \o w)[i] = IF i <= Len(r) THEN r[i] ELSE w[i - Len(r)]
  BY ConcatIs
<1> DEFINE a == Append(r, Head(w))
           b == Tail(w)
<1>3. /\ a \in Seq(S) /\ Len(a) = Len(r) + 1 /\ \A i \in 1 .. Len(r) : a[i] = r[i]
      /\ a[Len(r) + 1] = w[1]
  BY <1>1
<1>4. b \in Seq(S) /\ Len(b) = Len(w) - 1 /\ \A i \in 1 .. Len(w) - 1 : b[i] = w[i + 1]
  OBVIOUS
<1> HIDE DEF a, b
<1>5. /\ a \o b \in Seq(S) /\ Len(a \o b) = Len(r) + Len(w)
      /\ \A i \in 1 .. Len(r) + Len(w) : (a \o b)[i] = IF i <= Len(r) + 1 THEN a[i] ELSE b[i - (Len(r) + 1)]
  <2>1. /\ a \o b \in Seq(S) /\ Len(a \o b) = Len(a) + Len(b)
        /\ \A i \in 1 .. Len(a) + Len(b) : (a \o b)[i] = IF i <= Len(a) THEN a[i] ELSE b[i - Len(a)]
    BY <1>3, <1>4, ConcatIs
  <2>2. Len(a) + Len(b) = Len(r) + Len(w)
    BY <1>1, <1>3, <1>4
  <2> QED
    BY <1>3, <2>1, <2>2
<1>6. ASSUME NEW i \in 1 .. Len(r) + Len(w)
      PROVE  (a \o b)[i] = (r \o w)[i]
  <2>1. CASE i <= Len(r)
    BY <1>1, <1>2, <1>3, <1>5, <2>1
  <2>2. CASE i = Len(r) + 1
    BY <1>1, <1>2, <1>3, <1>5, <2>2
  <2>3. CASE ~(i <= Len(r)) /\ ~(i = Len(r) + 1)
    <3>1. i - (Len(r) + 1) \in 1 .. Len(w) - 1 /\ i - (Len(r) + 1) + 1 = i - Len(r)
      BY <1>1, <2>3
    <3>2. b[i - (Len(r) + 1)] = w[i - Len(r)]
      BY <1>4, <3>1
    <3> QED
      BY <1>1, <1>2, <1>5, <2>3, <3>2
  <2> QED
    BY <2>1, <2>2, <2>3
<1>7. a \o b = r \o w
  BY <1>2, <1>5, <1>6, SeqEqual
<1> QED
  BY <1>7 DEF a, b

LEMMA ConcatWithout ==
  ASSUME NEW S, NEW r \in Seq(S), NEW w \in Seq(S), w # <<>>
  PROVE  /\ r \o Tail(w) = WithoutAt(r \o w, Len(r) + 1)
         /\ Len(r) + 1 \in 1 .. Len(r \o w) /\ (r \o w)[Len(r) + 1] = Head(w)
<1>1. Len(w) \in Nat /\ Len(w) >= 1 /\ Len(r) \in Nat /\ Len(r) + 1 \in 1 .. Len(r) + Len(w)
  OBVIOUS
<1>2. /\ r \o w \in Seq(S) /\ Len(r \o w) = Len(r) + Len(w)
      /\ \A i \in 1 .. Len(r) + Len(w) : (r \o w)[i] = IF i <= Len(r) THEN r[i] ELSE w[i - Len(r)]
  BY ConcatIs
<1> DEFINE b == Tail(w)
           v == WithoutAt(r \o w, Len(r) + 1)
<1>4. b \in Seq(S) /\ Len(b) = Len(w) - 1 /\ \A i \in 1 .. Len(w) - 1 : b[i] = w[i + 1]
  OBVIOUS
<1>5. /\ v \in Seq(S) /\ Len(v) = Len(r) + Len(w) - 1
      /\ \A i \in 1 .. Len(r) + Len(w) - 1 :
           v[i] = IF i < Len(r) + 1 THEN (r \o w)[i] ELSE (r \o w)[i + 1]
  <2>1. Len(r) + 1 \in 1 .. Len(r \o w)
    BY <1>1, <1>2
  <2> QED
    <3> DEFINE u == r \o w
               k == Len(r) + 1
    <3>1. u \in Seq(S) /\ k \in 1 .. Len(u) /\ Len(u) = Len(r) + Len(w)
      BY <1>2, <2>1
    <3> HIDE DEF u, k
    <3>2. /\ WithoutAt(u, k) \in Seq(S) /\ Len(WithoutAt(u, k)) = Len(u) - 1
          /\ \A i \in 1 .. Len(u) - 1 : WithoutAt(u, k)[i] = IF i < k THEN u[i] ELSE u[i + 1]
      BY <3>1, WithoutIs
    <3>3. /\ WithoutAt(u, k) \in Seq(S) /\ Len(WithoutAt(u, k)) = Len(r) + Len(w) - 1
          /\ \A i \in 1 .. Len(r) + Len(w) - 1 : WithoutAt(u, k)[i] = IF i < k THEN u[i] ELSE u[i + 1]
      BY <3>1, <3>2
    <3> QED
      BY <3>3 DEF u, k
<1> HIDE DEF b, v
<1>6. /\ r \o b \in Seq(S) /\ Len(r \o b) = Len(r) + Len(w) - 1
      /\ \A i \in 1 .. Len(r) + Len(w) - 1 : (r \o b)[i] = IF i <= Len(r) THEN r[i] ELSE b[i - Len(r)]
  <2>1. /\ r \o b \in Seq(S) /\ Len(r \o b) = Len(r) + Len(b)
        /\ \A i \in 1 .. Len(r) + Len(b) : (r \o b)[i] = IF i <= Len(r) THEN r[i] ELSE b[i - Len(r)]
    BY <1>4, ConcatIs
  <2>2. Len(r) + Len(b) = Len(r) + Len(w) - 1
    BY <1>1, <1>4
  <2> QED
    BY <2>1, <2>2
<1>7. ASSUME NEW i \in 1 .. Len(r) + Len(w) - 1
      PROVE  (r \o b)[i] = v[i]
  <2>1. CASE i <= Len(r)
    BY <1>1, <1>2, <1>5, <1>6, <2>1
  <2>2. CASE ~(i <= Len(r))
    <3>1. i - Len(r) \in 1 .. Len(w) - 1 /\ i - Len(r) + 1 = i + 1 - Len(r)
          /\ i + 1 \in 1 .. Len(r) + Len(w) /\ ~(i + 1 <= Len(r)) /\ ~(i < Len(r) + 1)
      BY <1>1, <2>2
    <3>2. b[i - Len(r)] = w[i + 1 - Len(r)]
      BY <1>4, <3>1
    <3>3. (r \o w)[i + 1] = w[i + 1 - Len(r)]
      BY <1>2, <3>1
    <3> QED
      BY <1>5, <1>6, <2>2, <3>1, <3>2, <3>3
  <2> QED
    BY <2>1, <2>2
<1>8. r \o b = v
  BY <1>5, <1>6, <1>7, SeqEqual
<1>9. (r \o w)[Len(r) + 1] = Head(w)
  BY <1>1, <1>2
<1> QED
  BY <1>1, <1>2, <1>8, <1>9 DEF b, v

LEMMA ConcatPrefix ==
  ASSUME NEW S, NEW r \in Seq(S), NEW w \in Seq(S), NEW n \in 0 .. Len(w)
  PROVE  /\ r \o SubSeq(w, 1, n) = SubSeq(r \o w, 1, Len(r) + n)
         /\ Len(r) + n \in 0 .. Len(r \o w)
         /\ \A k \in Len(r) + n + 1 .. Len(r \o w) :
              k - Len(r) \in n + 1 .. Len(w) /\ (r \o w)[k] = w[k - Len(r)]
<1>1. Len(w) \in Nat /\ Len(r) \in Nat /\ Len(r) + n \in 0 .. Len(r) + Len(w)
  OBVIOUS
<1>2. /\ r \o w \in Seq(S) /\ Len(r \o w) = Len(r) + Len(w)
      /\ \A i \in 1 .. Len(r) + Len(w) : (r \o w)[i] = IF i <= Len(r) THEN r[i] ELSE w[i - Len(r)]
  BY ConcatIs
<1> DEFINE b == SubSeq(w, 1, n)
           v == SubSeq(r \o w, 1, Len(r) + n)
<1>4. b \in Seq(S) /\ Len(b) = n /\ \A i \in 1 .. n : b[i] = w[i]
  BY SubSeqIs
<1>5. v \in Seq(S) /\ Len(v) = Len(r) + n /\ \A i \in 1 .. Len(r) + n : v[i] = (r \o w)[i]
  BY <1>1, <1>2, SubSeqIs
<1> HIDE DEF b, v
<1>6. /\ r \o b \in Seq(S) /\ Len(r \o b) = Len(r) + n
      /\ \A i \in 1 .. Len(r) + n : (r \o b)[i] = IF i <= Len(r) THEN r[i] ELSE b[i - Len(r)]
  <2>1. /\ r \o b \in Seq(S) /\ Len(r \o b) = Len(r) + Len(b)
        /\ \A i \in 1 .. Len(r) + Len(b) : (r \o b)[i] = IF i <= Len(r) THEN r[i] ELSE b[i - Len(r)]
    BY <1>4, ConcatIs
  <2> QED
    BY <1>4, <2>1
<1>7. ASSUME NEW i \in 1 .. Len(r) + n
      PROVE  (r \o b)[i] = v[i]
  <2>1. i \in 1 .. Len(r) + Len(w)
    BY <1>1
  <2>2. CASE i <= Len(r)
    BY <1>2, <1>5, <1>6, <2>1, <2>2
  <2>3. CASE ~(i <= Len(r))
    <3>1. i - Len(r) \in 1 .. n /\ ~(i <= Len(r))
      BY <1>1, <2>3
    <3> QED
      BY <1>2, <1>4, <1>5, <1>6, <2>1, <3>1
  <2> QED
    BY <2>2, <2>3
<1>8. r \o b = v
  BY <1>5, <1>6, <1>7, SeqEqual
<1>9. ASSUME NEW k \in Len(r) + n + 1 .. Len(r) + Len(w)
      PROVE  k - Len(r) \in n + 1 .. Len(w) /\ (r \o w)[k] = w[k - Len(r)]
  <2>1. k \in 1 .. Len(r) + Len(w) /\ ~(k <= Len(r)) /\ k - Len(r) \in n + 1 .. Len(w)
    BY <1>1
  <2> QED
    BY <1>2, <2>1
<1> QED
  BY <1>1, <1>2, <1>8, <1>9 DEF b, v
-----------------------------------------------------------------------------
(* What a step may do to the messages under way *)

Kept(u, v) ==
  \/ v = u
  \/ \E k \in 1 .. Len(u) : v = WithoutAt(u, k)
  \/ \E n \in 0 .. Len(u) : v = SubSeq(u, 1, n)
Grown(u, v) == \E n \in 0 .. Len(u), m \in Messages : v = Append(SubSeq(u, 1, n), m)

LEMMA LeftPrefix ==
  ASSUME NEW S, NEW u \in Seq(S), NEW n \in 0 .. Len(u)
  PROVE  Fifo!IsLeftOf(SubSeq(u, 1, n), u)
<1> DEFINE v == SubSeq(u, 1, n)
           at == [i \in 1 .. n |-> i]
<1>1. v \in Seq(S) /\ Len(v) = n /\ \A i \in 1 .. n : v[i] = u[i]
  BY SubSeqIs
<1>2. DOMAIN u = 1 .. Len(u) /\ Len(u) \in Nat
  OBVIOUS
<1> HIDE DEF v
<1>3. DOMAIN v = 1 .. n
  BY <1>1
<1>4. at \in [DOMAIN v -> DOMAIN u]
  BY <1>2, <1>3
<1>5. \A i \in DOMAIN v : v[i] = u[at[i]] /\ \A j \in 1 .. i - 1 : at[j] < at[i]
  BY <1>1, <1>3
<1> QED
  BY <1>4, <1>5 DEF Fifo!IsLeftOf, v

LEMMA LeftWithout ==
  ASSUME NEW S, NEW u \in Seq(S), NEW k \in 1 .. Len(u)
  PROVE  Fifo!IsLeftOf(WithoutAt(u, k), u)
<1> DEFINE v == WithoutAt(u, k)
           at == [i \in 1 .. Len(u) - 1 |-> IF i < k THEN i ELSE i + 1]
<1>1. v \in Seq(S) /\ Len(v) = Len(u) - 1
      /\ \A i \in 1 .. Len(u) - 1 : v[i] = IF i < k THEN u[i] ELSE u[i + 1]
  BY WithoutIs
<1>2. DOMAIN u = 1 .. Len(u) /\ Len(u) \in Nat
  OBVIOUS
<1> HIDE DEF v
<1>3. DOMAIN v = 1 .. Len(u) - 1
  BY <1>1
<1>4. at \in [DOMAIN v -> DOMAIN u]
  BY <1>2, <1>3
<1>5. \A i \in DOMAIN v : v[i] = u[at[i]]
  BY <1>1, <1>3
<1>6. \A i \in DOMAIN v : \A j \in 1 .. i - 1 : at[j] < at[i]
  BY <1>2, <1>3
<1> QED
  BY <1>4, <1>5, <1>6 DEF Fifo!IsLeftOf, v

LEMMA KeptLoses ==
  ASSUME NEW S, NEW u \in Seq(S), NEW v, Kept(u, v)
  PROVE  Fifo!IsLeftOf(v, u) /\ (v = u \/ Len(v) < Len(u))
<1>1. SubSeq(u, 1, Len(u)) = u
  OBVIOUS
<1>2. Fifo!IsLeftOf(u, u)
  <2>1. Len(u) \in 0 .. Len(u)
    OBVIOUS
  <2>2. Fifo!IsLeftOf(SubSeq(u, 1, Len(u)), u)
    BY <2>1, LeftPrefix
  <2> QED
    BY <1>1, <2>2
<1>3. CASE v = u
  BY <1>2, <1>3
<1>4. CASE \E k \in 1 .. Len(u) : v = WithoutAt(u, k)
  <2>1. PICK k \in 1 .. Len(u) : v = WithoutAt(u, k)
    BY <1>4
  <2>2. Len(v) < Len(u)
    BY <2>1, WithoutIs
  <2> QED
    BY <2>1, <2>2, LeftWithout
<1>5. CASE \E n \in 0 .. Len(u) : v = SubSeq(u, 1, n)
  <2>1. PICK n \in 0 .. Len(u) : v = SubSeq(u, 1, n)
    BY <1>5
  <2>2. n = Len(u) \/ Len(v) < Len(u)
    BY <2>1, SubSeqIs
  <2> QED
    BY <1>1, <2>1, <2>2, LeftPrefix
<1> QED
  BY <1>3, <1>4, <1>5 DEF Kept

LEMMA GrownPuts ==
  ASSUME NEW u \in Seq(Messages), NEW v, Grown(u, v)
  PROVE  v # <<>> /\ v[Len(v)] \in Messages /\ Fifo!IsLeftOf(SubSeq(v, 1, Len(v) - 1), u)
<1>1. PICK n \in 0 .. Len(u), m \in Messages : v = Append(SubSeq(u, 1, n), m)
  BY DEF Grown
<1> DEFINE w == SubSeq(u, 1, n)
<1>2. w \in Seq(Messages) /\ Len(w) = n
  BY SubSeqIs
<1>3. Fifo!IsLeftOf(w, u)
  BY LeftPrefix
<1> HIDE DEF w
<1>4. v = Append(w, m)
  BY <1>1 DEF w
<1>5. v # <<>> /\ Len(v) = n + 1 /\ v[n + 1] = m /\ SubSeq(v, 1, n) = w
  BY <1>2, <1>4
<1>6. Len(v) - 1 = n
  BY <1>5
<1>7. v[Len(v)] \in Messages /\ SubSeq(v, 1, Len(v) - 1) = w
  BY <1>5, <1>6
<1> QED
  BY <1>3, <1>5, <1>7

\* What a host will show is not changed by what is lost, unless that is what it would show
LEMMA ShowsWithout ==
  ASSUME NEW S, NEW u \in Seq(S), NEW k \in 1 .. Len(u), NEW t, NEW h, NEW b,
         Shows(u, t, h, b), ~(u[k].type = t /\ u[k].body = b)
  PROVE  Shows(WithoutAt(u, k), t, h, b)
<1> DEFINE v == WithoutAt(u, k)
<1>1. v \in Seq(S) /\ Len(v) = Len(u) - 1 /\ Len(u) \in Nat
      /\ \A i \in 1 .. Len(u) - 1 : v[i] = IF i < k THEN u[i] ELSE u[i + 1]
  BY WithoutIs
<1>2. DOMAIN u = 1 .. Len(u)
  OBVIOUS
<1> HIDE DEF v
<1>3. DOMAIN v = 1 .. Len(u) - 1
  BY <1>1
<1>4. CASE \E i \in DOMAIN u : /\ u[i].type = t /\ u[i].body = b
                               /\ \A j \in DOMAIN u : j > i => u[j].type # t
  <2>1. PICK i \in 1 .. Len(u) : /\ u[i].type = t /\ u[i].body = b
                                 /\ \A j \in 1 .. Len(u) : j > i => u[j].type # t
    BY <1>2, <1>4
  <2>2. i # k
    BY <2>1
  <2>3. CASE i < k
    <3>1. i \in DOMAIN v /\ v[i] = u[i]
      BY <1>1, <1>3, <2>3
    <3>2. ASSUME NEW j \in DOMAIN v, j > i
          PROVE  v[j].type # t
      <4>1. j \in 1 .. Len(u) /\ j + 1 \in 1 .. Len(u) /\ j + 1 > i
        BY <1>3, <3>2
      <4> QED
        BY <1>1, <1>3, <2>1, <3>2, <4>1
    <3> QED
      BY <2>1, <3>1, <3>2 DEF Shows, v
  <2>4. CASE ~(i < k)
    <3>1. i - 1 \in DOMAIN v /\ v[i - 1] = u[i]
      <4>1. i - 1 \in 1 .. Len(u) - 1 /\ ~(i - 1 < k) /\ i - 1 + 1 = i
        BY <1>1, <2>2, <2>4
      <4> QED
        BY <1>1, <1>3, <4>1
    <3>2. ASSUME NEW j \in DOMAIN v, j > i - 1
          PROVE  v[j].type # t
      <4>1. j + 1 \in 1 .. Len(u) /\ j + 1 > i /\ ~(j < k) /\ j \in 1 .. Len(u) - 1
        BY <1>3, <2>2, <2>4, <3>2
      <4> QED
        BY <1>1, <2>1, <4>1
    <3> QED
      BY <2>1, <3>1, <3>2 DEF Shows, v
  <2> QED
    BY <2>3, <2>4
<1>5. CASE h = b /\ \A i \in DOMAIN u : u[i].type # t
  <2>1. ASSUME NEW i \in DOMAIN v
        PROVE  v[i].type # t
    <3>1. i \in DOMAIN u /\ i + 1 \in DOMAIN u
      BY <1>2, <1>3
    <3> QED
      BY <1>1, <1>3, <1>5, <3>1
  <2> QED
    BY <1>5, <2>1 DEF Shows, v
<1> QED
  BY <1>4, <1>5 DEF Shows

LEMMA ShowsPrefix ==
  ASSUME NEW S, NEW u \in Seq(S), NEW n \in 0 .. Len(u), NEW t, NEW h, NEW b,
         Shows(u, t, h, b), \A k \in n + 1 .. Len(u) : ~(u[k].type = t /\ u[k].body = b)
  PROVE  Shows(SubSeq(u, 1, n), t, h, b)
<1> DEFINE v == SubSeq(u, 1, n)
<1>1. v \in Seq(S) /\ Len(v) = n /\ \A i \in 1 .. n : v[i] = u[i]
  BY SubSeqIs
<1>2. DOMAIN u = 1 .. Len(u)
  OBVIOUS
<1> HIDE DEF v
<1>3. DOMAIN v = 1 .. n
  BY <1>1
<1>4. CASE \E i \in DOMAIN u : /\ u[i].type = t /\ u[i].body = b
                               /\ \A j \in DOMAIN u : j > i => u[j].type # t
  <2>1. PICK i \in 1 .. Len(u) : /\ u[i].type = t /\ u[i].body = b
                                 /\ \A j \in 1 .. Len(u) : j > i => u[j].type # t
    BY <1>2, <1>4
  <2>2. i \in 1 .. n
    BY <2>1
  <2>3. i \in DOMAIN v /\ v[i] = u[i]
    BY <1>1, <1>3, <2>2
  <2>4. ASSUME NEW j \in DOMAIN v, j > i
        PROVE  v[j].type # t
    <3>1. j \in 1 .. n /\ j \in 1 .. Len(u)
      BY <1>3
    <3> QED
      BY <1>1, <2>1, <2>4, <3>1
  <2> QED
    BY <2>1, <2>3, <2>4 DEF Shows, v
<1>5. CASE h = b /\ \A i \in DOMAIN u : u[i].type # t
  BY <1>1, <1>2, <1>3, <1>5 DEF Shows, v
<1> QED
  BY <1>4, <1>5 DEF Shows

LEMMA ShowsAppend ==
  ASSUME NEW S, NEW u \in Seq(S), NEW m \in S, NEW t, NEW h, NEW b,
         IF m.type = t THEN m.body = b ELSE Shows(u, t, h, b)
  PROVE  Shows(Append(u, m), t, h, b)
<1> DEFINE v == Append(u, m)
<1>1. v \in Seq(S) /\ Len(v) = Len(u) + 1 /\ Len(u) \in Nat
      /\ v[Len(u) + 1] = m /\ \A i \in 1 .. Len(u) : v[i] = u[i]
  OBVIOUS
<1>2. DOMAIN u = 1 .. Len(u)
  OBVIOUS
<1> HIDE DEF v
<1>3. DOMAIN v = 1 .. Len(u) + 1
  BY <1>1
<1>4. CASE m.type = t
  <2>1. Len(u) + 1 \in DOMAIN v /\ \A j \in DOMAIN v : ~(j > Len(u) + 1)
    BY <1>1, <1>3
  <2> QED
    BY <1>1, <1>4, <2>1 DEF Shows, v
<1>5. CASE m.type # t
  <2>0. \A j \in DOMAIN v : j = Len(u) + 1 \/ j \in DOMAIN u
    BY <1>1, <1>2, <1>3
  <2>1. CASE \E i \in DOMAIN u : /\ u[i].type = t /\ u[i].body = b
                                 /\ \A j \in DOMAIN u : j > i => u[j].type # t
    <3>1. PICK i \in DOMAIN u : /\ u[i].type = t /\ u[i].body = b
                                /\ \A j \in DOMAIN u : j > i => u[j].type # t
      BY <2>1
    <3>2. i \in DOMAIN v /\ v[i] = u[i]
      BY <1>1, <1>2, <1>3
    <3>3. \A j \in DOMAIN v : j > i => v[j].type # t
      BY <1>1, <1>2, <1>5, <2>0, <3>1
    <3> QED
      BY <3>1, <3>2, <3>3 DEF Shows, v
  <2>2. CASE h = b /\ \A i \in DOMAIN u : u[i].type # t
    <3>1. \A i \in DOMAIN v : v[i].type # t
      BY <1>1, <1>2, <1>5, <2>0, <2>2
    <3> QED
      BY <2>2, <3>1 DEF Shows, v
  <2> QED
    BY <1>5, <2>1, <2>2 DEF Shows
<1> QED
  BY <1>4, <1>5

\* The host is told the message at the head
LEMMA ShowsTail ==
  ASSUME NEW S, NEW u \in Seq(S), u # <<>>, NEW t, NEW h, NEW b, Shows(u, t, h, b)
  PROVE  Shows(Tail(u), t, IF u[1].type = t THEN u[1].body ELSE h, b)
<1> DEFINE g == IF u[1].type = t THEN u[1].body ELSE h
<1>1. Tail(u) = WithoutAt(u, 1) /\ 1 \in 1 .. Len(u) /\ DOMAIN u = 1 .. Len(u) /\ Len(u) \in Nat
  BY TailIsWithout
<1>2. CASE u[1].type = t /\ \A j \in DOMAIN u : j > 1 => u[j].type # t
  <2>1. u[1].body = b
    BY <1>1, <1>2 DEF Shows
  <2>2. Tail(u) \in Seq(S) /\ Len(Tail(u)) = Len(u) - 1 /\ \A i \in 1 .. Len(u) - 1 : Tail(u)[i] = u[i + 1]
    OBVIOUS
  <2>3. \A i \in 1 .. Len(u) - 1 : i + 1 \in DOMAIN u /\ i + 1 > 1
    BY <1>1
  <2>4. DOMAIN Tail(u) = 1 .. Len(u) - 1
    BY <2>2
  <2>5. \A i \in DOMAIN Tail(u) : Tail(u)[i].type # t
    BY <1>2, <2>2, <2>3, <2>4
  <2> QED
    BY <1>2, <2>1, <2>5 DEF Shows
<1>3. CASE u[1].type # t
  BY <1>1, <1>3, ShowsWithout
<1>4. CASE u[1].type = t /\ \E j \in DOMAIN u : j > 1 /\ u[j].type = t
  <2>1. PICK j \in 1 .. Len(u) : j > 1 /\ u[j].type = t
    BY <1>1, <1>4
  <2>2. PICK i \in 1 .. Len(u) : /\ u[i].type = t /\ u[i].body = b
                                 /\ \A l \in 1 .. Len(u) : l > i => u[l].type # t
    BY <1>1, <1>4 DEF Shows
  <2>3. i > 1
    BY <2>1, <2>2
  <2>4. Tail(u) \in Seq(S) /\ Len(Tail(u)) = Len(u) - 1 /\ \A l \in 1 .. Len(u) - 1 : Tail(u)[l] = u[l + 1]
    OBVIOUS
  <2>5. DOMAIN Tail(u) = 1 .. Len(u) - 1
    BY <2>4
  <2>6. i - 1 \in DOMAIN Tail(u) /\ Tail(u)[i - 1] = u[i]
    <3>1. i - 1 \in 1 .. Len(u) - 1 /\ i - 1 + 1 = i
      BY <2>3
    <3> QED
      BY <2>4, <2>5, <3>1
  <2>7. ASSUME NEW l \in DOMAIN Tail(u), l > i - 1
        PROVE  Tail(u)[l].type # t
    <3>1. l \in 1 .. Len(u) - 1 /\ l + 1 \in 1 .. Len(u) /\ l + 1 > i
      BY <1>1, <2>5, <2>7
    <3> QED
      BY <2>2, <2>4, <3>1
  <2> QED
    BY <2>2, <2>6, <2>7 DEF Shows
<1> QED
  BY <1>2, <1>3, <1>4
-----------------------------------------------------------------------------
(* The order in which packets were written *)

LEMMA BeforeOrder ==
  ASSUME NEW m, NEW n, NEW o,
         m.session \in Nat, m.counter \in Nat, n.session \in Nat, n.counter \in Nat,
         o.session \in Nat, o.counter \in Nat
  PROVE  /\ ~Before(m, m)
         /\ Before(m, n) => ~Before(n, m) /\ m # n
         /\ Before(m, n) /\ Before(n, o) => Before(m, o)
         /\ ~Before(n, m) /\ Before(n, o) => Before(m, o)
         /\ Before(m, n) /\ ~Before(o, n) => Before(m, o)
BY DEF Before

LEMMA NowType ==
  ASSUME TypeInv
  PROVE  Now.session \in Nat /\ Now.counter \in Nat
BY Sizes DEF TypeInv, Now, Sessions

LEMMA SortedDistinct ==
  ASSUME NEW f \in Seq(Packets), Sorted(f), NEW i \in DOMAIN f, NEW j \in DOMAIN f, i # j
  PROVE  f[i].msg # f[j].msg
<1>1. i \in Int /\ j \in Int
  OBVIOUS
<1>2. f[i] \in Packets /\ f[j] \in Packets
  OBVIOUS
<1>3. Before(f[i].msg, f[j].msg) \/ Before(f[j].msg, f[i].msg)
  BY <1>1 DEF Sorted
<1> QED
  BY <1>2, <1>3, PacketParts, BeforeOrder

LEMMA OrderPrefix ==
  ASSUME NEW f, NEW g, NEW p, NEW n, InOrder(f, p, n),
         \A i \in DOMAIN g : i \in DOMAIN f /\ g[i] = f[i]
  PROVE  InOrder(g, p, n)
<1>1. \A i \in DOMAIN g : Before(g[i].msg, n)
  BY DEF InOrder
<1>2. Sorted(g)
  BY DEF InOrder, Sorted
<1>3. p # Nothing => /\ Before(p.msg, n)
                     /\ \A i \in DOMAIN g : Before(p.msg, g[i].msg) \/ (i = 1 /\ g[1] = p)
  BY DEF InOrder
<1> QED
  BY <1>1, <1>2, <1>3 DEF InOrder

LEMMA OrderLater ==
  ASSUME NEW f \in Seq(Packets), NEW p \in Packets \cup {Nothing}, NEW n, NEW o,
         n.session \in Nat, n.counter \in Nat, o.session \in Nat, o.counter \in Nat,
         InOrder(f, p, n), ~Before(o, n)
  PROVE  InOrder(f, p, o)
<1>1. ASSUME NEW q \in Packets, Before(q.msg, n)
      PROVE  Before(q.msg, o)
  BY <1>1, PacketParts, BeforeOrder
<1>2. \A i \in DOMAIN f : f[i] \in Packets
  OBVIOUS
<1> QED
  BY <1>1, <1>2 DEF InOrder

\* A packet is written at n, the next one will be at o
LEMMA OrderAppend ==
  ASSUME NEW f \in Seq(Packets), NEW p \in Packets \cup {Nothing}, NEW n, NEW o, NEW q \in Packets,
         n.session \in Nat, n.counter \in Nat, o.session \in Nat, o.counter \in Nat,
         InOrder(f, p, n), q.msg.session = n.session, q.msg.counter = n.counter, Before(n, o)
  PROVE  InOrder(Append(f, q), p, o) /\ q # p
<1> DEFINE g == Append(f, q)
<1>1. /\ g \in Seq(Packets) /\ Len(g) = Len(f) + 1 /\ Len(f) \in Nat /\ DOMAIN f = 1 .. Len(f)
      /\ g[Len(f) + 1] = q /\ \A i \in 1 .. Len(f) : g[i] = f[i]
  OBVIOUS
<1> HIDE DEF g
<1>2. DOMAIN g = 1 .. Len(f) + 1
  BY <1>1
<1>3. ~Before(o, n)
  BY BeforeOrder
<1>4. InOrder(f, p, o)
  BY <1>3, OrderLater
<1>5. ASSUME NEW m, Before(m, n)
      PROVE  Before(m, q.msg)
  BY <1>5 DEF Before
<1>6. Before(q.msg, o)
  BY DEF Before
<1>7. \A i \in DOMAIN g : Before(g[i].msg, o)
  BY <1>1, <1>2, <1>4, <1>6 DEF InOrder
<1>8. Sorted(g)
  <2>1. ASSUME NEW i \in DOMAIN g, NEW j \in DOMAIN g, i < j
        PROVE  Before(g[i].msg, g[j].msg)
    <3>1. i \in 1 .. Len(f) /\ g[i] = f[i]
      BY <1>1, <1>2, <2>1
    <3>2. CASE j = Len(f) + 1
      BY <1>1, <1>5, <3>1, <3>2 DEF InOrder
    <3>3. CASE j # Len(f) + 1
      <4>1. j \in 1 .. Len(f) /\ g[j] = f[j]
        BY <1>1, <1>2, <3>3
      <4> QED
        BY <1>1, <2>1, <3>1, <4>1 DEF InOrder, Sorted
    <3> QED
      BY <3>2, <3>3
  <2> QED
    BY <2>1 DEF Sorted
<1>9. ASSUME p # Nothing
      PROVE  /\ Before(p.msg, o) /\ q # p
             /\ \A i \in DOMAIN g : Before(p.msg, g[i].msg) \/ (i = 1 /\ g[1] = p)
  <2>1. Before(p.msg, n) /\ Before(p.msg, q.msg) /\ Before(p.msg, o)
    BY <1>4, <1>5, <1>9 DEF InOrder
  <2>2. q # p
    BY <1>9, <2>1, PacketParts, BeforeOrder
  <2>3. ASSUME NEW i \in DOMAIN g
        PROVE  Before(p.msg, g[i].msg) \/ (i = 1 /\ g[1] = p)
    <3>1. CASE i = Len(f) + 1
      BY <1>1, <2>1, <3>1
    <3>2. CASE i # Len(f) + 1
      <4>1. i \in 1 .. Len(f) /\ g[i] = f[i]
        BY <1>1, <1>2, <3>2
      <4>2. Before(p.msg, f[i].msg) \/ (i = 1 /\ f[1] = p)
        BY <1>1, <1>9, <4>1 DEF InOrder
      <4> QED
        BY <4>1, <4>2
    <3> QED
      BY <3>1, <3>2
  <2> QED
    BY <2>1, <2>2, <2>3
<1>10. InOrder(g, p, o)
  BY <1>7, <1>8, <1>9 DEF InOrder
<1>11. q # p
  BY <1>9, PacketParts
<1> QED
  BY <1>10, <1>11 DEF g

LEMMA OrderTail ==
  ASSUME NEW f \in Seq(Packets), f # <<>>, NEW p \in Packets \cup {Nothing}, NEW n, InOrder(f, p, n)
  PROVE  InOrder(Tail(f), p, n) /\ (Tail(f) = <<>> \/ Tail(f)[1] # p)
<1> DEFINE g == Tail(f)
<1>1. /\ g \in Seq(Packets) /\ Len(g) = Len(f) - 1 /\ Len(f) \in Nat /\ DOMAIN f = 1 .. Len(f)
      /\ \A i \in 1 .. Len(f) - 1 : g[i] = f[i + 1] /\ i + 1 \in DOMAIN f /\ i + 1 # 1 /\ f[i + 1] \in Packets
  OBVIOUS
<1> HIDE DEF g
<1>2. DOMAIN g = 1 .. Len(f) - 1
  BY <1>1
<1>3. \A i \in DOMAIN g : Before(g[i].msg, n)
  BY <1>1, <1>2 DEF InOrder
<1>4. ASSUME NEW i \in DOMAIN g, NEW j \in DOMAIN g, i < j
      PROVE  Before(g[i].msg, g[j].msg)
  <2>1. i + 1 < j + 1
    BY <1>2, <1>4
  <2> QED
    BY <1>1, <1>2, <2>1 DEF InOrder, Sorted
<1>5. ASSUME p # Nothing, NEW i \in DOMAIN g
      PROVE  Before(p.msg, g[i].msg) /\ g[i] # p
  <2>1. Before(p.msg, g[i].msg) /\ g[i] \in Packets
    BY <1>1, <1>2, <1>5 DEF InOrder
  <2> QED
    BY <1>5, <2>1, PacketParts, BeforeOrder
<1>6. g = <<>> \/ g[1] # p
  <2>1. ASSUME g # <<>> PROVE g[1] # p
    <3>1. 1 \in DOMAIN g /\ g[1] \in Packets
      BY <1>1, <2>1
    <3> QED
      BY <1>5, <3>1, PacketParts
  <2> QED
    BY <2>1
<1>7. InOrder(g, p, n)
  BY <1>3, <1>4, <1>5 DEF InOrder, Sorted
<1> QED
  BY <1>6, <1>7 DEF g

LEMMA OrderHeard ==
  ASSUME NEW f \in Seq(Packets), f # <<>>, NEW p, NEW n, InOrder(f, p, n)
  PROVE  InOrder(f, f[1], n)
<1>1. DOMAIN f = 1 .. Len(f) /\ Len(f) \in Nat /\ 1 \in DOMAIN f
  OBVIOUS
<1>2. \A i \in DOMAIN f : i = 1 \/ Before(f[1].msg, f[i].msg)
  BY <1>1 DEF InOrder, Sorted
<1> QED
  BY <1>1, <1>2 DEF InOrder
-----------------------------------------------------------------------------
(* What FIFO and radio make of the messages under way *)

LEMMA WaitingType ==
  ASSUME NEW f \in Seq(Packets), NEW p
  PROVE  Waiting(f, p) \in Seq(Packets)
BY DEF Waiting

LEMMA WaitingAppend ==
  ASSUME NEW f \in Seq(Packets), NEW p, NEW q \in Packets, q # p
  PROVE  Waiting(Append(f, q), p) = Append(Waiting(f, p), q)
<1>1. Append(f, q) # <<>> /\ Append(f, q) \in Seq(Packets)
  BY AppendProperties
<1>2. CASE f = <<>>
  BY <1>1, <1>2 DEF Waiting
<1>3. CASE f # <<>>
  <2>1. Head(Append(f, q)) = Head(f) /\ Tail(Append(f, q)) = Append(Tail(f), q)
    BY <1>3
  <2> QED
    BY <1>1, <1>3, <2>1 DEF Waiting
<1> QED
  BY <1>2, <1>3

\* The packet at the head leaves the FIFO
LEMMA WaitingTail ==
  ASSUME NEW f \in Seq(Packets), f # <<>>, NEW p \in Packets \cup {Nothing}, NEW n, InOrder(f, p, n)
  PROVE  /\ Waiting(Tail(f), p) = Tail(f)
         /\ Waiting(f, p) = IF Head(f) = p THEN Tail(f) ELSE f
BY OrderTail DEF Waiting

LEMMA WaitingHeard ==
  ASSUME NEW f \in Seq(Packets), f # <<>>
  PROVE  Waiting(f, Head(f)) = Tail(f)
BY DEF Waiting

\* g keeps of the FIFO f what it keeps of what waits in f; nothing else equals what it keeps
Cuts(f, g, p) ==
  \E n \in 0 .. Len(Waiting(f, p)) :
    /\ Waiting(g, p) = SubSeq(Waiting(f, p), 1, n)
    /\ \A k \in n + 1 .. Len(Waiting(f, p)) :
         \E i \in DOMAIN f : Waiting(f, p)[k] = f[i] /\ f[i].msg \notin MessagesOf(g)

LEMMA WaitingFlushed ==
  ASSUME NEW f \in Seq(Packets), Sorted(f), NEW p \in Packets \cup {Nothing},
         NEW g \in Seq(Packets), g = <<>> \/ g = <<Head(f)>> \/ g = f, g # <<>> => f # <<>>
  PROVE  Cuts(f, g, p)
<1> DEFINE w == Waiting(f, p)
<1>1. w \in Seq(Packets) /\ Len(w) \in Nat
  BY WaitingType
<1>2. \A k \in 1 .. Len(w) : \E i \in DOMAIN f : w[k] = f[i] /\ (i > k \/ (w = f /\ i = k))
  <2>1. CASE f # <<>> /\ Head(f) = p
    BY <2>1 DEF Waiting
  <2>2. CASE ~(f # <<>> /\ Head(f) = p)
    BY <2>2 DEF Waiting
  <2> QED
    BY <2>1, <2>2
<1>3. CASE g = <<>>
  <2>1. Waiting(g, p) = <<>> /\ SubSeq(w, 1, 0) = <<>> /\ 0 \in 0 .. Len(w)
    BY <1>1, <1>3 DEF Waiting
  <2>2. MessagesOf(g) = {}
    BY <1>3 DEF MessagesOf
  <2> QED
    BY <1>2, <2>1, <2>2 DEF Cuts
<1>4. CASE g = f
  <2>1. Waiting(g, p) = SubSeq(w, 1, Len(w)) /\ Len(w) \in 0 .. Len(w)
    BY <1>1, <1>4
  <2>2. \A k \in Len(w) + 1 .. Len(w) : FALSE
    BY <1>1
  <2> QED
    BY <2>1, <2>2 DEF Cuts
<1>5. CASE g # <<>> /\ g = <<Head(f)>>
  <2>0. f # <<>> /\ Head(f) = f[1] /\ DOMAIN f = 1 .. Len(f) /\ 1 \in DOMAIN f
    BY <1>5
  <2>1. MessagesOf(g) = {f[1].msg}
    BY <1>5, <2>0 DEF MessagesOf
  <2>2. ASSUME NEW i \in DOMAIN f, i # 1
        PROVE  f[i].msg \notin MessagesOf(g)
    BY <2>0, <2>1, <2>2, SortedDistinct
  <2>3. CASE Head(f) = p
    <3>1. w = Tail(f) /\ Waiting(g, p) = <<>>
      BY <1>5, <2>0, <2>3 DEF Waiting
    <3>2. \A k \in 1 .. Len(w) : \E i \in DOMAIN f : w[k] = f[i] /\ i # 1
      BY <2>0, <3>1
    <3>3. SubSeq(w, 1, 0) = <<>> /\ 0 \in 0 .. Len(w)
      BY <1>1
    <3>4. \A k \in 0 + 1 .. Len(w) : \E i \in DOMAIN f : w[k] = f[i] /\ f[i].msg \notin MessagesOf(g)
      BY <2>2, <3>2
    <3>5. Waiting(g, p) = SubSeq(w, 1, 0)
      BY <3>1, <3>3
    <3> HIDE DEF w
    <3>6. \E n \in 0 .. Len(w) :
            /\ Waiting(g, p) = SubSeq(w, 1, n)
            /\ \A k \in n + 1 .. Len(w) : \E i \in DOMAIN f : w[k] = f[i] /\ f[i].msg \notin MessagesOf(g)
      BY <3>3, <3>4, <3>5
    <3> QED
      BY <3>6 DEF w, Cuts
  <2>4. CASE Head(f) # p
    <3>1. w = f /\ Waiting(g, p) = <<f[1]>>
      BY <1>5, <2>0, <2>4 DEF Waiting
    <3>2. SubSeq(f, 1, 1) = <<f[1]>> /\ 1 \in 0 .. Len(f)
      <4>1. Len(f) \in Nat /\ Len(f) >= 1 /\ f[1] \in Packets
        BY <2>0
      <4>2. /\ SubSeq(f, 1, 1) \in Seq(Packets) /\ Len(SubSeq(f, 1, 1)) = 1
            /\ SubSeq(f, 1, 1)[1] = f[1]
        BY <4>1, SubSeqIs
      <4>3. SubSeq(f, 1, 1) = <<f[1]>>
        BY <4>2, OnlyElement
      <4> QED
        BY <4>1, <4>3
    <3>3. \A k \in 1 + 1 .. Len(f) : k \in DOMAIN f /\ k # 1
      BY <2>0
    <3> QED
      BY <2>2, <3>1, <3>2, <3>3 DEF Cuts
  <2> QED
    BY <2>3, <2>4
<1> QED
  BY <1>3, <1>4, <1>5
LEMMA UnderWayType ==
  ASSUME TypeInv
  PROVE  /\ tx.fifo \in Seq(Packets) /\ rxFifo \in Seq(Packets)
         /\ Waiting(tx.fifo, rxInfo) \in Seq(Packets)
         /\ rxFifo \o Waiting(tx.fifo, rxInfo) \in Seq(Packets)
         /\ Unprocessed \in Seq(Messages)
<1>1. tx.fifo \in Seq(Packets) /\ rxFifo \in Seq(Packets)
  BY DEF TypeInv, TxType
<1>2. Waiting(tx.fifo, rxInfo) \in Seq(Packets)
  BY <1>1, WaitingType
<1>3. rxFifo \o Waiting(tx.fifo, rxInfo) \in Seq(Packets)
  BY <1>1, <1>2
<1> QED
  BY <1>1, <1>2, <1>3, MsgsType, UnprocessedIs

LEMMA MoreWaiting ==
  ASSUME NEW r \in Seq(Packets), NEW w \in Seq(Packets), NEW q \in Packets
  PROVE  Msgs(r \o Append(w, q)) = Append(Msgs(r \o w), q.msg)
<1>1. r \o w \in Seq(Packets)
  OBVIOUS
<1>2. r \o Append(w, q) = Append(r \o w, q)
  BY ConcatAppend
<1>3. Msgs(Append(r \o w, q)) = Append(Msgs(r \o w), q.msg)
  BY <1>1, MsgsAppend
<1> QED
  BY <1>2, <1>3

LEMMA FewerWaiting ==
  ASSUME NEW r \in Seq(Packets), NEW w \in Seq(Packets), NEW n \in 0 .. Len(w)
  PROVE  /\ Msgs(r \o SubSeq(w, 1, n)) = SubSeq(Msgs(r \o w), 1, Len(r) + n)
         /\ Len(r) + n \in 0 .. Len(Msgs(r \o w))
         /\ \A k \in Len(r) + n + 1 .. Len(Msgs(r \o w)) :
              k - Len(r) \in n + 1 .. Len(w) /\ Msgs(r \o w)[k] = w[k - Len(r)].msg
<1> DEFINE u == r \o w
<1>1. u \in Seq(Packets)
  OBVIOUS
<1>2. /\ r \o SubSeq(w, 1, n) = SubSeq(u, 1, Len(r) + n) /\ Len(r) + n \in 0 .. Len(u)
      /\ \A k \in Len(r) + n + 1 .. Len(u) : k - Len(r) \in n + 1 .. Len(w) /\ u[k] = w[k - Len(r)]
  BY ConcatPrefix
<1> HIDE DEF u
<1>3. Msgs(SubSeq(u, 1, Len(r) + n)) = SubSeq(Msgs(u), 1, Len(r) + n)
  BY <1>1, <1>2, MsgsPrefix
<1>4. Len(Msgs(u)) = Len(u) /\ \A k \in 1 .. Len(u) : Msgs(u)[k] = u[k].msg
  BY <1>1, MsgsType
<1>5. ASSUME NEW k \in Len(r) + n + 1 .. Len(u)
      PROVE  k - Len(r) \in n + 1 .. Len(w) /\ Msgs(u)[k] = w[k - Len(r)].msg
  <2>1. k \in 1 .. Len(u)
    <3>1. Len(r) + n \in Nat
      BY <1>2
    <3> QED
      BY <3>1
  <2> QED
    BY <1>2, <1>4, <2>1
<1> QED
  BY <1>2, <1>3, <1>4, <1>5 DEF u

LEMMA OneLessWaiting ==
  ASSUME NEW r \in Seq(Packets), NEW w \in Seq(Packets), w # <<>>
  PROVE  LET u == Msgs(r \o w)
             k == Len(r) + 1
         IN Msgs(r \o Tail(w)) = WithoutAt(u, k) /\ k \in 1 .. Len(u) /\ u[k] = Head(w).msg
<1> DEFINE u == r \o w
           k == Len(r) + 1
<1>1. u \in Seq(Packets)
  OBVIOUS
<1>2. r \o Tail(w) = WithoutAt(u, k) /\ k \in 1 .. Len(u) /\ u[k] = Head(w)
  BY ConcatWithout
<1> HIDE DEF u, k
<1>3. Msgs(WithoutAt(u, k)) = WithoutAt(Msgs(u), k)
  BY <1>1, <1>2, MsgsWithout
<1>4. Len(Msgs(u)) = Len(u) /\ Msgs(u)[k] = u[k].msg
  BY <1>1, <1>2, MsgsType
<1> QED
  BY <1>2, <1>3, <1>4 DEF u, k

\* A message that is later than all that wait is none of them
LEMMA NewMessage ==
  ASSUME TypeInv, SentInv, NEW m, m.session = session, m.counter = counter, NEW i \in DOMAIN tx.fifo
  PROVE  tx.fifo[i].msg # m
<1>1. tx.fifo[i] \in Packets
  BY UnderWayType
<1>2. Before(tx.fifo[i].msg, Now)
  BY DEF SentInv, InOrder
<1> QED
  BY <1>1, <1>2, PacketParts DEF Before, Now

LEMMA FlushedIs ==
  ASSUME TypeInv, NEW g \in {tx.fifo, FlushTx(tx).fifo}
  PROVE  /\ g \in {<<>>, <<Head(tx.fifo)>>, tx.fifo} /\ g \in Seq(Packets)
         /\ g # <<>> => tx.fifo # <<>> /\ g[1] = tx.fifo[1]
         /\ \A i \in DOMAIN g : i \in DOMAIN tx.fifo /\ g[i] = tx.fifo[i]
         /\ tx.radio \notin {"idle", "off"} => g # <<>>
<1>1. tx \in TxType /\ tx.fifo \in Seq(Packets) /\ (tx.radio \notin {"idle", "off"} => tx.fifo # <<>>)
  BY UnderWayType DEF TypeInv
<1>2. CASE g = tx.fifo
  BY <1>1, <1>2
<1>3. CASE g = FlushTx(tx).fifo /\ (tx.fifo = <<>> \/ tx.radio = "idle")
  <2>1. g = <<>>
    BY <1>1, <1>3, FlushDoes
  <2> QED
    BY <1>1, <1>3, <2>1
<1>4. CASE g = FlushTx(tx).fifo /\ tx.fifo # <<>> /\ tx.radio # "idle"
  <2>1. g = <<Head(tx.fifo)>>
    BY <1>1, <1>4, FlushDoes
  <2>2. 1 \in DOMAIN tx.fifo /\ Head(tx.fifo) = tx.fifo[1] /\ tx.fifo[1] \in Packets
    BY <1>1, <1>4
  <2> QED
    BY <1>4, <2>1, <2>2
<1> QED
  BY <1>2, <1>3, <1>4

\* A message is written behind what is kept of the FIFO
LEMMA Written ==
  ASSUME TypeInv, SentInv,
         NEW m \in Messages, m.session = session, m.counter = counter,
         NEW kept \in {tx.fifo, FlushTx(tx).fifo}, NEW pid \in 0 .. PidMax,
         tx'.fifo = Append(kept, [pid |-> pid, msg |-> m]),
         tx'.radio = IF tx.radio = "idle" THEN "sending" ELSE tx.radio,
         counter' = counter + 1, session' = session, rxInfo' = rxInfo, rxFifo' = rxFifo, ack' = ack
  PROVE  /\ SentInv'
         /\ \E n \in 0 .. Len(Unprocessed) :
              /\ Unprocessed' = Append(SubSeq(Unprocessed, 1, n), m)
              /\ \A k \in n + 1 .. Len(Unprocessed) : Unprocessed[k] \in Discarded
<1> DEFINE q == [pid |-> pid, msg |-> m]
           f == tx.fifo
           w == Waiting(f, rxInfo)
<1>1. q \in Packets /\ q.msg = m
  BY DEF Packets
<1>2. /\ f \in Seq(Packets) /\ rxFifo \in Seq(Packets) /\ w \in Seq(Packets)
      /\ rxInfo \in Packets \cup {Nothing}
  BY UnderWayType DEF TypeInv
<1>3. /\ kept \in {<<>>, <<Head(f)>>, f} /\ kept \in Seq(Packets) /\ (kept # <<>> => f # <<>> /\ kept[1] = f[1])
      /\ \A i \in DOMAIN kept : i \in DOMAIN f /\ kept[i] = f[i]
      /\ tx.radio \notin {"idle", "off"} => kept # <<>>
  BY FlushedIs
<1>4. /\ Now.session \in Nat /\ Now.counter \in Nat /\ Now'.session \in Nat /\ Now'.counter \in Nat
      /\ Now.session = session /\ Now.counter = counter /\ Before(Now, Now')
  BY NowType DEF Now, Before
<1>5. InOrder(f, rxInfo, Now) /\ Sorted(f)
  BY DEF SentInv, InOrder
<1>6. tx'.fifo = Append(kept, q)
  OBVIOUS
<1>7. \A i \in DOMAIN f : f[i].msg # m
  BY NewMessage
<1> HIDE DEF q, f
<1>8. InOrder(kept, rxInfo, Now)
  BY <1>3, <1>5, OrderPrefix
<1>9. InOrder(Append(kept, q), rxInfo, Now') /\ q # rxInfo
  <2>1. q.msg.session = Now.session /\ q.msg.counter = Now.counter
    BY <1>1, <1>4
  <2> QED
    BY <1>1, <1>2, <1>3, <1>4, <1>8, <2>1, OrderAppend
<1>10. SentInv'
  <2>1. InOrder(tx'.fifo, rxInfo', Now')
    BY <1>6, <1>9
  <2>2. ASSUME ack' PROVE tx'.radio = "waiting" /\ tx'.fifo[1] = rxInfo'
    <3>1. tx.radio = "waiting" /\ f[1] = rxInfo
      BY <2>2 DEF SentInv, f
    <3>2. kept # <<>> /\ kept[1] = f[1]
      BY <1>3, <3>1
    <3>3. Append(kept, q)[1] = kept[1]
      BY <1>1, <1>3, <3>2
    <3> QED
      BY <1>6, <3>1, <3>2, <3>3
  <2> QED
    BY <2>1, <2>2 DEF SentInv
<1>11. PICK l \in 0 .. Len(w) :
         /\ Waiting(kept, rxInfo) = SubSeq(w, 1, l)
         /\ \A k \in l + 1 .. Len(w) :
              \E i \in DOMAIN f : w[k] = f[i] /\ f[i].msg \notin MessagesOf(kept)
  <2>1. Cuts(f, kept, rxInfo)
    <3>1. f \in Seq(Packets) /\ Sorted(f) /\ rxInfo \in Packets \cup {Nothing} /\ kept \in Seq(Packets)
      BY <1>2, <1>3, <1>5
    <3>2. kept = <<>> \/ kept = <<Head(f)>> \/ kept = f
      BY <1>3
    <3>3. kept # <<>> => f # <<>>
      BY <1>3
    <3> QED
      BY <3>1, <3>2, <3>3, WaitingFlushed
  <2> QED
    BY <2>1 DEF Cuts
<1>12. Waiting(tx'.fifo, rxInfo') = Append(SubSeq(w, 1, l), q)
  <2>1. Waiting(Append(kept, q), rxInfo) = Append(Waiting(kept, rxInfo), q)
    BY <1>1, <1>3, <1>9, WaitingAppend
  <2> QED
    BY <1>6, <1>11, <2>1
<1> DEFINE U == Msgs(rxFifo \o w)
           n == Len(rxFifo) + l
<1>13. U = Unprocessed
  BY UnprocessedIs DEF f
<1>14. Unprocessed' = Msgs(rxFifo \o Waiting(tx'.fifo, rxInfo'))
  BY UnprocessedIs
<1> HIDE DEF w
<1>15. SubSeq(w, 1, l) \in Seq(Packets)
  BY <1>2, SubSeqIs
<1>16. Msgs(rxFifo \o Append(SubSeq(w, 1, l), q)) = Append(Msgs(rxFifo \o SubSeq(w, 1, l)), m)
  BY <1>1, <1>2, <1>15, MoreWaiting
<1>17. /\ Msgs(rxFifo \o SubSeq(w, 1, l)) = SubSeq(U, 1, n) /\ n \in 0 .. Len(U)
       /\ \A k \in n + 1 .. Len(U) : k - Len(rxFifo) \in l + 1 .. Len(w) /\ U[k] = w[k - Len(rxFifo)].msg
  BY <1>2, FewerWaiting
<1>18. Unprocessed' = Append(SubSeq(U, 1, n), m)
  BY <1>12, <1>14, <1>16, <1>17
<1>19. ASSUME NEW i \in DOMAIN f, f[i].msg \notin MessagesOf(kept)
       PROVE  f[i].msg \in Discarded
  <2>1. f[i].msg \in MessagesOf(tx.fifo)
    BY DEF MessagesOf, f
  <2>2. MessagesOf(Append(kept, q)) \subseteq MessagesOf(kept) \cup {m}
    <3>1. \A j \in DOMAIN Append(kept, q) : Append(kept, q)[j] = q \/ (j \in DOMAIN kept /\ Append(kept, q)[j] = kept[j])
      BY <1>1, <1>3
    <3> QED
      BY <1>1, <3>1 DEF MessagesOf
  <2> QED
    BY <1>6, <1>7, <1>19, <2>1, <2>2 DEF Discarded
<1>20. ASSUME NEW k \in n + 1 .. Len(U)
       PROVE  U[k] \in Discarded
  BY <1>11, <1>17, <1>19
<1> HIDE DEF U, n
<1> QED
  BY <1>10, <1>13, <1>17, <1>18, <1>20

LEMMA Flushed ==
  ASSUME TypeInv, SentInv, NEW g \in Seq(Packets),
         g = <<>> \/ g = <<Head(tx.fifo)>> \/ g = tx.fifo, g # <<>> => tx.fifo # <<>>,
         tx'.fifo = g, UNCHANGED <<session, counter, rxInfo, rxFifo>>
  PROVE  /\ InOrder(tx'.fifo, rxInfo', Now')
         /\ \E n \in 0 .. Len(Unprocessed) : Unprocessed' = SubSeq(Unprocessed, 1, n)
<1> DEFINE f == tx.fifo
           w == Waiting(f, rxInfo)
<1>2. /\ f \in Seq(Packets) /\ rxFifo \in Seq(Packets) /\ w \in Seq(Packets)
      /\ rxInfo \in Packets \cup {Nothing}
  BY UnderWayType DEF TypeInv
<1>3. InOrder(f, rxInfo, Now) /\ Sorted(f)
  BY DEF SentInv, InOrder
<1>4. \A i \in DOMAIN g : i \in DOMAIN f /\ g[i] = f[i]
  <2>1. CASE g = <<Head(f)>> /\ g # <<>>
    <3>1. f # <<>> /\ 1 \in DOMAIN f /\ Head(f) = f[1]
      BY <1>2, <2>1
    <3> QED
      BY <2>1, <3>1
  <2> QED
    BY <2>1
<1>5. InOrder(g, rxInfo, Now)
  BY <1>3, <1>4, OrderPrefix
<1>6. InOrder(tx'.fifo, rxInfo', Now')
  BY <1>5 DEF Now
<1> HIDE DEF f
<1>7. Cuts(f, g, rxInfo)
  <2>1. g = <<>> \/ g = <<Head(f)>> \/ g = f
    BY DEF f
  <2>2. g # <<>> => f # <<>>
    BY DEF f
  <2> QED
    BY <1>2, <1>3, <2>1, <2>2, WaitingFlushed
<1>8. PICK l \in 0 .. Len(w) : Waiting(g, rxInfo) = SubSeq(w, 1, l)
  BY <1>7 DEF Cuts
<1> DEFINE U == Msgs(rxFifo \o w)
           n == Len(rxFifo) + l
<1>9. U = Unprocessed
  BY UnprocessedIs DEF f
<1>10. Unprocessed' = Msgs(rxFifo \o Waiting(g, rxInfo))
  BY UnprocessedIs
<1> HIDE DEF w
<1>11. Msgs(rxFifo \o SubSeq(w, 1, l)) = SubSeq(U, 1, n) /\ n \in 0 .. Len(U)
  BY <1>2, FewerWaiting
<1> HIDE DEF U, n
<1> QED
  BY <1>6, <1>8, <1>9, <1>10, <1>11

\* The packet at the head leaves the FIFO, acknowledged or given up
LEMMA HeadRemoved ==
  ASSUME TypeInv, SentInv, tx.fifo # <<>>, tx'.fifo = Tail(tx.fifo),
         UNCHANGED <<session, counter, rxInfo, rxFifo>>
  PROVE  /\ InOrder(tx'.fifo, rxInfo', Now')
         /\ IF Head(tx.fifo) = rxInfo THEN Unprocessed' = Unprocessed
            ELSE \E k \in 1 .. Len(Unprocessed) :
                   Unprocessed' = WithoutAt(Unprocessed, k) /\ Unprocessed[k] = Head(tx.fifo).msg
<1>1. /\ tx.fifo \in Seq(Packets) /\ rxFifo \in Seq(Packets) /\ rxInfo \in Packets \cup {Nothing}
      /\ InOrder(tx.fifo, rxInfo, Now)
  BY UnderWayType DEF TypeInv, SentInv
<1>2. InOrder(Tail(tx.fifo), rxInfo, Now)
  BY <1>1, OrderTail
<1>3. InOrder(tx'.fifo, rxInfo', Now')
  BY <1>2 DEF Now
<1>4. /\ Waiting(Tail(tx.fifo), rxInfo) = Tail(tx.fifo)
      /\ Waiting(tx.fifo, rxInfo) = IF Head(tx.fifo) = rxInfo THEN Tail(tx.fifo) ELSE tx.fifo
  BY <1>1, WaitingTail
<1>5. Unprocessed' = Msgs(rxFifo \o Tail(tx.fifo))
  BY <1>4, UnprocessedIs
<1>6. CASE Head(tx.fifo) = rxInfo
  BY <1>3, <1>4, <1>5, <1>6, UnprocessedIs
<1>7. CASE Head(tx.fifo) # rxInfo
  <2>1. Unprocessed = Msgs(rxFifo \o tx.fifo)
    BY <1>4, <1>7, UnprocessedIs
  <2> QED
    BY <1>1, <1>3, <1>5, <1>7, <2>1, OneLessWaiting
<1> QED
  BY <1>6, <1>7

\* The dongle receives the packet at the head
LEMMA HeadHeard ==
  ASSUME TypeInv, SentInv, tx.fifo # <<>>, tx'.fifo = tx.fifo, PrxReceived(Head(tx.fifo)),
         UNCHANGED <<session, counter>>
  PROVE  /\ InOrder(tx'.fifo, rxInfo', Now')
         /\ IF IsDuplicate(Head(tx.fifo)) \/ ~Overflow THEN Unprocessed' = Unprocessed
            ELSE \E k \in 1 .. Len(Unprocessed) :
                   Unprocessed' = WithoutAt(Unprocessed, k) /\ Unprocessed[k] = Head(tx.fifo).msg
<1>1. /\ tx.fifo \in Seq(Packets) /\ rxFifo \in Seq(Packets) /\ rxInfo \in Packets \cup {Nothing}
      /\ InOrder(tx.fifo, rxInfo, Now)
  BY UnderWayType DEF TypeInv, SentInv
<1>2. InOrder(tx.fifo, tx.fifo[1], Now) /\ Head(tx.fifo) = tx.fifo[1] /\ rxInfo' = tx.fifo[1]
  BY <1>1, OrderHeard DEF PrxReceived
<1>3. InOrder(tx'.fifo, rxInfo', Now')
  BY <1>2 DEF Now
<1>4. Waiting(tx.fifo, Head(tx.fifo)) = Tail(tx.fifo)
  BY <1>1, WaitingHeard
<1>5. Unprocessed' = Msgs(rxFifo' \o Tail(tx.fifo))
  BY <1>2, <1>4, UnprocessedIs
<1>6. CASE Head(tx.fifo) = rxInfo
  BY <1>3, <1>5, <1>6, UnprocessedIs DEF PrxReceived, IsDuplicate, Waiting
<1>7. CASE Head(tx.fifo) # rxInfo
  <2>1. Unprocessed = Msgs(rxFifo \o tx.fifo)
    BY <1>7, UnprocessedIs DEF Waiting
  <2>2. CASE Overflow
    <3>1. Unprocessed' = Msgs(rxFifo \o Tail(tx.fifo))
      BY <1>5, <2>2 DEF PrxReceived
    <3> QED
      BY <1>1, <1>3, <1>7, <2>1, <2>2, <3>1, OneLessWaiting DEF IsDuplicate
  <2>3. CASE ~Overflow
    <3>1. rxFifo' = Append(rxFifo, Head(tx.fifo))
      BY <1>7, <2>3 DEF PrxReceived, IsDuplicate
    <3>2. Append(rxFifo, Head(tx.fifo)) \o Tail(tx.fifo) = rxFifo \o tx.fifo
      BY <1>1, ConcatMove
    <3> QED
      BY <1>3, <1>5, <2>1, <2>3, <3>1, <3>2
  <2> QED
    BY <2>2, <2>3
<1> QED
  BY <1>6, <1>7

\* The dongle processes a packet
LEMMA HeadProcessed ==
  ASSUME TypeInv, rxFifo # <<>>, rxFifo' = Tail(rxFifo), UNCHANGED <<tx, rxInfo>>
  PROVE  /\ Unprocessed # <<>> /\ Unprocessed' = Tail(Unprocessed)
         /\ Unprocessed[1] = rxFifo[1].msg
<1> DEFINE w == Waiting(tx.fifo, rxInfo)
           u == rxFifo \o w
<1>1. rxFifo \in Seq(Packets) /\ w \in Seq(Packets) /\ u \in Seq(Packets)
  BY UnderWayType
<1>2. Unprocessed = Msgs(u) /\ Unprocessed' = Msgs(Tail(rxFifo) \o w)
  BY UnprocessedIs
<1> HIDE DEF w
<1>3. u # <<>> /\ Tail(rxFifo) \o w = Tail(u) /\ Head(u) = Head(rxFifo)
  BY <1>1, ConcatTail
<1> HIDE DEF u
<1>4. Tail(u) = WithoutAt(u, 1) /\ 1 \in 1 .. Len(u) /\ u[1] = Head(u)
  BY <1>1, <1>3, TailIsWithout
<1>5. Msgs(WithoutAt(u, 1)) = WithoutAt(Msgs(u), 1)
  BY <1>1, <1>4, MsgsWithout
<1>6. Msgs(u) \in Seq(Messages) /\ Len(Msgs(u)) = Len(u) /\ Msgs(u)[1] = u[1].msg
  BY <1>1, <1>4, MsgsType
<1>7. Msgs(u) # <<>>
  BY <1>4, <1>6
<1>8. Tail(Msgs(u)) = WithoutAt(Msgs(u), 1)
  BY <1>6, <1>7, TailIsWithout
<1>9. Head(rxFifo) = rxFifo[1]
  BY <1>1
<1> QED
  BY <1>2, <1>3, <1>4, <1>5, <1>6, <1>7, <1>8, <1>9

\* The link comes up: it drops what is in the FIFO and sends the boot announcement
LEMMA Booted ==
  ASSUME TypeInv, SentInv, UNCHANGED <<rxInfo, rxFifo>>,
         NEW n, n.session \in Nat, n.counter \in Nat, ~Before(n, Now),
         Now'.session \in Nat, Now'.counter \in Nat,
         \/ tx'.fifo = <<>> /\ ~Before(Now', n)
         \/ \E q \in Packets : /\ tx'.fifo = <<q>> /\ q.msg.session = n.session
                               /\ q.msg.counter = n.counter /\ Before(n, Now')
  PROVE  /\ InOrder(tx'.fifo, rxInfo', Now')
         /\ \/ Grown(Unprocessed, Unprocessed')
            \/ tx'.fifo = <<>> /\ \E k \in 0 .. Len(Unprocessed) : Unprocessed' = SubSeq(Unprocessed, 1, k)
<1>1. /\ tx.fifo \in Seq(Packets) /\ rxFifo \in Seq(Packets) /\ rxInfo \in Packets \cup {Nothing}
      /\ InOrder(tx.fifo, rxInfo, Now) /\ Waiting(tx.fifo, rxInfo) \in Seq(Packets)
      /\ Now.session \in Nat /\ Now.counter \in Nat
  BY UnderWayType, NowType DEF TypeInv, SentInv
<1>2. <<>> \in Seq(Packets) /\ \A i \in DOMAIN <<>> : i \in DOMAIN tx.fifo /\ <<>>[i] = tx.fifo[i]
  OBVIOUS
<1>3. InOrder(<<>>, rxInfo, Now)
  BY <1>1, <1>2, OrderPrefix
<1>4. InOrder(<<>>, rxInfo, n)
  BY <1>1, <1>2, <1>3, OrderLater
<1> DEFINE w == Waiting(tx.fifo, rxInfo)
           U == Msgs(rxFifo \o w)
           k == Len(rxFifo) + 0
<1>5. U = Unprocessed /\ Unprocessed' = Msgs(rxFifo \o Waiting(tx'.fifo, rxInfo))
  BY UnprocessedIs
<1> HIDE DEF w
<1>6. w \in Seq(Packets)
  BY <1>1 DEF w
<1>7. SubSeq(w, 1, 0) = <<>> /\ 0 \in 0 .. Len(w)
  BY <1>6
<1>8. Msgs(rxFifo \o <<>>) = SubSeq(U, 1, k) /\ k \in 0 .. Len(U)
  <2>1. /\ Msgs(rxFifo \o SubSeq(w, 1, 0)) = SubSeq(Msgs(rxFifo \o w), 1, Len(rxFifo) + 0)
        /\ Len(rxFifo) + 0 \in 0 .. Len(Msgs(rxFifo \o w))
    BY <1>1, <1>6, <1>7, FewerWaiting
  <2> QED
    BY <1>7, <2>1
<1> HIDE DEF U, k
<1>9. CASE tx'.fifo = <<>> /\ ~Before(Now', n)
  <2>1. InOrder(tx'.fifo, rxInfo', Now')
    BY <1>1, <1>2, <1>4, <1>9, OrderLater
  <2>2. Waiting(tx'.fifo, rxInfo) = <<>>
    BY <1>9 DEF Waiting
  <2> QED
    BY <1>5, <1>8, <1>9, <2>1, <2>2
<1>10. CASE \E q \in Packets : /\ tx'.fifo = <<q>> /\ q.msg.session = n.session
                               /\ q.msg.counter = n.counter /\ Before(n, Now')
  <2>1. PICK q \in Packets : /\ tx'.fifo = <<q>> /\ q.msg.session = n.session
                             /\ q.msg.counter = n.counter /\ Before(n, Now')
    BY <1>10
  <2>2. InOrder(Append(<<>>, q), rxInfo, Now') /\ q # rxInfo
    BY <1>1, <1>2, <1>4, <2>1, OrderAppend
  <2>3. Append(<<>>, q) = <<q>>
    OBVIOUS
  <2>4. Waiting(<<q>>, rxInfo) = Append(<<>>, q)
    BY <2>2, <2>3 DEF Waiting
  <2>5. Msgs(rxFifo \o Append(<<>>, q)) = Append(Msgs(rxFifo \o <<>>), q.msg)
    BY <1>1, <1>2, MoreWaiting
  <2>6. Unprocessed' = Append(SubSeq(U, 1, k), q.msg)
    BY <1>5, <1>8, <2>1, <2>4, <2>5
  <2>7. Grown(Unprocessed, Unprocessed')
    BY <1>5, <1>8, <2>6, PacketParts DEF Grown
  <2> QED
    BY <2>1, <2>2, <2>3, <2>7
<1> QED
  BY <1>9, <1>10
-----------------------------------------------------------------------------
(* The steps of the keyboard *)

\* A step loses messages under way, or adds one that is new
Moves ==
  \/ Kept(Unprocessed, Unprocessed')
  \/ Grown(Unprocessed, Unprocessed') /\ <<session, counter>>' # <<session, counter>>

TxOk ==
  /\ tx \in TxType /\ Len(tx.fifo) <= TxFifoSize
  /\ (tx.radio \notin {"idle", "off"} => tx.fifo # <<>>) /\ (tx.radio = "off" => tx.fifo = <<>>)

LEMMA TxOkNow == ASSUME TypeInv PROVE TxOk
BY DEF TypeInv, TxOk

LEMMA SameUnderWay ==
  ASSUME tx'.fifo = tx.fifo, UNCHANGED <<rxInfo, rxFifo>>
  PROVE  Unprocessed' = Unprocessed
BY UnprocessedIs

LEMMA ReceivedSame ==
  ASSUME ReceivedInv, UNCHANGED <<rxFifo, rxInfo, replay>>
  PROVE  ReceivedInv'
<1>1. \A i \in DOMAIN rxFifo' :
        /\ rxInfo' # Nothing /\ ~Before(rxInfo'.msg, rxFifo'[i].msg)
        /\ Before(replay', rxFifo'[i].msg)
  BY DEF ReceivedInv
<1>2. Sorted(rxFifo')
  BY DEF ReceivedInv
<1>3. IF rxInfo' = Nothing THEN replay'.session = 0 ELSE ~Before(rxInfo'.msg, replay')
  BY DEF ReceivedInv
<1> QED
  BY <1>1, <1>2, <1>3 DEF ReceivedInv

\* What send_report does: the report is the last of its type under way, or given up, and so
\* are those that were discarded for it
LEMMA SendStep ==
  ASSUME TypeInv, SentInv, NEW t \in ReportTypes, NEW b \in Bodies[t],
         SendReport(t, b), GivesUp(t), report'[t] = b, \A u \in ReportTypes \ {t} : report'[u] = report[u],
         UNCHANGED <<ack, rxInfo, rxFifo, session, host>>
  PROVE  /\ SentInv' /\ Moves /\ TxOk' /\ ready' /\ counter' \in 0 .. CounterMax
         /\ excused' \subseteq ReportTypes
         /\ \A u \in ReportTypes \ excused' :
              IF u = t THEN Shows(Unprocessed', t, host[t], report'[t])
              ELSE /\ u \notin excused
                   /\ Shows(Unprocessed, u, host[u], report[u]) => Shows(Unprocessed', u, host[u], report[u])
<1> DEFINE m == Message(t, b)
<1>1. /\ tx \in TxType /\ Len(tx.fifo) <= TxFifoSize /\ tx.radio # "off" /\ excused \subseteq ReportTypes
      /\ (tx.radio # "idle" => tx.fifo # <<>>) /\ counter \in 0 .. CounterMax /\ counter \in Nat
      /\ rxInfo \in Packets \cup {Nothing} /\ tx.fifo \in Seq(Packets)
  <2>1. tx.radio # "off"
    BY DEF SendReport, ready
  <2>2. counter \in 0 .. CounterMax /\ counter \in Nat
    BY Sizes DEF TypeInv
  <2> QED
    BY <2>1, <2>2, UnderWayType DEF TypeInv
<1>2. CASE ~(counter < CounterMax)
  <2>1. UNCHANGED <<tx, counter>> /\ excused' = excused \cup {t}
    BY <1>2 DEF SendReport, GivesUp
  <2>2. Unprocessed' = Unprocessed
    BY <2>1, SameUnderWay
  <2>3. SentInv'
    BY <2>1 DEF SentInv, Now
  <2>4. TxOk' /\ ready'
    BY <1>1, <2>1 DEF TxOk, ready
  <2>5. counter' \in 0 .. CounterMax /\ excused' \subseteq ReportTypes
    BY <1>1, <2>1
  <2> QED
    BY <2>1, <2>2, <2>3, <2>4, <2>5 DEF Moves, Kept
<1>3. CASE counter < CounterMax
  <2>1. tx' = PutReport(tx, m) /\ counter' = counter + 1
    BY <1>3 DEF SendReport
  <2>2. m \in Messages /\ m.type = t /\ m.body = b /\ m.session = session /\ m.counter = counter
    BY <1>3, MessageType, TypesKnown DEF Message
  <2> HIDE DEF m
  <2>3. /\ tx' \in TxType /\ Len(tx'.fifo) <= TxFifoSize /\ tx'.fifo # <<>> /\ tx'.radio # "off"
        /\ Room(FlushTx(tx)) =>
             \E kept \in {tx.fifo, FlushTx(tx).fifo}, pid \in 0 .. PidMax :
               tx'.fifo = Append(kept, [pid |-> pid, msg |-> m])
        /\ ~Room(FlushTx(tx)) => tx'.fifo = tx.fifo
        /\ tx'.radio = IF tx.radio = "idle" THEN "sending" ELSE tx.radio
    BY <1>1, <2>1, <2>2, PutReportDoes
  <2>4. TxOk' /\ ready'
    BY <2>3 DEF TxOk, ready
  <2>5. counter' \in 0 .. CounterMax
    BY <1>1, <1>3, <2>1, Sizes
  <2>6. <<session, counter>>' # <<session, counter>>
    BY <1>1, <2>1
  <2>7. CASE Room(FlushTx(tx))
    <3>1. excused' = (excused \ {t}) \cup (Carried(Discarded) \ {t})
      BY <1>3, <2>7 DEF GivesUp
    <3>2. PICK kept \in {tx.fifo, FlushTx(tx).fifo}, pid \in 0 .. PidMax :
            tx'.fifo = Append(kept, [pid |-> pid, msg |-> m])
      BY <2>3, <2>7
    <3>3. /\ SentInv'
          /\ \E n \in 0 .. Len(Unprocessed) :
               /\ Unprocessed' = Append(SubSeq(Unprocessed, 1, n), m)
               /\ \A k \in n + 1 .. Len(Unprocessed) : Unprocessed[k] \in Discarded
      BY <2>1, <2>2, <2>3, <3>2, Written
    <3>4. PICK n \in 0 .. Len(Unprocessed) :
            /\ Unprocessed' = Append(SubSeq(Unprocessed, 1, n), m)
            /\ \A k \in n + 1 .. Len(Unprocessed) : Unprocessed[k] \in Discarded
      BY <3>3
    <3>5. Grown(Unprocessed, Unprocessed')
      BY <2>2, <3>4 DEF Grown
    <3>6. Carried(Discarded) \subseteq ReportTypes
      BY DEF Carried
    <3> DEFINE v == SubSeq(Unprocessed, 1, n)
    <3>7. Unprocessed \in Seq(Messages) /\ v \in Seq(Messages)
      BY UnderWayType, SubSeqIs
    <3>8. ASSUME NEW u \in ReportTypes \ excused'
          PROVE  IF u = t THEN Shows(Unprocessed', t, host[t], report'[t])
                 ELSE /\ u \notin excused
                      /\ Shows(Unprocessed, u, host[u], report[u]) => Shows(Unprocessed', u, host[u], report[u])
      <4>1. CASE u = t
        <5>1. Shows(Append(v, m), t, host[t], b)
          BY <2>2, <3>7, ShowsAppend
        <5> QED
          BY <3>4, <4>1, <5>1
      <4>2. CASE u # t
        <5>1. u \notin excused /\ u \notin Carried(Discarded)
          BY <3>1, <4>2
        <5>2. ASSUME Shows(Unprocessed, u, host[u], report[u])
              PROVE  Shows(Unprocessed', u, host[u], report[u])
          <6>1. \A k \in n + 1 .. Len(Unprocessed) :
                  ~(Unprocessed[k].type = u /\ Unprocessed[k].body = report[u])
            BY <3>4, <5>1 DEF Carried
          <6>2. Shows(v, u, host[u], report[u])
            BY <3>7, <5>2, <6>1, ShowsPrefix
          <6>3. Shows(Append(v, m), u, host[u], report[u])
            BY <2>2, <3>7, <4>2, <6>2, ShowsAppend
          <6> QED
            BY <3>4, <6>3
        <5> QED
          BY <4>2, <5>1, <5>2
      <4> QED
        BY <4>1, <4>2
    <3>9. excused' \subseteq ReportTypes
      BY <1>1, <3>1, <3>6
    <3> QED
      BY <2>4, <2>5, <2>6, <3>3, <3>5, <3>8, <3>9 DEF Moves
  <2>8. CASE ~Room(FlushTx(tx))
    <3>1. excused' = excused \cup {t}
      BY <2>8 DEF GivesUp
    <3>2. tx'.fifo = tx.fifo
      BY <2>3, <2>8
    <3>3. Unprocessed' = Unprocessed
      BY <3>2, SameUnderWay
    <3>4. InOrder(tx'.fifo, rxInfo', Now')
      <4>1. InOrder(tx.fifo, rxInfo, Now)
        BY DEF SentInv
      <4>2. /\ Now.session \in Nat /\ Now.counter \in Nat /\ Now'.session \in Nat /\ Now'.counter \in Nat
            /\ ~Before(Now', Now)
        BY <1>1, <2>1, NowType DEF Now, Before
      <4> QED
        BY <1>1, <3>2, <4>1, <4>2, OrderLater
    <3>5. SentInv'
      BY <2>3, <3>2, <3>4 DEF SentInv
    <3> QED
      BY <1>1, <2>4, <2>5, <3>1, <3>3, <3>5 DEF Moves, Kept
  <2> QED
    BY <2>7, <2>8
<1> QED
  BY <1>2, <1>3

LEMMA ResendType ==
  ASSUME TypeInv
  PROVE  /\ resend = 0 => ToResend = {}
         /\ resend = Len(Types) => ToResend = ReportTypes
         /\ ToResend \subseteq ReportTypes
<1>1. Len(Types) \in Nat \ {0} /\ DOMAIN Types = 1 .. Len(Types) /\ resend \in 0 .. Len(Types)
  BY TypesKnown DEF TypeInv
<1>2. \A i \in Len(Types) - resend + 1 .. Len(Types) : i \in DOMAIN Types
  BY <1>1
<1>3. ToResend \subseteq ReportTypes
  BY <1>2 DEF ToResend, ReportTypes
<1>4. resend = 0 => ToResend = {}
  BY <1>1 DEF ToResend
<1>5. ASSUME resend = Len(Types) PROVE ToResend = ReportTypes
  <2>1. Len(Types) - resend + 1 .. Len(Types) = DOMAIN Types
    BY <1>1, <1>5
  <2> QED
    BY <2>1 DEF ToResend, ReportTypes
<1> QED
  BY <1>3, <1>4, <1>5

LEMMA StepReportChanged ==
  ASSUME LinkInv, NEW t \in ReportTypes, NEW body \in Bodies[t], ReportChanged(t, body)
  PROVE  LinkInv' /\ Moves
<1>1. TypeInv /\ SentInv /\ ReceivedInv /\ SettleInv
  BY DEF LinkInv
<1>2. body \in AllBodies
  BY TypesKnown
<1>3. /\ report' = [report EXCEPT ![t] = body] /\ SendReport(t, body) /\ GivesUp(t)
      /\ UNCHANGED <<txEvents, ack, rxInfo, rxFifo, fails, resend, session, faults>>
      /\ UNCHANGED <<replay, connected, host>>
  BY DEF ReportChanged, dongleVars
<1>4. report \in [ReportTypes -> AllBodies] /\ \A u \in ReportTypes : report[u] \in Bodies[u]
  BY <1>1 DEF TypeInv
<1>5. /\ report' \in [ReportTypes -> AllBodies] /\ report'[t] = body
      /\ \A u \in ReportTypes \ {t} : report'[u] = report[u]
      /\ \A u \in ReportTypes : report'[u] \in Bodies[u]
  BY <1>2, <1>3, <1>4
<1>6. /\ SentInv' /\ Moves /\ TxOk' /\ ready' /\ counter' \in 0 .. CounterMax
      /\ excused' \subseteq ReportTypes
      /\ \A u \in ReportTypes \ excused' :
           IF u = t THEN Shows(Unprocessed', t, host[t], report'[t])
           ELSE /\ u \notin excused
                /\ Shows(Unprocessed, u, host[u], report[u]) => Shows(Unprocessed', u, host[u], report[u])
  BY <1>1, <1>2, <1>3, <1>5, SendStep
<1>7. TypeInv'
  BY <1>1, <1>3, <1>5, <1>6 DEF TypeInv, TxOk
<1>8. ReceivedInv'
  BY <1>1, <1>3, ReceivedSame
<1>9. ASSUME NEW u \in ReportTypes \ excused'
      PROVE  FailureKnown' \/ u \in ToResend' \/ Shows(Unprocessed', u, host'[u], report'[u])
  <2>1. CASE u = t
    BY <1>3, <1>6, <2>1
  <2>2. CASE u # t
    <3>1. u \notin excused /\ report'[u] = report[u]
      BY <1>5, <1>6, <2>2
    <3>2. FailureKnown \/ u \in ToResend \/ Shows(Unprocessed, u, host[u], report[u])
      BY <1>1, <3>1 DEF SettleInv
    <3>3. (FailureKnown => FailureKnown') /\ ToResend' = ToResend
      BY <1>3 DEF FailureKnown, ToResend
    <3> QED
      BY <1>3, <1>6, <2>2, <3>1, <3>2, <3>3
  <2> QED
    BY <2>1, <2>2
<1>10. SettleInv'
  BY <1>6, <1>9 DEF SettleInv
<1> QED
  BY <1>6, <1>7, <1>8, <1>10 DEF LinkInv

LEMMA StepResendWork ==
  ASSUME LinkInv, ResendWork
  PROVE  LinkInv' /\ Moves
<1>1. TypeInv /\ SentInv /\ ReceivedInv /\ SettleInv
  BY DEF LinkInv
<1> DEFINE i == Len(Types) - resend + 1
           t == Types[i]
<1>2. resend \in 1 .. Len(Types) /\ i \in DOMAIN Types /\ resend' = resend - 1 /\ resend' \in 0 .. Len(Types)
  <2>1. resend \in 0 .. Len(Types) /\ resend > 0 /\ Len(Types) \in Nat /\ DOMAIN Types = 1 .. Len(Types)
    BY <1>1, TypesKnown DEF TypeInv, ResendWork
  <2> QED
    BY <2>1 DEF ResendWork
<1>3. t \in ReportTypes
  BY <1>2, TypesKnown
<1>4. /\ SendReport(t, report[t]) /\ GivesUp(t)
      /\ UNCHANGED <<txEvents, ack, rxInfo, rxFifo, report, fails, session, faults>>
      /\ UNCHANGED <<replay, connected, host>>
  BY DEF ResendWork, dongleVars
<1>5. \A u \in ToResend : u = t \/ u \in ToResend'
  <2>1. ASSUME NEW j \in Len(Types) - resend + 1 .. Len(Types)
        PROVE  j = i \/ j \in Len(Types) - resend' + 1 .. Len(Types)
    BY <1>2, TypesKnown
  <2> QED
    BY <2>1 DEF ToResend
<1> HIDE DEF t, i
<1>6. report[t] \in Bodies[t] /\ report'[t] = report[t] /\ \A u \in ReportTypes \ {t} : report'[u] = report[u]
  BY <1>1, <1>3, <1>4 DEF TypeInv
<1>7. /\ SentInv' /\ Moves /\ TxOk' /\ ready' /\ counter' \in 0 .. CounterMax
      /\ excused' \subseteq ReportTypes
      /\ \A u \in ReportTypes \ excused' :
           IF u = t THEN Shows(Unprocessed', t, host[t], report'[t])
           ELSE /\ u \notin excused
                /\ Shows(Unprocessed, u, host[u], report[u]) => Shows(Unprocessed', u, host[u], report[u])
  BY <1>1, <1>3, <1>4, <1>6, SendStep
<1>8. TypeInv'
  BY <1>1, <1>2, <1>4, <1>7 DEF TypeInv, TxOk
<1>9. ReceivedInv'
  BY <1>1, <1>4, ReceivedSame
<1>10. ASSUME NEW u \in ReportTypes \ excused'
       PROVE  FailureKnown' \/ u \in ToResend' \/ Shows(Unprocessed', u, host'[u], report'[u])
  <2>1. CASE u = t
    BY <1>4, <1>7, <2>1
  <2>2. CASE u # t
    <3>1. u \notin excused /\ report'[u] = report[u]
      BY <1>4, <1>7, <2>2
    <3>2. FailureKnown \/ u \in ToResend \/ Shows(Unprocessed, u, host[u], report[u])
      BY <1>1, <3>1 DEF SettleInv
    <3>3. FailureKnown => FailureKnown'
      BY <1>4 DEF FailureKnown
    <3>4. u \in ToResend => u \in ToResend'
      BY <1>5, <2>2
    <3> QED
      BY <1>4, <1>7, <2>2, <3>1, <3>2, <3>3, <3>4
  <2> QED
    BY <2>1, <2>2
<1>11. SettleInv'
  BY <1>7, <1>10 DEF SettleInv
<1> QED
  BY <1>7, <1>8, <1>9, <1>11 DEF LinkInv

LEMMA StepTxSuccess ==
  ASSUME LinkInv, TxSuccess
  PROVE  LinkInv' /\ Moves
<1>1. TypeInv /\ SentInv /\ ReceivedInv /\ SettleInv
  BY DEF LinkInv
<1>2. /\ txEvents # <<>> /\ Head(txEvents) = "success" /\ txEvents' = Tail(txEvents) /\ fails' = 0
      /\ UNCHANGED <<tx, ack, rxInfo, rxFifo, report, resend, session, counter, faults, excused>>
      /\ UNCHANGED <<replay, connected, host>>
  BY DEF TxSuccess, dongleVars
<1>3. txEvents' \in Seq({"success", "failed"}) /\ Len(txEvents') <= EventSize
      /\ (FailureKnown => FailureKnown')
  <2>1. txEvents \in Seq({"success", "failed"}) /\ Len(txEvents) <= EventSize /\ EventSize \in Nat
        /\ Len(txEvents) \in Nat
    BY <1>1, Sizes DEF TypeInv
  <2>2. /\ Tail(txEvents) \in Seq({"success", "failed"}) /\ Len(Tail(txEvents)) = Len(txEvents) - 1
        /\ \A i \in 1 .. Len(txEvents) - 1 : Tail(txEvents)[i] = txEvents[i + 1]
    BY <1>2, <2>1
  <2>3. Len(txEvents') <= EventSize
    BY <1>2, <2>1, <2>2
  <2>4. ASSUME FailureKnown PROVE FailureKnown'
    <3>1. PICK i \in 1 .. Len(txEvents) : txEvents[i] = "failed"
      BY <2>1, <2>4 DEF FailureKnown
    <3>2. i # 1
      BY <1>2, <2>1, <3>1
    <3>3. i - 1 \in 1 .. Len(txEvents) - 1 /\ i - 1 + 1 = i
      BY <2>1, <3>2
    <3>4. i - 1 \in DOMAIN txEvents' /\ txEvents'[i - 1] = "failed"
      BY <1>2, <2>2, <3>1, <3>3
    <3> QED
      BY <3>4 DEF FailureKnown
  <2> QED
    BY <1>2, <2>2, <2>3, <2>4
<1>4. TypeInv'
  <2>1. fails' \in 0 .. FailureWrap - 1
    BY <1>2, Sizes
  <2> QED
    BY <1>1, <1>2, <1>3, <2>1 DEF TypeInv
<1>5. SentInv'
  BY <1>1, <1>2 DEF SentInv, Now
<1>6. ReceivedInv'
  BY <1>1, <1>2, ReceivedSame
<1>7. Unprocessed' = Unprocessed
  BY <1>2, SameUnderWay
<1>8. SettleInv'
  <2>1. (ready \/ txEvents = <<>> \/ excused = ReportTypes)'
    BY <1>1, <1>2 DEF SettleInv, ready
  <2>2. ToResend' = ToResend
    BY <1>2 DEF ToResend
  <2> QED
    BY <1>1, <1>2, <1>3, <1>7, <2>1, <2>2 DEF SettleInv
<1> QED
  BY <1>4, <1>5, <1>6, <1>7, <1>8 DEF LinkInv, Moves, Kept

LEMMA StepTxFailed ==
  ASSUME LinkInv, TxFailed
  PROVE  LinkInv' /\ Moves
<1>1. TypeInv /\ SentInv /\ ReceivedInv /\ SettleInv
  BY DEF LinkInv
<1>2. /\ txEvents # <<>> /\ txEvents' = Tail(txEvents)
      /\ tx' = IF ready THEN FlushTx(tx) ELSE tx
      /\ fails' = (fails + 1) % FailureWrap
      /\ UNCHANGED <<ack, rxInfo, rxFifo, report, session, counter, faults>>
      /\ UNCHANGED <<replay, connected, host>>
  BY DEF TxFailed, dongleVars
<1>3. IF fails' < MaxFailures THEN resend' = (IF ready THEN Len(Types) ELSE 0) /\ UNCHANGED excused
      ELSE excused' = excused \cup ReportTypes /\ UNCHANGED resend
  BY DEF TxFailed
<1>4. /\ tx \in TxType /\ Len(tx.fifo) <= TxFifoSize /\ tx.fifo \in Seq(Packets)
      /\ (tx.radio \notin {"idle", "off"} => tx.fifo # <<>>) /\ (tx.radio = "off" => tx.fifo = <<>>)
      /\ excused \subseteq ReportTypes /\ Len(tx.fifo) \in Nat
  BY <1>1, UnderWayType DEF TypeInv
<1> DEFINE g == tx'.fifo
<1>5. /\ tx' \in TxType /\ tx'.radio = tx.radio /\ Len(g) <= TxFifoSize /\ g \in Seq(Packets)
      /\ g = <<>> \/ g = <<Head(tx.fifo)>> \/ g = tx.fifo
      /\ (g # <<>> => tx.fifo # <<>> /\ g[1] = tx.fifo[1])
      /\ (tx.radio \notin {"idle", "off"} => g # <<>>) /\ (tx.radio = "off" => g = <<>>)
  <2>1. CASE ready
    <3>1. tx' = FlushTx(tx) /\ tx.radio # "off"
      BY <1>2, <2>1 DEF ready
    <3>2. /\ g \in {<<>>, <<Head(tx.fifo)>>, tx.fifo} /\ g \in Seq(Packets)
          /\ g # <<>> => tx.fifo # <<>> /\ g[1] = tx.fifo[1]
          /\ tx.radio \notin {"idle", "off"} => g # <<>>
      BY <1>1, <3>1, FlushedIs
    <3>3. tx' \in TxType /\ tx'.radio = tx.radio /\ Len(g) <= Len(tx.fifo)
      BY <1>4, <3>1, FlushDoes
    <3>4. Len(g) <= TxFifoSize
      BY <1>4, <3>2, <3>3, Sizes
    <3> QED
      BY <3>1, <3>2, <3>3, <3>4
  <2>2. CASE ~ready
    BY <1>2, <1>4, <2>2
  <2> QED
    BY <2>1, <2>2
<1>6. /\ InOrder(tx'.fifo, rxInfo', Now')
      /\ \E n \in 0 .. Len(Unprocessed) : Unprocessed' = SubSeq(Unprocessed, 1, n)
  <2> HIDE DEF g
  <2>1. tx'.fifo = g
    BY DEF g
  <2> QED
    BY <1>1, <1>2, <1>5, <2>1, Flushed
<1>7. TypeInv'
  <2>1. txEvents' \in Seq({"success", "failed"}) /\ Len(txEvents') <= EventSize
    <3>1. txEvents \in Seq({"success", "failed"}) /\ Len(txEvents) <= EventSize /\ Len(txEvents) \in Nat
          /\ EventSize \in Nat
      BY <1>1, Sizes DEF TypeInv
    <3>2. Tail(txEvents) \in Seq({"success", "failed"}) /\ Len(Tail(txEvents)) = Len(txEvents) - 1
      BY <1>2, <3>1
    <3>3. Len(Tail(txEvents)) <= EventSize
      BY <3>1, <3>2
    <3> QED
      BY <1>2, <3>2, <3>3
  <2>2. fails' \in 0 .. FailureWrap - 1
    <3>1. fails \in Nat /\ FailureWrap \in Nat \ {0}
      BY <1>1, Sizes DEF TypeInv
    <3> QED
      BY <1>2, <3>1
  <2>3. resend' \in 0 .. Len(Types) /\ excused' \subseteq ReportTypes
    BY <1>1, <1>3, TypesKnown DEF TypeInv
  <2>4. TxOk'
    BY <1>5 DEF TxOk
  <2> QED
    BY <1>1, <1>2, <2>1, <2>2, <2>3, <2>4 DEF TypeInv, TxOk
<1>8. SentInv'
  <2>1. ASSUME ack' PROVE tx'.radio = "waiting" /\ tx'.fifo[1] = rxInfo'
    BY <1>1, <1>2, <1>5, <2>1 DEF SentInv
  <2> QED
    BY <1>6, <2>1 DEF SentInv
<1>9. ReceivedInv'
  BY <1>1, <1>2, ReceivedSame
<1>10. ready' = ready
  BY <1>5 DEF ready
<1>11. excused' = ReportTypes \/ (ready /\ ToResend' = ReportTypes)
  <2>1. CASE fails' < MaxFailures /\ ready
    <3>1. resend' = Len(Types)
      BY <1>3, <2>1
    <3>2. ToResend' = ReportTypes
      <4>1. Len(Types) - resend' + 1 .. Len(Types) = DOMAIN Types
        BY <3>1, TypesKnown
      <4> QED
        BY <4>1 DEF ToResend, ReportTypes
    <3> QED
      BY <2>1, <3>2
  <2>2. CASE fails' < MaxFailures /\ ~ready
    BY <1>1, <1>2, <1>3, <2>2 DEF SettleInv
  <2>3. CASE ~(fails' < MaxFailures)
    BY <1>3, <1>4, <2>3
  <2> QED
    BY <2>1, <2>2, <2>3
<1>12. SettleInv'
  BY <1>10, <1>11 DEF SettleInv
<1>13. Moves
  BY <1>6 DEF Moves, Kept
<1> QED
  BY <1>7, <1>8, <1>9, <1>12, <1>13 DEF LinkInv

LEMMA StepKeepalive ==
  ASSUME LinkInv, KeepaliveHandler
  PROVE  LinkInv' /\ Moves
<1>1. TypeInv /\ SentInv /\ ReceivedInv /\ SettleInv
  BY DEF LinkInv
<1> DEFINE m == Message("keepalive", Released)
<1>2. /\ tx.radio = "idle" /\ counter < CounterMax /\ counter' = counter + 1
      /\ tx' = IF Room(tx) THEN WritePayload(tx, m) ELSE tx
      /\ UNCHANGED <<txEvents, ack, rxInfo, rxFifo, report, fails, resend, session, faults, excused>>
      /\ UNCHANGED <<replay, connected, host>>
  BY DEF KeepaliveHandler, dongleVars
<1>3. m \in Messages /\ m.type = "keepalive" /\ m.session = session /\ m.counter = counter
  BY <1>1, <1>2, MessageType, TypesKnown DEF Message
<1> HIDE DEF m
<1>4. /\ tx \in TxType /\ Len(tx.fifo) <= TxFifoSize /\ tx.fifo \in Seq(Packets)
      /\ Len(tx.fifo) \in Nat /\ counter \in Nat
  BY <1>1, UnderWayType, Sizes DEF TypeInv
<1>5. counter' \in 0 .. CounterMax /\ <<session, counter>>' # <<session, counter>>
  BY <1>2, <1>4, Sizes
<1>6. TxOk' /\ ready' /\ SentInv' /\ Moves
      /\ \A t \in ReportTypes : \A h, b :
           Shows(Unprocessed, t, h, b) => Shows(Unprocessed', t, h, b)
  <2>1. CASE Room(tx)
    <3>1. tx' = WritePayload(tx, m)
      BY <1>2, <2>1
    <3>2. PICK pid \in 0 .. PidMax : tx'.fifo = Append(tx.fifo, [pid |-> pid, msg |-> m])
      BY <1>3, <1>4, <3>1, WriteDoes
    <3>3. tx' \in TxType /\ tx'.radio = "sending" /\ tx'.fifo # <<>>
      BY <1>2, <1>3, <1>4, <3>1, WriteDoes
    <3>4. Len(tx'.fifo) <= TxFifoSize
      BY <1>4, <2>1, <3>2, Sizes DEF Room
    <3>5. TxOk' /\ ready'
      BY <3>3, <3>4 DEF TxOk, ready
    <3>6. /\ SentInv'
          /\ \E n \in 0 .. Len(Unprocessed) :
               /\ Unprocessed' = Append(SubSeq(Unprocessed, 1, n), m)
               /\ \A k \in n + 1 .. Len(Unprocessed) : Unprocessed[k] \in Discarded
      <4>1. tx'.radio = IF tx.radio = "idle" THEN "sending" ELSE tx.radio
        BY <1>2, <3>3
      <4> QED
        BY <1>1, <1>2, <1>3, <3>2, <4>1, Written
    <3>7. PICK n \in 0 .. Len(Unprocessed) :
            /\ Unprocessed' = Append(SubSeq(Unprocessed, 1, n), m)
            /\ \A k \in n + 1 .. Len(Unprocessed) : Unprocessed[k] \in Discarded
      BY <3>6
    <3>8. Moves
      BY <1>3, <1>5, <3>7 DEF Moves, Grown
    <3>9. Discarded = {}
      <4>1. Append(tx.fifo, [pid |-> pid, msg |-> m]) \in Seq(Packets)
            /\ \A i \in DOMAIN tx.fifo : i \in DOMAIN tx'.fifo /\ tx'.fifo[i] = tx.fifo[i]
        <5>1. [pid |-> pid, msg |-> m] \in Packets
          BY <1>3 DEF Packets
        <5> QED
          BY <1>4, <3>2, <5>1
      <4> QED
        BY <4>1 DEF Discarded, MessagesOf
    <3> DEFINE v == SubSeq(Unprocessed, 1, n)
    <3>10. Unprocessed \in Seq(Messages) /\ v \in Seq(Messages)
      BY <1>1, UnderWayType, SubSeqIs
    <3>11. ASSUME NEW t \in ReportTypes, NEW h, NEW b, Shows(Unprocessed, t, h, b)
           PROVE  Shows(Unprocessed', t, h, b)
      <4>1. \A k \in n + 1 .. Len(Unprocessed) : ~(Unprocessed[k].type = t /\ Unprocessed[k].body = b)
        BY <3>7, <3>9
      <4>2. Shows(v, t, h, b)
        BY <3>10, <3>11, <4>1, ShowsPrefix
      <4>3. m.type # t
        BY <1>3, TypesKnown
      <4>4. Shows(Append(v, m), t, h, b)
        BY <1>3, <3>10, <4>2, <4>3, ShowsAppend
      <4> QED
        BY <3>7, <4>4
    <3> QED
      BY <3>5, <3>6, <3>8, <3>11
  <2>2. CASE ~Room(tx)
    <3>1. tx' = tx
      BY <1>2, <2>2
    <3>2. Unprocessed' = Unprocessed
      BY <1>2, <3>1, SameUnderWay
    <3>3. InOrder(tx'.fifo, rxInfo', Now')
      <4>1. InOrder(tx.fifo, rxInfo, Now) /\ rxInfo \in Packets \cup {Nothing}
        BY <1>1 DEF SentInv, TypeInv
      <4>2. /\ Now.session \in Nat /\ Now.counter \in Nat /\ Now'.session \in Nat /\ Now'.counter \in Nat
            /\ ~Before(Now', Now)
        BY <1>1, <1>2, <1>4, NowType DEF Now, Before
      <4> QED
        BY <1>2, <1>4, <3>1, <4>1, <4>2, OrderLater
    <3>4. SentInv'
      BY <1>1, <1>2, <3>1, <3>3 DEF SentInv
    <3>5. TxOk' /\ ready'
      BY <1>1, <1>2, <3>1 DEF TxOk, TypeInv, ready
    <3> QED
      BY <3>2, <3>4, <3>5 DEF Moves, Kept
  <2> QED
    BY <2>1, <2>2
<1>7. TypeInv'
  BY <1>1, <1>2, <1>5, <1>6 DEF TypeInv, TxOk
<1>8. ReceivedInv'
  BY <1>1, <1>2, ReceivedSame
<1>9. SettleInv'
  <2>1. (FailureKnown <=> FailureKnown') /\ ToResend' = ToResend
    BY <1>2 DEF FailureKnown, ToResend
  <2> QED
    BY <1>1, <1>2, <1>6, <2>1 DEF SettleInv
<1> QED
  BY <1>6, <1>7, <1>8, <1>9 DEF LinkInv

LEMMA OffAndReady ==
  /\ Off \in TxType /\ Off.fifo = <<>> /\ Off.radio = "off"
  /\ Ready \in TxType /\ Ready.fifo = <<>> /\ Ready.radio = "idle"
<1>1. <<>> \in Seq(Packets) /\ 0 \in 0 .. RetransmitCount /\ 0 \in 0 .. PidMax
  BY Sizes
<1> QED
  BY <1>1 DEF Off, Ready, TxType, Radio

LEMMA StartedDoes ==
  ASSUME TypeInv, NEW s \in Sessions, NEW c \in 0 .. CounterMax, Started(s, c)
  PROVE  /\ TxOk' /\ ready' /\ session' = s /\ counter' \in 0 .. CounterMax /\ excused' = ReportTypes
         /\ \/ tx'.fifo = <<>> /\ counter' = c
            \/ /\ counter' = c + 1
               /\ \E q \in Packets : tx'.fifo = <<q>> /\ q.msg.session = s /\ q.msg.counter = c
<1>1. session' = s /\ excused' = ReportTypes /\ c \in Nat /\ CounterMax \in Nat
  BY Sizes DEF Started
<1>2. CASE c < CounterMax
  <2> DEFINE m == Boot(s, c)
  <2>1. tx' = WritePayload(Ready, m) /\ counter' = c + 1
    BY <1>2 DEF Started
  <2>2. m \in Messages /\ m.session = s /\ m.counter = c
    BY <1>1, <1>2, TypesKnown DEF Boot, Messages
  <2> HIDE DEF m
  <2>3. /\ tx' \in TxType /\ tx'.fifo # <<>> /\ tx'.radio = "sending"
        /\ \E pid \in 0 .. PidMax : tx'.fifo = Append(Ready.fifo, [pid |-> pid, msg |-> m])
    BY <2>1, <2>2, OffAndReady, WriteDoes
  <2>4. PICK pid \in 0 .. PidMax : tx'.fifo = Append(<<>>, [pid |-> pid, msg |-> m])
    BY <2>3, OffAndReady
  <2> DEFINE q == [pid |-> pid, msg |-> m]
  <2>5. q \in Packets /\ q.msg = m
    BY <2>2 DEF Packets
  <2> HIDE DEF q
  <2>6. tx'.fifo = <<q>> /\ Len(tx'.fifo) = 1
    BY <2>4 DEF q
  <2>7. TxOk' /\ ready'
    BY <2>3, <2>6, Sizes DEF TxOk, ready
  <2>8. counter' \in 0 .. CounterMax
    BY <1>1, <1>2, <2>1
  <2> QED
    BY <1>1, <2>1, <2>2, <2>5, <2>6, <2>7, <2>8
<1>3. CASE ~(c < CounterMax)
  <2>1. tx' = Ready /\ counter' = c
    BY <1>3 DEF Started
  <2>2. TxOk' /\ ready' /\ tx'.fifo = <<>>
    <3>1. Len(Ready.fifo) = 0
      BY OffAndReady
    <3> QED
      BY <2>1, <3>1, OffAndReady, Sizes DEF TxOk, ready
  <2> QED
    BY <1>1, <2>1, <2>2
<1> QED
  BY <1>2, <1>3

LEMMA StepStart ==
  ASSUME LinkInv, Start
  PROVE  LinkInv' /\ Moves
<1>1. TypeInv /\ SentInv /\ ReceivedInv /\ SettleInv
  BY DEF LinkInv
<1>2. /\ Started(session, counter) /\ tx.radio = "off"
      /\ UNCHANGED <<txEvents, ack, rxInfo, rxFifo, report, fails, resend, faults>>
      /\ UNCHANGED <<replay, connected, host>>
  BY DEF Start, ready, dongleVars
<1>3. session \in Sessions /\ counter \in 0 .. CounterMax /\ session \in Nat /\ counter \in Nat
  BY <1>1, Sizes DEF TypeInv, Sessions
<1>4. /\ TxOk' /\ ready' /\ session' = session /\ counter' \in 0 .. CounterMax /\ excused' = ReportTypes
      /\ \/ tx'.fifo = <<>> /\ counter' = counter
         \/ /\ counter' = counter + 1
            /\ \E q \in Packets : tx'.fifo = <<q>> /\ q.msg.session = session /\ q.msg.counter = counter
  BY <1>1, <1>2, <1>3, StartedDoes
<1>5. /\ Now.session = session /\ Now.counter = counter /\ Now'.session = session /\ Now'.counter = counter'
      /\ Now'.counter \in Nat /\ ~Before(Now, Now)
      /\ (counter' = counter => ~Before(Now', Now)) /\ (counter' = counter + 1 => Before(Now, Now'))
  BY <1>3, <1>4 DEF Now, Before
<1>6. /\ InOrder(tx'.fifo, rxInfo', Now')
      /\ \/ Grown(Unprocessed, Unprocessed')
         \/ tx'.fifo = <<>> /\ \E k \in 0 .. Len(Unprocessed) : Unprocessed' = SubSeq(Unprocessed, 1, k)
  <2>1. \/ tx'.fifo = <<>> /\ ~Before(Now', Now)
        \/ \E q \in Packets : /\ tx'.fifo = <<q>> /\ q.msg.session = Now.session
                              /\ q.msg.counter = Now.counter /\ Before(Now, Now')
    BY <1>4, <1>5
  <2>2. Now.session \in Nat /\ Now.counter \in Nat /\ Now'.session \in Nat /\ Now'.counter \in Nat
    BY <1>3, <1>5
  <2> QED
    BY <1>1, <1>2, <1>5, <2>1, <2>2, Booted
<1>7. Moves
  <2>1. CASE tx'.fifo = <<>> /\ \E k \in 0 .. Len(Unprocessed) : Unprocessed' = SubSeq(Unprocessed, 1, k)
    BY <2>1 DEF Moves, Kept
  <2>2. CASE Grown(Unprocessed, Unprocessed') /\ counter' = counter + 1
    BY <1>3, <2>2 DEF Moves
  <2>3. CASE Grown(Unprocessed, Unprocessed') /\ tx'.fifo = <<>>
    <3>1. tx.fifo = <<>>
      BY <1>1, <1>2 DEF TypeInv
    <3>2. Unprocessed' = Unprocessed
      BY <1>2, <2>3, <3>1, SameUnderWay
    <3> QED
      BY <3>2 DEF Moves, Kept
  <2> QED
    BY <1>4, <1>6, <2>1, <2>2, <2>3
<1>8. TypeInv'
  BY <1>1, <1>2, <1>4 DEF TypeInv, TxOk
<1>9. SentInv'
  <2>1. ~ack'
    BY <1>1, <1>2 DEF SentInv
  <2> QED
    BY <1>6, <2>1 DEF SentInv
<1>10. ReceivedInv'
  BY <1>1, <1>2, ReceivedSame
<1>11. SettleInv'
  BY <1>4 DEF SettleInv
<1> QED
  BY <1>7, <1>8, <1>9, <1>10, <1>11 DEF LinkInv

LEMMA StepStop ==
  ASSUME LinkInv, Stop
  PROVE  LinkInv' /\ Moves
<1>1. TypeInv /\ SentInv /\ ReceivedInv /\ SettleInv
  BY DEF LinkInv
<1>2. /\ tx' = Off /\ ack' = FALSE /\ resend' = 0 /\ excused' = ReportTypes
      /\ faults < MaxFaults /\ faults' = faults + 1
      /\ UNCHANGED <<txEvents, rxInfo, rxFifo, report, fails, session, counter>>
      /\ UNCHANGED <<replay, connected, host>>
  BY DEF Stop, dongleVars
<1>3. /\ InOrder(tx'.fifo, rxInfo', Now')
      /\ \E n \in 0 .. Len(Unprocessed) : Unprocessed' = SubSeq(Unprocessed, 1, n)
  <2>1. <<>> \in Seq(Packets) /\ tx'.fifo = <<>>
    BY <1>2, OffAndReady
  <2> QED
    BY <1>1, <1>2, <2>1, Flushed
<1>4. TypeInv'
  <2>1. TxOk'
    <3>1. Len(Off.fifo) = 0
      BY OffAndReady
    <3> QED
      BY <1>2, <3>1, OffAndReady, Sizes DEF TxOk
  <2>2. faults' \in 0 .. MaxFaults /\ session <= faults' + 1 /\ resend' \in 0 .. Len(Types)
    <3>1. faults \in Nat /\ session \in Nat /\ session <= faults + 1 /\ MaxFaults \in Nat
      BY <1>1, Sizes DEF TypeInv, Sessions
    <3> QED
      BY <1>2, <3>1, TypesKnown
  <2> QED
    BY <1>1, <1>2, <2>1, <2>2 DEF TypeInv, TxOk
<1>5. SentInv'
  BY <1>2, <1>3 DEF SentInv
<1>6. ReceivedInv'
  BY <1>1, <1>2, ReceivedSame
<1>7. SettleInv'
  BY <1>2 DEF SettleInv
<1>8. Moves
  BY <1>3 DEF Moves, Kept
<1> QED
  BY <1>4, <1>5, <1>6, <1>7, <1>8 DEF LinkInv

LEMMA StepRestart ==
  ASSUME LinkInv, Restart
  PROVE  LinkInv' /\ Moves
<1>1. TypeInv /\ SentInv /\ ReceivedInv /\ SettleInv
  BY DEF LinkInv
<1>2. /\ Started(session + 1, 0) /\ faults < MaxFaults /\ faults' = faults + 1
      /\ report' = [t \in ReportTypes |-> Released]
      /\ fails' = 0 /\ resend' = 0 /\ txEvents' = <<>> /\ ack' = FALSE
      /\ UNCHANGED <<rxInfo, rxFifo>>
      /\ UNCHANGED <<replay, connected, host>>
  BY DEF Restart, dongleVars
<1>3. /\ session + 1 \in Sessions /\ 0 \in 0 .. CounterMax /\ session \in Nat /\ counter \in Nat
      /\ faults' \in 0 .. MaxFaults /\ session + 1 <= faults' + 1
  <2>1. /\ faults \in Nat /\ session \in 1 .. MaxFaults + 1 /\ session <= faults + 1 /\ MaxFaults \in Nat
        /\ counter \in Nat
    BY <1>1, Sizes DEF TypeInv, Sessions
  <2>2. session + 1 \in 1 .. MaxFaults + 1 /\ session \in Nat /\ faults' \in 0 .. MaxFaults
        /\ session + 1 <= faults' + 1
    BY <1>2, <2>1
  <2>3. 0 \in 0 .. CounterMax
    BY Sizes
  <2>4. session + 1 \in Sessions
    BY <2>2 DEF Sessions
  <2> QED
    BY <2>1, <2>2, <2>3, <2>4
<1> DEFINE n == [session |-> session + 1, counter |-> 0]
<1>4. /\ TxOk' /\ ready' /\ session' = session + 1 /\ counter' \in 0 .. CounterMax /\ excused' = ReportTypes
      /\ \/ tx'.fifo = <<>> /\ counter' = 0
         \/ /\ counter' = 0 + 1
            /\ \E q \in Packets : tx'.fifo = <<q>> /\ q.msg.session = session + 1 /\ q.msg.counter = 0
  BY <1>1, <1>2, <1>3, StartedDoes
<1>5. /\ Now.session = session /\ Now.counter = counter /\ Now'.session = session + 1
      /\ Now'.counter = counter' /\ counter' \in Nat
  BY <1>4 DEF Now
<1>6. n.session = session + 1 /\ n.counter = 0
  OBVIOUS
<1> HIDE DEF n
<1>7. /\ ~Before(n, Now) /\ n.session \in Nat /\ n.counter \in Nat
      /\ Now'.session \in Nat /\ Now'.counter \in Nat
      /\ (counter' = 0 => ~Before(Now', n)) /\ (counter' = 0 + 1 => Before(n, Now'))
  BY <1>3, <1>5, <1>6 DEF Before
<1>8. /\ InOrder(tx'.fifo, rxInfo', Now')
      /\ \/ Grown(Unprocessed, Unprocessed')
         \/ tx'.fifo = <<>> /\ \E k \in 0 .. Len(Unprocessed) : Unprocessed' = SubSeq(Unprocessed, 1, k)
  <2>1. \/ tx'.fifo = <<>> /\ ~Before(Now', n)
        \/ \E q \in Packets : /\ tx'.fifo = <<q>> /\ q.msg.session = n.session
                              /\ q.msg.counter = n.counter /\ Before(n, Now')
    BY <1>4, <1>6, <1>7
  <2> QED
    BY <1>1, <1>2, <1>7, <2>1, Booted
<1>9. Moves
  <2>1. <<session, counter>>' # <<session, counter>>
    BY <1>3, <1>4
  <2> QED
    BY <1>8, <2>1 DEF Moves, Kept
<1>10. TypeInv'
  <2>1. /\ report' \in [ReportTypes -> AllBodies]
        /\ \A t \in ReportTypes : report'[t] \in Bodies[t] /\ host'[t] \in Bodies[t]
    BY <1>1, <1>2, TypesKnown DEF TypeInv
  <2>2. txEvents' \in Seq({"success", "failed"}) /\ Len(txEvents') <= EventSize
    BY <1>2, Sizes
  <2>3. fails' \in 0 .. FailureWrap - 1 /\ resend' \in 0 .. Len(Types) /\ ack' \in BOOLEAN
    <3>1. 0 \in 0 .. FailureWrap - 1
      BY Sizes
    <3>2. 0 \in 0 .. Len(Types)
      BY TypesKnown
    <3> QED
      BY <1>2, <3>1, <3>2
  <2> QED
    BY <1>1, <1>2, <1>3, <1>4, <2>1, <2>2, <2>3 DEF TypeInv, TxOk
<1>11. SentInv'
  BY <1>2, <1>8 DEF SentInv
<1>12. ReceivedInv'
  BY <1>1, <1>2, ReceivedSame
<1>13. SettleInv'
  BY <1>4 DEF SettleInv
<1> QED
  BY <1>9, <1>10, <1>11, <1>12, <1>13 DEF LinkInv
-----------------------------------------------------------------------------
(* The steps of the radios and of the dongle *)

LEMMA AtMost == ASSUME NEW a \in Nat, NEW b \in Nat, a <= b PROVE a < b \/ a = b
OBVIOUS

LEMMA Signalled ==
  ASSUME txEvents \in Seq({"success", "failed"}), Len(txEvents) <= EventSize,
         NEW e \in {"success", "failed"}, SignalEvent(e)
  PROVE  /\ txEvents' \in Seq({"success", "failed"}) /\ Len(txEvents') <= EventSize
         /\ FailureKnown => FailureKnown'
         /\ e = "failed" /\ ~Unheard => FailureKnown'
<1>1. Len(txEvents) \in Nat /\ EventSize \in Nat /\ DOMAIN txEvents = 1 .. Len(txEvents)
  BY Sizes
<1>2. CASE Len(txEvents) < EventSize
  <2>1. txEvents' = Append(txEvents, e)
    BY <1>2 DEF SignalEvent
  <2>2. /\ txEvents' \in Seq({"success", "failed"}) /\ Len(txEvents') = Len(txEvents) + 1
        /\ txEvents'[Len(txEvents) + 1] = e
        /\ \A i \in 1 .. Len(txEvents) : txEvents'[i] = txEvents[i]
    BY <2>1
  <2>3. DOMAIN txEvents' = 1 .. Len(txEvents) + 1
    BY <2>2
  <2>4. FailureKnown => FailureKnown'
    BY <1>1, <2>2, <2>3 DEF FailureKnown
  <2>5. e = "failed" => FailureKnown'
    BY <1>1, <2>2, <2>3 DEF FailureKnown
  <2>6. Len(txEvents') <= EventSize
    BY <1>1, <1>2, <2>2
  <2> QED
    BY <2>2, <2>4, <2>5, <2>6
<1>3. CASE ~(Len(txEvents) < EventSize)
  <2>1. txEvents' = txEvents
    BY <1>3 DEF SignalEvent
  <2>2. Len(txEvents) = EventSize
    BY <1>1, <1>3, AtMost
  <2> QED
    BY <2>1, <2>2 DEF FailureKnown, Unheard
<1> QED
  BY <1>2, <1>3

\* A message m may get lost
Loses(m) ==
  Unprocessed' = Unprocessed \/
  \E k \in 1 .. Len(Unprocessed) : Unprocessed' = WithoutAt(Unprocessed, k) /\ Unprocessed[k] = m

LEMMA LosesMoves == ASSUME NEW m, Loses(m) PROVE Moves
BY DEF Loses, Moves, Kept

LEMMA LosesShows ==
  ASSUME TypeInv, NEW m, Loses(m), NEW t \in ReportTypes,
         Unprocessed' = Unprocessed \/ t \notin Carried({m}),
         NEW h, Shows(Unprocessed, t, h, report[t])
  PROVE  Shows(Unprocessed', t, h, report[t])
<1>1. CASE Unprocessed' = Unprocessed
  BY <1>1
<1>2. CASE Unprocessed' # Unprocessed
  <2>1. PICK k \in 1 .. Len(Unprocessed) : Unprocessed' = WithoutAt(Unprocessed, k) /\ Unprocessed[k] = m
    BY <1>2 DEF Loses
  <2>2. ~(Unprocessed[k].type = t /\ Unprocessed[k].body = report[t])
    BY <1>2, <2>1 DEF Carried
  <2>3. Unprocessed \in Seq(Messages)
    BY UnderWayType
  <2> QED
    BY <2>1, <2>2, <2>3, ShowsWithout
<1> QED
  BY <1>1, <1>2

\* A report that was known to arrive still does, if the radio loses at most m and m is
\* either excused or its failure signalled
LEMMA SettleLosing ==
  ASSUME TypeInv, SettleInv, NEW m, Loses(m),
         Unprocessed' = Unprocessed \/ FailureKnown' \/ Carried({m}) \subseteq excused',
         excused \subseteq excused', excused' \subseteq ReportTypes,
         FailureKnown => FailureKnown', ready, ready',
         UNCHANGED <<report, host, resend>>
  PROVE  SettleInv'
<1>1. ToResend' = ToResend
  BY DEF ToResend
<1>2. ASSUME NEW t \in ReportTypes \ excused', ~FailureKnown', t \notin ToResend
      PROVE  Shows(Unprocessed', t, host'[t], report'[t])
  <2>1. Shows(Unprocessed, t, host[t], report[t])
    BY <1>2 DEF SettleInv
  <2>2. Unprocessed' = Unprocessed \/ t \notin Carried({m})
    BY <1>2
  <2> QED
    BY <2>1, <2>2, LosesShows
<1> QED
  BY <1>1, <1>2 DEF SettleInv

LEMMA CarriedType == \A m : Carried({m}) \subseteq ReportTypes
BY DEF Carried

LEMMA StepTransmitDone ==
  ASSUME LinkInv, NEW heard \in BOOLEAN, NEW acked \in BOOLEAN,
         IF (heard /\ acked) \/ (~heard /\ Outage) THEN UNCHANGED faults
         ELSE faults < MaxFaults /\ faults' = faults + 1,
         TransmitDone(heard, acked),
         excused' = IF heard /\ Overflow /\ ~IsDuplicate(Head(tx.fifo))
                    THEN excused \cup Carried({Head(tx.fifo).msg}) ELSE excused,
         UNCHANGED <<report, fails, resend, session, counter, dongleVars>>
  PROVE  LinkInv' /\ Moves
<1>1. TypeInv /\ SentInv /\ ReceivedInv /\ SettleInv
  BY DEF LinkInv
<1>2. /\ tx.radio = "sending" /\ tx' = [tx EXCEPT !.radio = "waiting"]
      /\ IF heard THEN PrxReceived(Head(tx.fifo)) ELSE UNCHANGED <<rxInfo, rxFifo>>
      /\ ack' = (heard /\ acked) /\ UNCHANGED txEvents
      /\ UNCHANGED <<replay, connected, host>>
  BY DEF TransmitDone, dongleVars
<1>3. /\ tx \in TxType /\ Len(tx.fifo) <= TxFifoSize /\ tx.fifo \in Seq(Packets) /\ tx.fifo # <<>>
      /\ rxFifo \in Seq(Packets) /\ rxInfo \in Packets \cup {Nothing}
  BY <1>1, <1>2, UnderWayType DEF TypeInv
<1> DEFINE p == Head(tx.fifo)
<1>4. p \in Packets /\ p = tx.fifo[1] /\ 1 \in DOMAIN tx.fifo
  BY <1>3
<1>5. TxOk' /\ tx'.fifo = tx.fifo /\ tx'.radio = "waiting" /\ ready /\ ready'
  BY <1>2, <1>3 DEF TxOk, TxType, Radio, ready
<1>6. /\ InOrder(tx'.fifo, rxInfo', Now') /\ Loses(p.msg)
      /\ Unprocessed' = Unprocessed \/ (heard /\ Overflow /\ ~IsDuplicate(p))
  <2>1. CASE heard
    BY <1>1, <1>2, <1>3, <1>5, <2>1, HeadHeard DEF Loses
  <2>2. CASE ~heard
    <3>1. Unprocessed' = Unprocessed
      BY <1>2, <1>5, <2>2, SameUnderWay
    <3>2. InOrder(tx'.fifo, rxInfo', Now')
      BY <1>1, <1>2, <1>5, <2>2 DEF SentInv, Now
    <3> QED
      BY <3>1, <3>2 DEF Loses
  <2> QED
    BY <2>1, <2>2
<1>7. SentInv'
  <2>1. ASSUME ack' PROVE tx'.fifo[1] = rxInfo'
    BY <1>2, <1>4, <1>5, <2>1 DEF PrxReceived
  <2> QED
    BY <1>5, <1>6, <2>1 DEF SentInv
<1>8. /\ replay.session \in Nat /\ replay.counter \in Nat
      /\ p.msg.session \in Nat /\ p.msg.counter \in Nat /\ p.msg.session > 0
  <2>1. replay \in SeenType /\ p.msg.session \in Sessions
    BY <1>1, <1>4, PacketParts DEF TypeInv
  <2> QED
    BY <1>4, <2>1, PacketParts, Sizes DEF SeenType, Sessions
<1>9. rxInfo # Nothing => /\ Before(rxInfo.msg, p.msg) \/ p = rxInfo
                          /\ rxInfo.msg.session \in Nat /\ rxInfo.msg.counter \in Nat
  BY <1>1, <1>3, <1>4, PacketParts DEF SentInv, InOrder
<1>10. ~Before(p.msg, replay) /\ (p # rxInfo => Before(replay, p.msg))
  <2>1. CASE rxInfo = Nothing
    <3>1. replay.session = 0
      BY <1>1, <2>1 DEF ReceivedInv
    <3> QED
      BY <1>8, <3>1 DEF Before
  <2>2. CASE rxInfo # Nothing
    <3>1. ~Before(rxInfo.msg, replay)
      BY <1>1, <2>2 DEF ReceivedInv
    <3>2. CASE p = rxInfo
      BY <3>1, <3>2
    <3>3. CASE p # rxInfo
      <4>1. Before(rxInfo.msg, p.msg)
        BY <1>9, <2>2, <3>3
      <4>2. Before(replay, p.msg)
        BY <1>8, <1>9, <2>2, <3>1, <4>1, BeforeOrder
      <4> QED
        BY <1>8, <4>2, BeforeOrder
    <3> QED
      BY <3>2, <3>3
  <2> QED
    BY <2>1, <2>2
<1>11. ASSUME NEW i \in DOMAIN rxFifo
       PROVE  /\ ~Before(p.msg, rxFifo[i].msg) /\ (p # rxInfo => Before(rxFifo[i].msg, p.msg))
              /\ Before(replay, rxFifo[i].msg)
  <2>1. rxFifo[i] \in Packets
    BY <1>3
  <2>2. /\ rxFifo[i].msg.session \in Nat /\ rxFifo[i].msg.counter \in Nat
        /\ rxInfo # Nothing /\ ~Before(rxInfo.msg, rxFifo[i].msg) /\ Before(replay, rxFifo[i].msg)
    BY <1>1, <2>1, PacketParts DEF ReceivedInv
  <2>3. CASE p = rxInfo
    BY <2>2, <2>3
  <2>4. CASE p # rxInfo
    <3>1. Before(rxInfo.msg, p.msg)
      BY <1>9, <2>2, <2>4
    <3>2. Before(rxFifo[i].msg, p.msg)
      BY <1>8, <1>9, <2>2, <3>1, BeforeOrder
    <3> QED
      BY <1>8, <2>2, <3>2, BeforeOrder
  <2> QED
    BY <2>3, <2>4
<1>12. ReceivedInv' /\ rxFifo' \in Seq(Packets) /\ Len(rxFifo') <= RxFifoSize /\ rxInfo' \in Packets \cup {Nothing}
  <2>1. CASE ~heard
    <3>1. UNCHANGED <<rxInfo, rxFifo, replay>>
      BY <1>2, <2>1
    <3> QED
      BY <1>1, <3>1, ReceivedSame DEF TypeInv
  <2>2. CASE heard /\ (IsDuplicate(p) \/ Overflow)
    <3>1. rxInfo' = p /\ rxFifo' = rxFifo /\ replay' = replay
      BY <1>2, <2>2 DEF PrxReceived
    <3>2. rxInfo' # Nothing
      BY <1>4, <3>1, PacketParts
    <3>3. ReceivedInv'
      BY <1>1, <1>10, <1>11, <3>1, <3>2 DEF ReceivedInv
    <3> QED
      BY <1>1, <1>4, <3>1, <3>3 DEF TypeInv
  <2>3. CASE heard /\ ~IsDuplicate(p) /\ ~Overflow
    <3>1. rxInfo' = p /\ rxFifo' = Append(rxFifo, p) /\ replay' = replay /\ p # rxInfo
      BY <1>2, <2>3 DEF PrxReceived, IsDuplicate
    <3>2. rxInfo' # Nothing
      BY <1>4, <3>1, PacketParts
    <3>3. /\ rxFifo' \in Seq(Packets) /\ Len(rxFifo') = Len(rxFifo) + 1 /\ Len(rxFifo) \in Nat
          /\ rxFifo'[Len(rxFifo) + 1] = p /\ \A i \in 1 .. Len(rxFifo) : rxFifo'[i] = rxFifo[i]
          /\ DOMAIN rxFifo = 1 .. Len(rxFifo)
      BY <1>3, <1>4, <3>1
    <3>4. DOMAIN rxFifo' = 1 .. Len(rxFifo) + 1
      BY <3>3
    <3>5. ASSUME NEW i \in DOMAIN rxFifo'
          PROVE  ~Before(p.msg, rxFifo'[i].msg) /\ Before(replay, rxFifo'[i].msg)
      <4>1. CASE i = Len(rxFifo) + 1
        BY <1>8, <1>10, <3>1, <3>3, <4>1, BeforeOrder
      <4>2. CASE i # Len(rxFifo) + 1
        <5>1. i \in DOMAIN rxFifo /\ rxFifo'[i] = rxFifo[i]
          BY <3>3, <3>4, <4>2
        <5> QED
          BY <1>11, <5>1
      <4> QED
        BY <4>1, <4>2
    <3>6. ASSUME NEW i \in DOMAIN rxFifo', NEW j \in DOMAIN rxFifo', i < j
          PROVE  Before(rxFifo'[i].msg, rxFifo'[j].msg)
      <4>1. i \in DOMAIN rxFifo /\ rxFifo'[i] = rxFifo[i]
        BY <3>3, <3>4, <3>6
      <4>2. CASE j = Len(rxFifo) + 1
        BY <1>11, <3>1, <3>3, <4>1, <4>2
      <4>3. CASE j # Len(rxFifo) + 1
        <5>1. j \in DOMAIN rxFifo /\ rxFifo'[j] = rxFifo[j]
          BY <3>3, <3>4, <4>3
        <5> QED
          BY <1>1, <3>6, <4>1, <5>1 DEF ReceivedInv, Sorted
      <4> QED
        BY <4>2, <4>3
    <3>7. ReceivedInv'
      BY <1>10, <3>1, <3>2, <3>5, <3>6 DEF ReceivedInv, Sorted
    <3>8. Len(rxFifo') <= RxFifoSize
      <4>1. Len(rxFifo) <= RxFifoSize /\ Len(rxFifo) # RxFifoSize
        BY <1>1, <2>3 DEF TypeInv, Overflow
      <4> QED
        BY <3>3, <4>1, Sizes
    <3> QED
      BY <1>4, <3>1, <3>3, <3>7, <3>8
  <2> QED
    BY <2>1, <2>2, <2>3
<1>13. faults' \in 0 .. MaxFaults /\ session <= faults' + 1
  <2>1. /\ faults \in Nat /\ faults <= MaxFaults /\ session \in Nat /\ session <= faults + 1 /\ MaxFaults \in Nat
        /\ faults' = faults \/ (faults < MaxFaults /\ faults' = faults + 1)
    BY <1>1, Sizes DEF TypeInv, Sessions
  <2> QED
    BY <2>1
<1>14. excused \subseteq excused' /\ excused' \subseteq ReportTypes
       /\ (Unprocessed' = Unprocessed \/ Carried({p.msg}) \subseteq excused')
  BY <1>1, <1>6, CarriedType DEF TypeInv
<1>15. TypeInv'
  BY <1>1, <1>2, <1>5, <1>12, <1>13, <1>14 DEF TypeInv, TxOk
<1>16. SettleInv'
  <2>1. FailureKnown => FailureKnown'
    BY <1>2 DEF FailureKnown
  <2> QED
    BY <1>1, <1>2, <1>5, <1>6, <1>14, <2>1, SettleLosing
<1> QED
  BY <1>6, <1>7, <1>12, <1>15, <1>16, LosesMoves DEF LinkInv

\* A step of the transmitter that at most loses the message m
LEMMA LosingStep ==
  ASSUME LinkInv, NEW m, Loses(m), TxOk', ready, ready', InOrder(tx'.fifo, rxInfo', Now'), ~ack',
         txEvents' \in Seq({"success", "failed"}), Len(txEvents') <= EventSize,
         FailureKnown => FailureKnown',
         Unprocessed' = Unprocessed \/ FailureKnown' \/ Carried({m}) \subseteq excused',
         excused \subseteq excused', excused' \subseteq ReportTypes,
         faults' = faults \/ (faults < MaxFaults /\ faults' = faults + 1), ack' \in BOOLEAN,
         UNCHANGED <<rxInfo, rxFifo, report, fails, resend, session, counter, dongleVars>>
  PROVE  LinkInv' /\ Moves
<1>1. TypeInv /\ SentInv /\ ReceivedInv /\ SettleInv
  BY DEF LinkInv
<1>2. faults' \in 0 .. MaxFaults /\ session <= faults' + 1
  <2>1. /\ faults \in Nat /\ faults <= MaxFaults /\ session \in Nat /\ session <= faults + 1 /\ MaxFaults \in Nat
        /\ faults' = faults \/ (faults < MaxFaults /\ faults' = faults + 1)
    BY <1>1, Sizes DEF TypeInv, Sessions
  <2> QED
    BY <2>1
<1>3. TypeInv'
  BY <1>1, <1>2 DEF TypeInv, TxOk, dongleVars
<1>4. SentInv'
  BY DEF SentInv
<1>5. ReceivedInv'
  BY <1>1, ReceivedSame DEF dongleVars
<1>6. SettleInv'
  BY <1>1, SettleLosing DEF dongleVars
<1> QED
  BY <1>3, <1>4, <1>5, <1>6, LosesMoves DEF LinkInv

LEMMA StepAckReceived ==
  ASSUME LinkInv, AckReceived, UNCHANGED <<keyboardVars, dongleVars, excused>>
  PROVE  LinkInv' /\ Moves
<1>1. TypeInv /\ SentInv
  BY DEF LinkInv
<1>2. /\ tx.radio = "waiting" /\ ack /\ SignalEvent("success") /\ tx' = NextTx(tx) /\ ack' = FALSE
      /\ UNCHANGED <<rxInfo, rxFifo, report, fails, resend, session, counter, faults, dongleVars, excused>>
  BY DEF AckReceived, keyboardVars
<1>3. tx \in TxType /\ tx.fifo # <<>> /\ tx.fifo \in Seq(Packets) /\ Len(tx.fifo) <= TxFifoSize
  BY <1>1, <1>2, UnderWayType DEF TypeInv
<1>4. tx' \in TxType /\ tx'.fifo = Tail(tx.fifo) /\ tx'.radio = IF Tail(tx.fifo) = <<>> THEN "idle" ELSE "sending"
  BY <1>2, <1>3, NextDoes
<1>5. Len(tx'.fifo) <= TxFifoSize
  BY <1>3, <1>4, Sizes
<1>6. TxOk' /\ ready /\ ready'
  BY <1>2, <1>4, <1>5 DEF TxOk, ready
<1>7. Head(tx.fifo) = rxInfo
  BY <1>1, <1>2, <1>3 DEF SentInv
<1>8. InOrder(tx'.fifo, rxInfo', Now') /\ Unprocessed' = Unprocessed
  BY <1>1, <1>2, <1>3, <1>4, <1>7, HeadRemoved
<1>9. /\ txEvents' \in Seq({"success", "failed"}) /\ Len(txEvents') <= EventSize
      /\ FailureKnown => FailureKnown'
  BY <1>1, <1>2, Signalled DEF TypeInv
<1>10. Loses(rxInfo.msg)
  BY <1>8 DEF Loses
<1> QED
  BY <1>1, <1>2, <1>6, <1>8, <1>9, <1>10, LosingStep DEF TypeInv

LEMMA StepAckTimeout ==
  ASSUME LinkInv, AckTimeout \/ Retransmit, UNCHANGED <<keyboardVars, dongleVars, excused>>
  PROVE  LinkInv' /\ Moves
<1>1. TypeInv /\ SentInv
  BY DEF LinkInv
<1>2. UNCHANGED <<txEvents, ack, rxInfo, rxFifo, report, fails, resend, session, counter, faults, dongleVars, excused>>
  BY DEF AckTimeout, Retransmit, keyboardVars
<1>3. tx \in TxType /\ Len(tx.fifo) <= TxFifoSize
  BY <1>1 DEF TypeInv
<1>4. /\ tx.radio \in {"waiting", "pausing"} /\ ~ack /\ tx' \in TxType /\ tx'.fifo = tx.fifo
      /\ tx'.radio \in {"pausing", "sending"}
  <2>1. CASE AckTimeout
    <3>1. tx.left \in 0 .. RetransmitCount /\ tx.left > 0 /\ tx.left - 1 \in 0 .. RetransmitCount
      BY <1>3, <2>1, Sizes DEF AckTimeout, TxType
    <3> QED
      BY <1>3, <2>1, <3>1 DEF AckTimeout, TxType, Radio
  <2>2. CASE Retransmit
    <3>1. ~ack
      BY <1>1, <2>2 DEF Retransmit, SentInv
    <3> QED
      BY <1>3, <2>2, <3>1 DEF Retransmit, TxType, Radio
  <2> QED
    BY <2>1, <2>2
<1>5. TxOk' /\ ready /\ ready'
  BY <1>1, <1>3, <1>4 DEF TxOk, ready, TypeInv
<1>6. Unprocessed' = Unprocessed
  BY <1>2, <1>4, SameUnderWay
<1>7. InOrder(tx'.fifo, rxInfo', Now')
  BY <1>1, <1>2, <1>4 DEF SentInv, Now
<1>8. Loses(rxInfo.msg)
  BY <1>6 DEF Loses
<1>9. /\ txEvents' \in Seq({"success", "failed"}) /\ Len(txEvents') <= EventSize
      /\ FailureKnown => FailureKnown'
  BY <1>1, <1>2 DEF TypeInv, FailureKnown
<1> QED
  BY <1>1, <1>2, <1>4, <1>5, <1>6, <1>7, <1>8, <1>9, LosingStep DEF TypeInv

LEMMA OverlookedType == \A ms : Overlooked(ms) \subseteq ReportTypes
BY DEF Overlooked, Carried

LEMMA StepTransmitFailed ==
  ASSUME LinkInv, TransmitFailed, excused' = excused \cup Overlooked({Head(tx.fifo).msg}),
         UNCHANGED <<keyboardVars, dongleVars>>
  PROVE  LinkInv' /\ Moves
<1>1. TypeInv /\ SentInv
  BY DEF LinkInv
<1>2. /\ tx.radio = "waiting" /\ ~ack /\ SignalEvent("failed") /\ tx' = NextTx(tx) /\ ack' = ack
      /\ UNCHANGED <<rxInfo, rxFifo, report, fails, resend, session, counter, faults, dongleVars>>
  BY DEF TransmitFailed, keyboardVars
<1>3. tx \in TxType /\ tx.fifo # <<>> /\ tx.fifo \in Seq(Packets) /\ Len(tx.fifo) <= TxFifoSize
  BY <1>1, <1>2, UnderWayType DEF TypeInv
<1>4. tx' \in TxType /\ tx'.fifo = Tail(tx.fifo) /\ tx'.radio = IF Tail(tx.fifo) = <<>> THEN "idle" ELSE "sending"
  BY <1>2, <1>3, NextDoes
<1>5. Len(tx'.fifo) <= TxFifoSize
  BY <1>3, <1>4, Sizes
<1>6. TxOk' /\ ready /\ ready'
  BY <1>2, <1>4, <1>5 DEF TxOk, ready
<1>7. InOrder(tx'.fifo, rxInfo', Now') /\ Loses(Head(tx.fifo).msg)
  BY <1>1, <1>2, <1>3, <1>4, HeadRemoved DEF Loses
<1>8. /\ txEvents' \in Seq({"success", "failed"}) /\ Len(txEvents') <= EventSize
      /\ FailureKnown => FailureKnown'
      /\ ~Unheard => FailureKnown'
  BY <1>1, <1>2, Signalled DEF TypeInv
<1>9. excused \subseteq excused' /\ excused' \subseteq ReportTypes
      /\ (Unheard => Carried({Head(tx.fifo).msg}) \subseteq excused')
  BY <1>1, OverlookedType DEF TypeInv, Overlooked
<1> QED
  BY <1>1, <1>2, <1>6, <1>7, <1>8, <1>9, LosingStep DEF TypeInv

LEMMA StepWatchdog ==
  ASSUME LinkInv, Watchdog
  PROVE  LinkInv' /\ Moves
<1>1. TypeInv /\ SentInv
  BY DEF LinkInv
<1>2. /\ tx.radio \notin {"idle", "off"} /\ SignalEvent("failed") /\ ack' = FALSE
      /\ tx' = [tx EXCEPT !.radio = "idle", !.fifo = IF @ = <<>> THEN @ ELSE Tail(@)]
      /\ faults < MaxFaults /\ faults' = faults + 1
      /\ excused' = excused \cup Overlooked(MessagesOf(tx.fifo))
      /\ UNCHANGED <<rxInfo, rxFifo, report, fails, resend, session, counter, dongleVars>>
  BY DEF Watchdog, WatchdogHandler
<1>3. tx \in TxType /\ tx.fifo # <<>> /\ tx.fifo \in Seq(Packets) /\ Len(tx.fifo) <= TxFifoSize
  BY <1>1, <1>2, UnderWayType DEF TypeInv
<1>4. Tail(tx.fifo) \in Seq(Packets) /\ Len(Tail(tx.fifo)) <= TxFifoSize
  BY <1>3, Sizes
<1>5. tx' \in TxType /\ tx'.fifo = Tail(tx.fifo) /\ tx'.radio = "idle"
  BY <1>2, <1>3, <1>4 DEF TxType, Radio
<1>6. TxOk' /\ ready /\ ready'
  BY <1>2, <1>4, <1>5 DEF TxOk, ready
<1>7. InOrder(tx'.fifo, rxInfo', Now') /\ Loses(Head(tx.fifo).msg)
  BY <1>1, <1>2, <1>3, <1>5, HeadRemoved DEF Loses
<1>8. /\ txEvents' \in Seq({"success", "failed"}) /\ Len(txEvents') <= EventSize
      /\ FailureKnown => FailureKnown'
      /\ ~Unheard => FailureKnown'
  BY <1>1, <1>2, Signalled DEF TypeInv
<1>9. excused \subseteq excused' /\ excused' \subseteq ReportTypes
      /\ (Unheard => Carried({Head(tx.fifo).msg}) \subseteq excused')
  <2>1. Head(tx.fifo).msg \in MessagesOf(tx.fifo)
    <3>1. Head(tx.fifo) = tx.fifo[1] /\ 1 \in DOMAIN tx.fifo
      BY <1>3
    <3> QED
      BY <3>1 DEF MessagesOf
  <2>2. Carried({Head(tx.fifo).msg}) \subseteq Carried(MessagesOf(tx.fifo))
    BY <2>1 DEF Carried
  <2> QED
    BY <1>1, <1>2, <2>2, OverlookedType DEF TypeInv, Overlooked
<1> QED
  BY <1>1, <1>2, <1>6, <1>7, <1>8, <1>9, LosingStep DEF TypeInv

\* The first packet of the dongle's FIFO is always accepted, and what is remembered is its
\* session and counter
LEMMA Accepted ==
  ASSUME TypeInv, ReceivedInv, rxFifo # <<>>
  PROVE  LET m == rxFifo[1].msg
         IN /\ Accept(m) /\ Remember(m) \in SeenType
            /\ Remember(m).session = m.session /\ Remember(m).counter = m.counter
<1> DEFINE m == rxFifo[1].msg
<1>1. rxFifo \in Seq(Packets) /\ replay \in SeenType /\ 1 \in DOMAIN rxFifo /\ rxFifo[1] \in Packets
  BY UnderWayType DEF TypeInv
<1>2. /\ m.session \in Sessions /\ m.counter \in 0 .. CounterMax - 1
      /\ m.session \in Nat /\ m.counter \in Nat
  BY <1>1, PacketParts
<1>3. /\ replay.session \in Nat /\ replay.counter \in Nat /\ replay.counter \in 0 .. CounterMax
      /\ replay.seen \subseteq 0 .. CounterMax
  BY <1>1, Sizes DEF SeenType, Sessions
<1>4. Before(replay, m)
  BY <1>1 DEF ReceivedInv
<1>5. \/ replay.session < m.session
      \/ replay.session = m.session /\ replay.counter < m.counter
  BY <1>4 DEF Before
<1>6. Accept(m)
  BY <1>2, <1>3, <1>5 DEF Accept
<1>7. ~(m.session = replay.session /\ m.counter < replay.counter)
  BY <1>2, <1>3, <1>5
<1>8. m.counter \in 0 .. CounterMax
  BY <1>2, Sizes
<1> DEFINE kept == {c \in {m.counter} \cup (IF m.session = replay.session THEN replay.seen ELSE {}) :
                      c > m.counter - ReplayWindow}
<1>9. kept \in SUBSET (0 .. CounterMax)
  BY <1>3, <1>8
<1>10. Remember(m) = [session |-> m.session, counter |-> m.counter, seen |-> kept]
  BY <1>7 DEF Remember
<1> QED
  BY <1>2, <1>6, <1>8, <1>9, <1>10 DEF SeenType

LEMMA StepHandlePayload ==
  ASSUME LinkInv, NEW suspended \in BOOLEAN, HandlePayload(suspended)
  PROVE  LinkInv' /\ Moves
<1> DEFINE m == rxFifo[1].msg
<1> DEFINE told == m.type \in ReportTypes /\ ~suspended
<1>1. TypeInv /\ SentInv /\ ReceivedInv /\ SettleInv
  BY DEF LinkInv
<1>2. /\ rxFifo # <<>> /\ rxFifo' = Tail(rxFifo) /\ UNCHANGED <<tx, txEvents, ack, rxInfo>>
      /\ UNCHANGED <<report, fails, resend, session, counter, faults>>
  BY DEF HandlePayload, ReadRxPayload, keyboardVars
<1>3. /\ rxFifo \in Seq(Packets) /\ 1 \in DOMAIN rxFifo /\ rxFifo[1] \in Packets /\ Head(rxFifo) = rxFifo[1]
      /\ Unprocessed \in Seq(Messages)
  BY <1>1, <1>2, UnderWayType
<1>4. Accept(m) /\ Remember(m) \in SeenType /\ Remember(m).session = m.session /\ Remember(m).counter = m.counter
  BY <1>1, <1>2, Accepted
<1>5. /\ connected' = TRUE /\ replay' = Remember(m)
      /\ IF told THEN host' = [host EXCEPT ![m.type] = m.body] /\ UNCHANGED excused
         ELSE UNCHANGED host /\ excused' = excused \cup Carried({m})
  BY <1>3, <1>4 DEF HandlePayload
<1>6. Unprocessed # <<>> /\ Unprocessed' = Tail(Unprocessed) /\ Unprocessed[1] = m
  BY <1>1, <1>2, HeadProcessed
<1>7. excused \subseteq excused' /\ excused' \subseteq ReportTypes
  BY <1>1, <1>5, CarriedType DEF TypeInv
<1>8. TypeInv'
  <2>1. rxFifo' \in Seq(Packets) /\ Len(rxFifo') <= RxFifoSize
    <3>1. Len(rxFifo) <= RxFifoSize
      BY <1>1 DEF TypeInv
    <3> QED
      BY <1>2, <1>3, <3>1, Sizes
  <2>2. host' \in [ReportTypes -> AllBodies] /\ \A t \in ReportTypes : host'[t] \in Bodies[t]
    <3>1. CASE told
      <4>1. m.body \in Bodies[m.type] /\ m.body \in AllBodies
        BY <1>3, <3>1, PacketParts, TypesKnown
      <4>2. host \in [ReportTypes -> AllBodies] /\ \A t \in ReportTypes : host[t] \in Bodies[t]
        BY <1>1 DEF TypeInv
      <4> QED
        BY <1>5, <3>1, <4>1, <4>2
    <3>2. CASE ~told
      BY <1>1, <1>5, <3>2 DEF TypeInv
    <3> QED
      BY <3>1, <3>2
  <2> QED
    BY <1>1, <1>2, <1>4, <1>5, <1>7, <2>1, <2>2 DEF TypeInv
<1>9. SentInv'
  BY <1>1, <1>2 DEF SentInv, Now
<1>10. ReceivedInv'
  <2>1. replay'.session = m.session /\ replay'.counter = m.counter
    BY <1>4, <1>5
  <2>2. ASSUME NEW i \in DOMAIN rxFifo'
        PROVE  i + 1 \in DOMAIN rxFifo /\ rxFifo'[i] = rxFifo[i + 1] /\ i \in Nat /\ 1 < i + 1
    BY <1>2, <1>3
  <2>3. rxInfo # Nothing /\ ~Before(rxInfo.msg, m)
    BY <1>1, <1>3 DEF ReceivedInv
  <2>4. ~Before(rxInfo.msg, replay')
    BY <2>1, <2>3 DEF Before
  <2>5. ASSUME NEW i \in DOMAIN rxFifo'
        PROVE  ~Before(rxInfo.msg, rxFifo'[i].msg) /\ Before(replay', rxFifo'[i].msg)
    <3>1. ~Before(rxInfo.msg, rxFifo[i + 1].msg)
      BY <1>1, <2>2 DEF ReceivedInv
    <3>2. Before(m, rxFifo[i + 1].msg)
      BY <1>1, <1>3, <2>2 DEF ReceivedInv, Sorted
    <3>3. Before(replay', rxFifo[i + 1].msg)
      BY <2>1, <3>2 DEF Before
    <3> QED
      BY <2>2, <3>1, <3>3
  <2>6. ASSUME NEW i \in DOMAIN rxFifo', NEW j \in DOMAIN rxFifo', i < j
        PROVE  Before(rxFifo'[i].msg, rxFifo'[j].msg)
    <3>1. i + 1 < j + 1
      BY <2>2, <2>6
    <3>2. Before(rxFifo[i + 1].msg, rxFifo[j + 1].msg)
      BY <1>1, <2>2, <3>1 DEF ReceivedInv, Sorted
    <3> QED
      BY <2>2, <3>2
  <2> QED
    BY <1>2, <2>3, <2>4, <2>5, <2>6 DEF ReceivedInv, Sorted
<1>11. SettleInv'
  <2>1. ToResend' = ToResend /\ (FailureKnown' <=> FailureKnown) /\ (ready' <=> ready)
    BY <1>2 DEF ToResend, FailureKnown, ready
  <2>2. ASSUME NEW t \in ReportTypes \ excused', ~FailureKnown, t \notin ToResend
        PROVE  Shows(Unprocessed', t, host'[t], report[t])
    <3>1. Shows(Unprocessed, t, host[t], report[t])
      BY <1>1, <1>7, <2>2 DEF SettleInv
    <3>2. CASE told
      <4>1. host'[t] = IF m.type = t THEN m.body ELSE host[t]
        BY <1>1, <1>5, <3>2 DEF TypeInv
      <4> QED
        BY <1>3, <1>6, <3>1, <4>1, ShowsTail
    <3>3. CASE ~told
      <4>1. t \notin Carried({m}) /\ host' = host
        BY <1>5, <2>2, <3>3
      <4>2. ~(Unprocessed[1].type = t /\ Unprocessed[1].body = report[t])
        BY <1>6, <4>1 DEF Carried
      <4> QED
        BY <1>3, <1>6, <3>1, <4>1, <4>2, TailIsWithout, ShowsWithout
    <3> QED
      BY <3>2, <3>3
  <2>3. (ready \/ txEvents = <<>> \/ excused = ReportTypes)'
    BY <1>1, <1>2, <1>7, <2>1 DEF SettleInv
  <2> QED
    BY <1>2, <2>1, <2>2, <2>3 DEF SettleInv
<1>12. Moves
  BY <1>3, <1>6, TailIsWithout DEF Moves, Kept
<1> QED
  BY <1>8, <1>9, <1>10, <1>11, <1>12 DEF LinkInv

LEMMA StepKbLost ==
  ASSUME LinkInv, NEW suspended \in BOOLEAN, KbLost(suspended)
  PROVE  LinkInv' /\ Moves
<1>1. TypeInv /\ SentInv /\ ReceivedInv /\ SettleInv
  BY DEF LinkInv
<1>2. /\ UNCHANGED <<tx, txEvents, ack, rxInfo, rxFifo, report, fails, resend, session, counter, faults, replay>>
      /\ connected' = FALSE
      /\ IF suspended THEN UNCHANGED <<host, excused>>
         ELSE /\ host' = [t \in ReportTypes |-> Released]
              /\ excused' = excused \cup {t \in ReportTypes : report[t] # Released}
  BY DEF KbLost, esbVars, keyboardVars
<1>3. excused \subseteq excused' /\ excused' \subseteq ReportTypes
  BY <1>1, <1>2 DEF TypeInv
<1>4. TypeInv'
  <2>1. host' \in [ReportTypes -> AllBodies] /\ \A t \in ReportTypes : host'[t] \in Bodies[t]
    <3>1. CASE suspended
      BY <1>1, <1>2, <3>1 DEF TypeInv
    <3>2. CASE ~suspended
      BY <1>2, <3>2, TypesKnown
    <3> QED
      BY <3>1, <3>2
  <2> QED
    BY <1>1, <1>2, <1>3, <2>1 DEF TypeInv
<1>5. SentInv'
  BY <1>1, <1>2 DEF SentInv, Now
<1>6. ReceivedInv'
  BY <1>1, <1>2, ReceivedSame
<1>7. Unprocessed' = Unprocessed
  BY <1>2, SameUnderWay
<1>8. SettleInv'
  <2>1. ToResend' = ToResend /\ (FailureKnown' <=> FailureKnown) /\ (ready' <=> ready)
    BY <1>2 DEF ToResend, FailureKnown, ready
  <2>2. ASSUME NEW t \in ReportTypes \ excused', ~FailureKnown, t \notin ToResend
        PROVE  Shows(Unprocessed, t, host'[t], report[t])
    <3>1. Shows(Unprocessed, t, host[t], report[t])
      BY <1>1, <1>3, <2>2 DEF SettleInv
    <3>2. host'[t] = host[t] \/ host'[t] = report[t]
      BY <1>2, <2>2
    <3> QED
      BY <3>1, <3>2 DEF Shows
  <2>3. (ready \/ txEvents = <<>> \/ excused = ReportTypes)'
    BY <1>1, <1>2, <1>3, <2>1 DEF SettleInv
  <2> QED
    BY <1>2, <1>7, <2>1, <2>2, <2>3 DEF SettleInv
<1>9. Moves
  BY <1>7 DEF Moves, Kept
<1> QED
  BY <1>4, <1>5, <1>6, <1>8, <1>9 DEF LinkInv
-----------------------------------------------------------------------------
(* The theorems *)

LEMMA InitLink == Init => LinkInv
<1> SUFFICES ASSUME Init PROVE LinkInv
  OBVIOUS
<1>1. /\ tx = Off /\ txEvents = <<>> /\ ack = FALSE /\ rxInfo = Nothing /\ rxFifo = <<>>
      /\ report = [t \in ReportTypes |-> Released] /\ host = [t \in ReportTypes |-> Released]
      /\ fails = 0 /\ resend = 0 /\ session = 1 /\ counter = 0 /\ faults = 0
      /\ replay = [session |-> 0, counter |-> 0, seen |-> {}] /\ connected = FALSE /\ excused = {}
  BY DEF Init
<1>2. /\ 0 \in 0 .. FailureWrap - 1 /\ 0 \in 0 .. Len(Types) /\ 1 \in Sessions /\ 0 \in 0 .. CounterMax
      /\ 0 \in 0 .. MaxFaults /\ 1 <= 0 + 1 /\ 0 <= TxFifoSize /\ 0 <= RxFifoSize /\ 0 <= EventSize
  BY Sizes, TypesKnown DEF Sessions
<1>3. replay \in SeenType
  BY <1>1, <1>2 DEF SeenType
<1>4. TypeInv
  <2>1. <<>> \in Seq({"success", "failed"}) /\ <<>> \in Seq(Packets) /\ Len(<<>>) = 0
    OBVIOUS
  <2>2. /\ tx \in TxType /\ Len(tx.fifo) <= TxFifoSize
        /\ (tx.radio \notin {"idle", "off"} => tx.fifo # <<>>) /\ (tx.radio = "off" => tx.fifo = <<>>)
    BY <1>1, <1>2, <2>1, OffAndReady
  <2>3. /\ txEvents \in Seq({"success", "failed"}) /\ Len(txEvents) <= EventSize
        /\ rxFifo \in Seq(Packets) /\ Len(rxFifo) <= RxFifoSize
    BY <1>1, <1>2, <2>1
  <2>4. /\ report \in [ReportTypes -> AllBodies] /\ host \in [ReportTypes -> AllBodies]
        /\ \A t \in ReportTypes : report[t] \in Bodies[t] /\ host[t] \in Bodies[t]
    BY <1>1, TypesKnown
  <2> QED
    BY <1>1, <1>2, <1>3, <2>2, <2>3, <2>4 DEF TypeInv
<1>5. SentInv
  BY <1>1, OffAndReady DEF SentInv, InOrder, Sorted
<1>6. ReceivedInv
  BY <1>1 DEF ReceivedInv, Sorted
<1>7. Unprocessed = <<>>
  <2>1. Waiting(tx.fifo, rxInfo) = <<>>
    BY <1>1, OffAndReady DEF Waiting
  <2>2. rxFifo \o Waiting(tx.fifo, rxInfo) = <<>>
    BY <1>1, <2>1
  <2> QED
    BY <2>2, UnprocessedIs, MsgsEmpty
<1>8. SettleInv
  BY <1>1, <1>7 DEF SettleInv, Shows
<1> QED
  BY <1>4, <1>5, <1>6, <1>8 DEF LinkInv

LEMMA StepLink ==
  ASSUME LinkInv, [Next]_vars
  PROVE  LinkInv' /\ Moves
<1>1. CASE \E t \in ReportTypes : \E body \in Bodies[t] : ReportChanged(t, body)
  BY <1>1, StepReportChanged
<1>2. CASE KeyboardWork
  BY <1>2, StepResendWork, StepTxSuccess, StepTxFailed DEF KeyboardWork
<1>3. CASE KeepaliveHandler
  BY <1>3, StepKeepalive
<1>4. CASE Start \/ Stop \/ Restart
  BY <1>4, StepStart, StepStop, StepRestart
<1>5. CASE Interrupt
  <2>1. CASE \E heard, acked \in BOOLEAN :
               /\ IF (heard /\ acked) \/ (~heard /\ Outage) THEN UNCHANGED faults
                  ELSE faults < MaxFaults /\ faults' = faults + 1
               /\ TransmitDone(heard, acked)
               /\ excused' = IF heard /\ Overflow /\ ~IsDuplicate(Head(tx.fifo))
                             THEN excused \cup Carried({Head(tx.fifo).msg}) ELSE excused
               /\ UNCHANGED <<report, fails, resend, session, counter, dongleVars>>
    BY <2>1, StepTransmitDone
  <2>2. CASE (AckReceived \/ AckTimeout \/ Retransmit) /\ UNCHANGED <<keyboardVars, dongleVars, excused>>
    BY <2>2, StepAckReceived, StepAckTimeout
  <2>3. CASE /\ TransmitFailed /\ excused' = excused \cup Overlooked({Head(tx.fifo).msg})
             /\ UNCHANGED <<keyboardVars, dongleVars>>
    BY <2>3, StepTransmitFailed
  <2> QED
    BY <1>5, <2>1, <2>2, <2>3 DEF Interrupt
<1>6. CASE Watchdog
  BY <1>6, StepWatchdog
<1>7. CASE \E suspended \in BOOLEAN : HandlePayload(suspended) \/ KbLost(suspended)
  BY <1>7, StepHandlePayload, StepKbLost
<1>8. CASE UNCHANGED vars
  <2>1. UNCHANGED <<tx, txEvents, ack, rxInfo, rxFifo, report, fails, resend, session, counter, faults,
                    replay, connected, host, excused>>
    BY <1>8 DEF vars, esbVars, keyboardVars, dongleVars
  <2>2. Unprocessed' = Unprocessed
    BY <2>1, SameUnderWay
  <2>3. TypeInv' /\ SentInv' /\ ReceivedInv'
    BY <2>1, ReceivedSame DEF LinkInv, TypeInv, SentInv, Now
  <2>4. SettleInv'
    BY <2>1, <2>2 DEF LinkInv, SettleInv, ready, FailureKnown, ToResend
  <2> QED
    BY <2>2, <2>3, <2>4 DEF LinkInv, Moves, Kept
<1> QED
  BY <1>1, <1>2, <1>3, <1>4, <1>5, <1>6, <1>7, <1>8 DEF Next

LEMMA Invariance == Spec => []LinkInv
<1>1. LinkInv /\ [Next]_vars => LinkInv'
  BY StepLink
<1> QED
  BY <1>1, InitLink, PTL DEF Spec

\* At rest nothing is under way
LEMMA RestSettles ==
  ASSUME LinkInv, AtRest, NEW t \in ReportTypes \ excused
  PROVE  host[t] = report[t]
<1>1. TypeInv /\ SettleInv
  BY DEF LinkInv
<1>2. ready /\ tx.fifo = <<>> /\ txEvents = <<>> /\ resend = 0 /\ rxFifo = <<>>
  BY DEF AtRest
<1>3. Unprocessed = <<>>
  <2>1. rxFifo \o Waiting(tx.fifo, rxInfo) = <<>>
    BY <1>2 DEF Waiting
  <2> QED
    BY <2>1, UnprocessedIs, MsgsEmpty
<1>4. ToResend = {}
  BY <1>1, <1>2, ResendType
<1>5. ~FailureKnown
  BY <1>2 DEF FailureKnown
<1>6. Shows(Unprocessed, t, host[t], report[t])
  BY <1>1, <1>4, <1>5 DEF SettleInv
<1> QED
  BY <1>3, <1>6 DEF Shows

LEMMA LinkTypes == LinkInv => TypeOK
BY DEF LinkInv, TypeInv, TypeOK, TxType, SeenType

\* Once the 2.4G link has nothing left to send, resend or process, the dongle has told the
\* host the reports the keyboard has, unless the code has given a report up: whatever was
\* lost, retransmitted, flushed or received twice, and for FIFOs of any size.
THEOREM Link24Agrees == Spec => []HostAgrees
<1>1. LinkInv => HostAgrees
  BY LinkTypes, RestSettles DEF HostAgrees
<1> QED
  BY <1>1, Invariance, PTL

LEMMA InitFifo == Init => Fifo!Init
<1> SUFFICES ASSUME Init PROVE Unprocessed = <<>>
  BY DEF Fifo!Init
<1>1. rxFifo = <<>> /\ tx.fifo = <<>>
  BY OffAndReady DEF Init
<1>2. rxFifo \o Waiting(tx.fifo, rxInfo) = <<>>
  BY <1>1 DEF Waiting
<1> QED
  BY <1>2, UnprocessedIs, MsgsEmpty

LEMMA StepFifo ==
  ASSUME LinkInv, [Next]_vars
  PROVE  /\ [Fifo!Put \/ Fifo!Lose \/ Fifo!Deliver]_Unprocessed
         /\ [Fifo!IsLeftOf(Unprocessed', Unprocessed) \/ <<session, counter>>' # <<session, counter>>]_vars
<1>1. Moves /\ Unprocessed \in Seq(Messages)
  BY StepLink, UnderWayType DEF LinkInv
<1>2. CASE Kept(Unprocessed, Unprocessed')
  <2>1. /\ Fifo!IsLeftOf(Unprocessed', Unprocessed)
        /\ Unprocessed' = Unprocessed \/ Len(Unprocessed') < Len(Unprocessed)
    BY <1>1, <1>2, KeptLoses
  <2> QED
    BY <2>1 DEF Fifo!Lose
<1>3. CASE Grown(Unprocessed, Unprocessed') /\ <<session, counter>>' # <<session, counter>>
  <2>1. /\ Unprocessed' # <<>> /\ Unprocessed'[Len(Unprocessed')] \in Messages
        /\ Fifo!IsLeftOf(SubSeq(Unprocessed', 1, Len(Unprocessed') - 1), Unprocessed)
    BY <1>1, <1>3, GrownPuts
  <2> QED
    BY <1>3, <2>1 DEF Fifo!Put
<1> QED
  BY <1>1, <1>2, <1>3 DEF Moves

\* The 2.4G link implements a lossy FIFO: the dongle processes each message at most once
\* and in the order the keyboard sent them, through lost acknowledgements, retransmissions,
\* full FIFOs, flushes, hangs of the radio and restarts; and there is nothing more to
\* process unless the keyboard has used a new counter or session.
THEOREM Link24InOrder == Spec => DeliversInOrder
<1>1. LinkInv /\ [Next]_vars => [Fifo!Put \/ Fifo!Lose \/ Fifo!Deliver]_Unprocessed
  BY StepFifo
<1>2. LinkInv /\ [Next]_vars =>
        [Fifo!IsLeftOf(Unprocessed', Unprocessed) \/ <<session, counter>>' # <<session, counter>>]_vars
  BY StepFifo
<1> QED
  BY <1>1, <1>2, Invariance, InitFifo, PTL DEF Spec, Fifo!Spec, DeliversInOrder
=============================================================================
