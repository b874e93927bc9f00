-------------------------------- MODULE Link24 --------------------------------
(***************************************************************************)
(* The 2.4G link: src/app/src/2g4.c on the keyboard, 2g4_dongle.c on the   *)
(* dongle, the counters of 2g4_crypto.c, over the driver of Esb.  All of   *)
(* the keyboard runs on its work queue, all of the dongle on its own; the  *)
(* interrupts of Esb come between.                                         *)
(*                                                                         *)
(* Operators whose comment starts with "Fault:" are faulty variants of the *)
(* definition that follows, which nothing uses.                            *)
(***************************************************************************)
EXTENDS Esb, FiniteSets

CONSTANTS
  Types,         \* report types, in the order resend_work_handler sends them
  Bodies,        \* per type, the contents of a report
  Released,      \* the one with nothing pressed
  MaxFailures,   \* CONFIG_ZMK_2G4_MAX_CONSEC_FAILURES
  FailureWrap,   \* consec_fail_count is a uint8_t
  CounterMax,    \* tx_counter ends at 2^32 - 1
  ReplayWindow,  \* REPLAY_WINDOW
  MaxFaults      \* bound on outages, lost acknowledgements, hangs, stops and restarts

ASSUME LinkAssumption ==
  /\ Types \in Seq(STRING \ {"keepalive", "boot"}) /\ Types # <<>>
  /\ \A i \in DOMAIN Types : Released \in Bodies[Types[i]]
  /\ MaxFailures \in Nat \ {0} /\ FailureWrap \in Nat \ {0} /\ MaxFailures < FailureWrap
  /\ {CounterMax, ReplayWindow, MaxFaults} \subseteq Nat

ReportTypes == {Types[i] : i \in DOMAIN Types}

VARIABLES
  report,     \* the reports of hid.c on the keyboard
  fails,      \* consec_fail_count
  resend,     \* resend_work: how many of Types it has yet to send
  session,    \* tx_session_id
  counter,    \* tx_counter
  replay,     \* rx_session_id, rx_counter and rx_window of the dongle
  connected,  \* kb_connected; kb_lost_work is then scheduled
  host,       \* what the host was told last
  excused,    \* history: types whose last report the code does not try to deliver any more
  faults      \* how many of those there were, lost packets included
keyboardVars == <<report, fails, resend, session, counter, faults>>
dongleVars == <<replay, connected, host>>
vars == <<esbVars, keyboardVars, dongleVars, excused>>

ready == tx.radio # "off"  \* keepalive_work is scheduled just as long
Idle == resend \in {0, Len(Types)}  \* no resend is half done

\* Types whose present report is in one of the messages
Carried(ms) == {t \in ReportTypes : \E m \in ms : m.type = t /\ m.body = report[t]}
MessagesOf(fifo) == {fifo[i].msg : i \in DOMAIN fifo}
-----------------------------------------------------------------------------
(* Keyboard *)

Message(type, body) == [type |-> type, body |-> body, session |-> session, counter |-> counter]

\* Fault: a report that finds no room is dropped.
PutReportOnce(t, m) == IF Room(t) THEN WritePayload(t, m) ELSE t
\* send_report: without room it discards what waits and tries again
PutReport(t, m) ==
  IF Room(t) THEN WritePayload(t, m)
  ELSE IF Room(FlushTx(t)) THEN WritePayload(FlushTx(t), m) ELSE FlushTx(t)

\* send_report with zmk_2g4_crypto_encrypt, which fails at the end of the counter
SendReport(t, body) ==
  /\ ready
  /\ IF counter < CounterMax
     THEN /\ tx' = PutReport(tx, Message(t, body)) /\ counter' = counter + 1
     ELSE UNCHANGED <<tx, counter>>

\* A report of type t that fails to be sent is given up, and so is what was discarded to
\* make room for it.  In a FIFO of one packet that is in flight flushing makes no room.
Discarded == MessagesOf(tx.fifo) \ MessagesOf(tx'.fifo)
GivesUp(t) ==
  excused' = IF counter < CounterMax /\ Room(FlushTx(tx))
             THEN (excused \ {t}) \cup (Carried(Discarded) \ {t})
             ELSE excused \cup {t}

\* A report changes and is sent: zmk_endpoints_send_report while 2.4G is selected
ReportChanged(t, body) ==
  /\ Idle /\ body # report[t]
  /\ report' = [report EXCEPT ![t] = body]
  /\ SendReport(t, body)
  /\ GivesUp(t)
  /\ UNCHANGED <<txEvents, ack, rxInfo, rxFifo, fails, resend, session, faults, dongleVars>>

\* resend_work_handler sends the reports of all types
ResendWork ==
  /\ resend > 0
  /\ LET t == Types[Len(Types) - resend + 1]
     IN SendReport(t, report[t]) /\ GivesUp(t)
  /\ resend' = resend - 1
  /\ UNCHANGED <<txEvents, ack, rxInfo, rxFifo, report, fails, session, faults, dongleVars>>

\* keepalive_handler schedules itself again in any case; a transmission with all its
\* retransmissions is shorter than its interval
KeepaliveHandler ==
  /\ tx.radio = "idle" /\ txEvents = <<>> /\ resend = 0
  /\ fails < MaxFailures /\ counter < CounterMax
  /\ counter' = counter + 1
  /\ tx' = IF Room(tx) THEN WritePayload(tx, Message("keepalive", Released)) ELSE tx
  /\ UNCHANGED <<txEvents, ack, rxInfo, rxFifo, report, fails, resend, session,
                 faults, dongleVars, excused>>

\* esb_event_handler for one event
TxSuccess ==
  /\ Idle /\ txEvents # <<>> /\ Head(txEvents) = "success"
  /\ txEvents' = Tail(txEvents) /\ fails' = 0
  /\ UNCHANGED <<tx, ack, rxInfo, rxFifo, report, resend, session, counter, faults,
                 dongleVars, excused>>
\* Fault: a failure is only counted.
TxFailedCounted ==
  /\ Idle /\ txEvents # <<>> /\ Head(txEvents) = "failed"
  /\ txEvents' = Tail(txEvents) /\ fails' = (fails + 1) % FailureWrap
  /\ UNCHANGED <<tx, ack, rxInfo, rxFifo, report, resend, session, counter, faults,
                 dongleVars, excused>>
TxFailed ==
  /\ Idle /\ txEvents # <<>> /\ Head(txEvents) = "failed"
  /\ txEvents' = Tail(txEvents)
  /\ tx' = IF ready THEN FlushTx(tx) ELSE tx
  /\ fails' = (fails + 1) % FailureWrap
  /\ IF fails' < MaxFailures
     THEN /\ resend' = IF ready THEN Len(Types) ELSE 0
          /\ UNCHANGED excused
     ELSE /\ excused' = excused \cup ReportTypes
          /\ UNCHANGED resend
  /\ UNCHANGED <<ack, rxInfo, rxFifo, report, session, counter, faults, dongleVars>>

Boot(s, c) == [type |-> "boot", body |-> Released, session |-> s, counter |-> c]

\* zmk_2g4_start: the link comes up and announces itself
Started(s, c) ==
  /\ tx' = IF c < CounterMax THEN WritePayload(Ready, Boot(s, c)) ELSE Ready
  /\ session' = s /\ counter' = IF c < CounterMax THEN c + 1 ELSE c
  /\ excused' = ReportTypes

\* zmk_2g4_stop, when another transport is selected
Stop ==
  /\ Idle /\ ready
  /\ faults < MaxFaults /\ faults' = faults + 1
  /\ tx' = Off /\ ack' = FALSE /\ resend' = 0
  /\ excused' = ReportTypes
  /\ UNCHANGED <<txEvents, rxInfo, rxFifo, report, fails, session, counter, dongleVars>>

Start ==
  /\ ~ready
  /\ Started(session, counter)
  /\ UNCHANGED <<txEvents, ack, rxInfo, rxFifo, report, fails, resend, faults, dongleVars>>

\* The keyboard loses power and comes back in a new session
\* (zmk_2g4_crypto_reserve_session_id has counted it in flash)
Restart ==
  /\ faults < MaxFaults
  /\ Started(session + 1, 0)
  /\ faults' = faults + 1
  /\ report' = [t \in ReportTypes |-> Released]
  /\ fails' = 0 /\ resend' = 0 /\ txEvents' = <<>> /\ ack' = FALSE
  /\ UNCHANGED <<rxInfo, rxFifo, dongleVars>>
-----------------------------------------------------------------------------
(* Dongle *)

\* zmk_2g4_crypto_decrypt: a later session, or replay_accept
Accept(m) ==
  IF m.session = replay.session
  THEN m.counter > replay.counter \/
       (replay.counter - m.counter < ReplayWindow /\ m.counter \notin replay.seen)
  ELSE m.session > replay.session

Remember(m) ==
  LET same == m.session = replay.session
      top == IF same /\ m.counter < replay.counter THEN replay.counter ELSE m.counter
  IN [session |-> m.session, counter |-> top,
      seen |-> {c \in {m.counter} \cup (IF same THEN replay.seen ELSE {}) : c > top - ReplayWindow}]

\* process_rx_payload.  A suspended host gets no report, at most a wakeup request.
HandlePayload(suspended) ==
  LET m == Head(rxFifo).msg
  IN /\ ReadRxPayload
     /\ IF Accept(m)
        THEN /\ connected' = TRUE /\ replay' = Remember(m)
             /\ IF m.type \in ReportTypes /\ ~suspended
                THEN host' = [host EXCEPT ![m.type] = m.body] /\ UNCHANGED excused
                ELSE UNCHANGED host /\ excused' = excused \cup Carried({m})
        ELSE UNCHANGED <<connected, replay, host, excused>>
     /\ UNCHANGED keyboardVars

\* The last packet got no answer
Outage == tx.left < RetransmitCount \/ fails > 0

\* kb_lost_handler: nothing was accepted for ZMK_2G4_KB_TIMEOUT_MS
KbLost(suspended) ==
  /\ connected /\ (~ready \/ Outage \/ counter = CounterMax)
  /\ connected' = FALSE
  /\ IF suspended THEN UNCHANGED <<host, excused>>
     ELSE /\ host' = [t \in ReportTypes |-> Released]
          /\ excused' = excused \cup {t \in ReportTypes : report[t] # Released}
  /\ UNCHANGED <<esbVars, keyboardVars, replay>>
-----------------------------------------------------------------------------
\* Nobody hears of a packet that fails while evt_msgq is full
Overlooked(ms) == IF Unheard THEN Carried(ms) ELSE {}

Interrupt ==
  \/ \E heard, acked \in BOOLEAN :
       /\ IF (heard /\ acked) \/ (~heard /\ Outage) THEN UNCHANGED faults
          ELSE faults < MaxFaults /\ faults' = faults + 1
       /\ TransmitDone(heard, acked)
       /\ excused' = IF heard /\ Overflow /\ ~IsDuplicate(Head(tx.fifo))
                     THEN excused \cup Carried({Head(tx.fifo).msg}) ELSE excused
       /\ UNCHANGED <<report, fails, resend, session, counter, dongleVars>>
  \/ /\ AckReceived \/ AckTimeout \/ Retransmit
     /\ UNCHANGED <<keyboardVars, dongleVars, excused>>
  \/ /\ TransmitFailed
     /\ excused' = excused \cup Overlooked({Head(tx.fifo).msg})
     /\ UNCHANGED <<keyboardVars, dongleVars>>

\* The packets behind then wait for the next one that is written
Watchdog ==
  /\ faults < MaxFaults /\ faults' = faults + 1
  /\ WatchdogHandler
  /\ excused' = excused \cup Overlooked(MessagesOf(tx.fifo))
  /\ UNCHANGED <<report, fails, resend, session, counter, dongleVars>>

Init ==
  /\ tx = Off /\ txEvents = <<>> /\ ack = FALSE /\ rxInfo = Nothing /\ rxFifo = <<>>
  /\ report = [t \in ReportTypes |-> Released]
  /\ fails = 0 /\ resend = 0 /\ session = 1 /\ counter = 0 /\ faults = 0
  /\ replay = [session |-> 0, counter |-> 0, seen |-> {}]
  /\ connected = FALSE
  /\ host = [t \in ReportTypes |-> Released]
  /\ excused = {}

KeyboardWork == ResendWork \/ TxSuccess \/ TxFailed

Next ==
  \/ \E t \in ReportTypes : \E body \in Bodies[t] : ReportChanged(t, body)
  \/ KeyboardWork \/ KeepaliveHandler
  \/ Start \/ Stop \/ Restart
  \/ Interrupt \/ Watchdog
  \/ \E suspended \in BOOLEAN : HandlePayload(suspended) \/ KbLost(suspended)

Spec == Init /\ [][Next]_vars

\* Interrupts are served, and both work queues run; the radio may hear nothing at all
Fairness ==
  /\ WF_vars(Interrupt) /\ WF_vars(KeyboardWork)
  /\ WF_vars(\E suspended \in BOOLEAN : HandlePayload(suspended))
FairSpec == Spec /\ Fairness
-----------------------------------------------------------------------------
AllBodies == UNION {Bodies[t] : t \in ReportTypes}
Sessions == 1 .. MaxFaults + 1
Messages ==
  {m \in [type : ReportTypes \cup {"keepalive", "boot"}, body : AllBodies,
          session : Sessions, counter : 0 .. CounterMax - 1] :
     m.type \in ReportTypes => m.body \in Bodies[m.type]}
Packets == [pid : 0 .. PidMax, msg : Messages]
ASSUME NothingAssumption == Nothing \notin Packets

\* Every variable has values of its type; FIFOs and the event queue keep their size.
TypeOK ==
  /\ tx \in [fifo : Seq(Packets), radio : Radio, left : 0 .. RetransmitCount,
             pid : 0 .. PidMax]
  /\ Len(tx.fifo) <= TxFifoSize /\ (tx.radio \notin {"idle", "off"} => tx.fifo # <<>>)
  /\ txEvents \in Seq({"success", "failed"}) /\ Len(txEvents) <= EventSize
  /\ ack \in BOOLEAN /\ rxInfo \in Packets \cup {Nothing}
  /\ rxFifo \in Seq(Packets) /\ Len(rxFifo) <= RxFifoSize
  /\ \A t \in ReportTypes : report[t] \in Bodies[t] /\ host[t] \in Bodies[t]
  /\ fails \in 0 .. FailureWrap - 1 /\ resend \in 0 .. Len(Types)
  /\ session \in Sessions /\ counter \in 0 .. CounterMax /\ faults \in 0 .. MaxFaults
  /\ replay \in [session : {0} \cup Sessions, counter : 0 .. CounterMax,
                 seen : SUBSET (0 .. CounterMax)]
  /\ connected \in BOOLEAN /\ excused \subseteq ReportTypes

\* What the keyboard has written and the dongle has not processed: the packet at the
\* head may have been received, with its acknowledgement lost
Unprocessed ==
  LET received == tx.fifo # <<>> /\ Head(tx.fifo) = rxInfo
      waiting == IF received THEN Tail(tx.fifo) ELSE tx.fifo
      both == rxFifo \o waiting
  IN [i \in DOMAIN both |-> both[i].msg]
Fifo == INSTANCE LossyFifo WITH Msg <- Messages, queue <- Unprocessed

\* Retransmission, duplicates of which only the acknowledgement was lost, flushes and
\* restarts never make the dongle process a message twice or in another order; and what it
\* has to process only shrinks unless the keyboard sends with a new counter.
DeliversInOrder ==
  /\ Fifo!Spec
  /\ [][Fifo!IsLeftOf(Unprocessed', Unprocessed) \/ <<session, counter>>' # <<session, counter>>]_vars

\* The link has nothing to do: no packet, event or resend is pending.
AtRest ==
  /\ ready /\ tx.fifo = <<>> /\ txEvents = <<>> /\ resend = 0 /\ rxFifo = <<>>

\* At rest the host has the reports of the keyboard, whatever packets and
\* acknowledgements were lost, unless the code has given up on one (excused).
HostAgrees == TypeOK /\ (AtRest => \A t \in ReportTypes : host[t] = report[t] \/ t \in excused)

\* Every change of a report reaches the host or is given up: resending comes to an
\* end even when nothing is ever heard, and no packet is forgotten in the FIFO.
ReportsSettle ==
  \A t \in ReportTypes : host[t] # report[t] ~> (host[t] = report[t] \/ t \in excused)
=============================================================================
