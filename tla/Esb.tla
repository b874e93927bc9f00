--------------------------------- MODULE Esb ---------------------------------
(***************************************************************************)
(* The radio driver of the 2.4G link, src/app/module/drivers/esb/esb.c:    *)
(* the keyboard transmits (PTX), the dongle receives and acknowledges      *)
(* (PRX).  A packet is sent until it is acknowledged or its retransmissions *)
(* are used up; packets and acknowledgements get lost.                     *)
(*                                                                         *)
(* Operators whose comment starts with "Fault:" are faulty variants of the *)
(* definition that follows, which nothing uses.                            *)
(***************************************************************************)
EXTENDS Integers, Sequences

CONSTANTS
  TxFifoSize,       \* CONFIG_ZMK_ESB_TX_FIFO_SIZE
  RxFifoSize,       \* CONFIG_ZMK_ESB_RX_FIFO_SIZE
  EventSize,        \* length of evt_msgq
  RetransmitCount,  \* esb_cfg.retransmit_count
  PidMax,           \* PID_MAX
  Nothing           \* no packet

ASSUME EsbAssumption ==
  /\ {TxFifoSize, RxFifoSize, EventSize} \subseteq Nat \ {0}
  /\ RetransmitCount \in Nat /\ PidMax \in Nat

VARIABLES
  tx,        \* the transmitter: its FIFO, radio, retransmits_remaining, pids[0]
  txEvents,  \* evt_msgq of the keyboard
  ack,       \* the acknowledgement is on the way
  rxInfo,    \* rx_pipe_info: the packet received last, by pid and crc
  rxFifo     \* rx_fifo_buf of the dongle
esbVars == <<tx, txEvents, ack, rxInfo, rxFifo>>

Radio == {"off", "idle", "sending", "waiting", "pausing"}

\* zmk_esb_disable, and zmk_esb_init after it
Off == [fifo |-> <<>>, radio |-> "off", left |-> 0, pid |-> 0]
Ready == [Off EXCEPT !.radio = "idle"]

\* start_tx_transaction
StartTx(t) ==
  IF t.fifo = <<>> THEN [t EXCEPT !.radio = "idle"]
  ELSE [t EXCEPT !.radio = "sending", !.left = RetransmitCount]

Room(t) == Len(t.fifo) < TxFifoSize

\* zmk_esb_write_payload with room in the FIFO
WritePayload(t, m) ==
  LET pid == (t.pid + 1) % (PidMax + 1)
      queued == [t EXCEPT !.fifo = Append(@, [pid |-> pid, msg |-> m]), !.pid = pid]
  IN IF t.radio = "idle" THEN StartTx(queued) ELSE queued

\* zmk_esb_flush_tx keeps the packet in flight
FlushTx(t) ==
  [t EXCEPT !.fifo = IF t.radio # "idle" /\ t.fifo # <<>> THEN <<Head(@)>> ELSE <<>>]

\* tx_fifo_remove_first, and the next transaction if a packet waits
NextTx(t) ==
  StartTx([t EXCEPT !.fifo = IF t.fifo = <<>> THEN <<>> ELSE Tail(@)])

\* signal_event: what does not fit is dropped
SignalEvent(e) == txEvents' = IF Len(txEvents) < EventSize THEN Append(txEvents, e) ELSE txEvents
Unheard == Len(txEvents) = EventSize
-----------------------------------------------------------------------------
\* Fault: any packet is new.
IsDuplicateNever(p) == FALSE
\* The crc of two packets is the same when their payloads are
IsDuplicate(p) == p = rxInfo

Overflow == Len(rxFifo) = RxFifoSize

\* on_disabled_prx on the dongle: a packet is remembered and acknowledged even if it does not fit
PrxReceived(p) ==
  /\ rxInfo' = p
  /\ rxFifo' = IF IsDuplicate(p) \/ Overflow THEN rxFifo ELSE Append(rxFifo, p)

\* on_disabled_ptx_tx: the packet is out; it or its acknowledgement may get lost
TransmitDone(heard, acked) ==
  /\ tx.radio = "sending"
  /\ tx' = [tx EXCEPT !.radio = "waiting"]
  /\ IF heard THEN PrxReceived(Head(tx.fifo)) ELSE UNCHANGED <<rxInfo, rxFifo>>
  /\ ack' = (heard /\ acked)
  /\ UNCHANGED txEvents

\* on_disabled_ptx_rx_ack with an acknowledgement
AckReceived ==
  /\ tx.radio = "waiting" /\ ack
  /\ SignalEvent("success")
  /\ tx' = NextTx(tx) /\ ack' = FALSE
  /\ UNCHANGED <<rxInfo, rxFifo>>

\* on_disabled_ptx_rx_ack after the timeout, with retransmissions left
AckTimeout ==
  /\ tx.radio = "waiting" /\ ~ack /\ tx.left > 0
  /\ tx' = [tx EXCEPT !.radio = "pausing", !.left = @ - 1]
  /\ UNCHANGED <<txEvents, ack, rxInfo, rxFifo>>

\* on_disabled_ptx_rx_ack after the timeout, with none left
TransmitFailed ==
  /\ tx.radio = "waiting" /\ ~ack /\ tx.left = 0
  /\ SignalEvent("failed")
  /\ tx' = NextTx(tx)
  /\ UNCHANGED <<ack, rxInfo, rxFifo>>

\* timer_isr and retransmit_current
Retransmit ==
  /\ tx.radio = "pausing"
  /\ tx' = [tx EXCEPT !.radio = "sending"]
  /\ UNCHANGED <<txEvents, ack, rxInfo, rxFifo>>

\* watchdog_handler; the packets behind the one it removes wait for the next write
WatchdogHandler ==
  /\ tx.radio \notin {"idle", "off"}
  /\ SignalEvent("failed")
  /\ tx' = [tx EXCEPT !.radio = "idle", !.fifo = IF @ = <<>> THEN @ ELSE Tail(@)]
  /\ ack' = FALSE
  /\ UNCHANGED <<rxInfo, rxFifo>>
-----------------------------------------------------------------------------
\* zmk_esb_read_rx_payload
ReadRxPayload == rxFifo # <<>> /\ rxFifo' = Tail(rxFifo) /\ UNCHANGED <<tx, txEvents, ack, rxInfo>>
=============================================================================
