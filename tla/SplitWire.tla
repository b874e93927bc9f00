----------------------------- MODULE SplitWire -----------------------------
(***************************************************************************)
(* A split keyboard whose halves are joined by a cable:                    *)
(* src/app/src/split/wired/ on both halves, in its interrupt mode, with    *)
(* the parts of split/central.c and split/peripheral.c around it.          *)
(*                                                                         *)
(* Messages travel as frames: a magic prefix, the size of the payload, the *)
(* payload, a checksum.  Each of these is one token here, and so is each   *)
(* part of a payload.  A frame arrives at once, as reading a part of it    *)
(* changes nothing.  Nothing is acknowledged or sent again; a token may be *)
(* garbled on the cable, and the receiver has to find the next frame.      *)
(* On a half-duplex cable the peripheral only talks when it is polled.     *)
(***************************************************************************)
EXTENDS Integers, FiniteSets, Sequences, SequencesExt

CONSTANTS
  WiredKeys,     \* the positions of the peripheral half
  EventItems,    \* CONFIG_ZMK_SPLIT_WIRED_EVENT_BUFFER_ITEMS
  CmdItems,      \* CONFIG_ZMK_SPLIT_WIRED_CMD_BUFFER_ITEMS
  CmdQueue,      \* the length of cmd_msg_queue
  MaxInputs,     \* bound on the number of key changes and commands together
  MaxNoise       \* bound on the number of frames hit by noise

ASSUME SplitWireAssumption ==
  /\ EventItems \in Nat \ {0} /\ CmdItems \in Nat \ {0} /\ CmdQueue \in Nat \ {0}
  /\ MaxInputs \in Nat /\ MaxNoise \in Nat

VARIABLES
  halfDuplex,  \* does the devicetree say half-duplex?
  tx,          \* tx_buf and chosen_tx_buf, per end: the payloads of the frames in it
  rx,          \* rx_buf and chosen_rx_buf, per end: the tokens in it
  txOn,        \* is the transmit interrupt enabled?
  txSem,       \* tx_sem of the central, the permission to send
  work,        \* publish_events of the central, process_tx_cb of the peripheral
  env,         \* the item that they have read and are about to handle, if any
  cmdQ,        \* cmd_msg_queue of the peripheral
  down,        \* the keys that are down
  keymap,      \* those that the keymap of the central knows to be down
  missed,      \* the keys whose last event was dropped, garbled or caught up with by noise
  budget       \* how many key changes, commands and hits of noise there may still be
wireVars == <<halfDuplex, tx, rx, txOn, txSem, work, env, cmdQ, down, keymap, missed, budget>>

Ends == {"central", "peripheral"}
Other(e) == CHOOSE o \in Ends : o # e

\* The tokens of a frame
Magic == <<"M">>                \* ZMK_SPLIT_WIRED_ENVELOPE_MAGIC_PREFIX
PayloadSize(n) == <<"S", n>>
Data(x) == <<"D", x>>
Crc(payload) == <<"C", payload>>
Noise == <<"N">>                \* none of these

Extra == 3                                       \* MSG_EXTRA_SIZE
MaxPayload == 2                                  \* of an event and of a command envelope
TxSize(e) == (Extra + MaxPayload) * (IF e = "central" THEN CmdItems ELSE EventItems)
RxSize(e) == TxSize(Other(e))
Framed(payload) == <<Magic, PayloadSize(Len(payload))>> \o payload \o <<Crc(payload)>>

KeyEvent(k, pressed) == <<Data(<<k, pressed>>)>>
Poll == <<Data("poll")>>
Command(n) == <<Data("command"), Data(n)>>

Used(payloads) == FoldLeft(LAMBDA n, p : n + Extra + Len(p), 0, payloads)
Room(e, payload) == TxSize(e) - Used(tx[e]) >= Extra + Len(payload)
Put(e, payload) == [tx EXCEPT ![e] = Append(@, payload)]
-----------------------------------------------------------------------------
(* Receiving.  Operators whose comment starts with "Fault:" are faulty      *)
(* variants of the definition that follows, which nothing uses: put in its  *)
(* place they show that a property notices.                                 *)

\* The bytes before a prefix are discarded, as long as there is enough for a frame.
Resynced(buf) ==
  LET stops == {k \in 0 .. Len(buf) : Len(buf) - k <= Extra \/ buf[k + 1] = Magic}
  IN SubSeq(buf, 1 + CHOOSE k \in stops : \A j \in stops : k <= j, Len(buf))

\* What can be read where a size is expected: a letter of the prefix is too large, and
\* when tokens were lost it may be anything.
SizesIn(token) == CASE token[1] = "S" -> {token[2]}
                    [] token = Magic -> {MaxPayload + 1}
                    [] OTHER -> 0 .. MaxPayload + 1

\* Fault: the checksum is not compared.
CheckedNot(payload, crc) == TRUE
Checked(payload, crc) == crc = Crc(payload)

\* Fault: the frame is looked at and stays.
PeekedAt(buf, n) == buf
\* What is left when a frame with a payload of n has been read out
ReadOut(buf, n) == SubSeq(buf, n + Extra + 1, Len(buf))

\* zmk_split_wired_get_item: <<the rest of the buffer, the payload if there is one>>
\* A frame with a wrong checksum is removed, one that is too long is not.
Items(buffer) ==
  LET buf == Resynced(buffer)
      Read(n) ==
        LET payload == SubSeq(buf, 3, 2 + n)
        IN IF n > MaxPayload \/ Len(buf) < n + Extra THEN <<buf, <<>>>>
           ELSE <<ReadOut(buf, n),
                  IF Checked(payload, buf[n + Extra]) THEN <<payload>> ELSE <<>>>>
  IN IF Len(buf) <= Extra THEN {<<buf, <<>>>>} ELSE {Read(n) : n \in SizesIn(buf[2])}

\* One round of publish_events_work and of process_tx_cb up to the item.  They return when
\* there is none; the work of the central may have been submitted again meanwhile.
GetItem(e) ==
  /\ work[e] \in {"run", "rerun"} /\ env[e] = <<>>
  /\ \E item \in Items(rx[e]) :
       /\ rx' = [rx EXCEPT ![e] = item[1]]
       /\ env' = [env EXCEPT ![e] = item[2]]
       /\ work' = [work EXCEPT ![e] = IF item[2] # <<>> THEN @
                                      ELSE IF @ = "rerun" THEN "queued" ELSE "idle"]
  /\ UNCHANGED <<halfDuplex, tx, txOn, txSem, cmdQ, down, keymap, missed, budget>>

PublishStarts ==
  /\ work["central"] = "queued" /\ work' = [work EXCEPT !["central"] = "run"]
  /\ UNCHANGED <<halfDuplex, tx, rx, txOn, txSem, env, cmdQ, down, keymap, missed, budget>>

\* zmk_split_transport_central_peripheral_event_handler
HandleEvent ==
  /\ env["central"] # <<>>
  /\ env' = [env EXCEPT !["central"] = <<>>]
  /\ LET event == env["central"][1][1][2]
     IN keymap' = IF event[2] THEN keymap \cup {event[1]} ELSE keymap \ {event[1]}
  /\ UNCHANGED <<halfDuplex, tx, rx, txOn, txSem, work, cmdQ, down, missed, budget>>

\* process_tx_cb with an item: a poll lets the peripheral send, a command is queued, and
\* when the queue is full the handler ends, whatever else there is to read.
HandleCommand ==
  /\ env["peripheral"] # <<>>
  /\ env' = [env EXCEPT !["peripheral"] = <<>>]
  /\ LET payload == env["peripheral"][1]
         fits == payload # Poll /\ Len(cmdQ) < CmdQueue
     IN /\ txOn' = [txOn EXCEPT !["peripheral"] = @ \/ payload = Poll]
        /\ cmdQ' = IF fits THEN Append(cmdQ, payload) ELSE cmdQ
        /\ work' = [work EXCEPT !["peripheral"] = IF payload = Poll \/ fits THEN @ ELSE "idle"]
  /\ UNCHANGED <<halfDuplex, tx, rx, txSem, down, keymap, missed, budget>>

\* publish_commands_work, one command
CommandWork ==
  /\ work["peripheral"] = "idle" /\ cmdQ # <<>>
  /\ cmdQ' = Tail(cmdQ)
  /\ UNCHANGED <<halfDuplex, tx, rx, txOn, txSem, work, env, down, keymap, missed, budget>>
-----------------------------------------------------------------------------
(* The cable.                                                               *)

\* What a frame can become when one token is hit: a size is another number, anything
\* else is not itself.  It is all the same whether the payload is hit or the checksum.
Garbled(frame) ==
  {[frame EXCEPT ![2] = PayloadSize(n)] : n \in (0 .. MaxPayload + 1) \ {Len(frame) - Extra}}
    \cup {[frame EXCEPT ![i] = Noise] : i \in {1, Len(frame)}}

\* The payloads of the frames that are intact in a buffer
Starts(buf) ==
  {i \in DOMAIN buf :
     /\ buf[i] = Magic /\ Len(buf) >= i + Extra /\ buf[i + 1][1] = "S"
     /\ LET n == buf[i + 1][2]
        IN Len(buf) >= i + 2 + n /\ buf[i + 2 + n] = Crc(SubSeq(buf, i + 2, i + 1 + n))}
\* The numbers of a set, from the least to the greatest
Sorted(S) ==
  [k \in 1 .. Cardinality(S) |-> CHOOSE n \in S : Cardinality({m \in S : m <= n}) = k]
Intact(buf) ==
  LET at == Sorted(Starts(buf))
  IN [k \in DOMAIN at |-> SubSeq(buf, at[k] + 2, at[k] + 1 + buf[at[k] + 1][2])]

EventsOnTheWay == Intact(rx["central"]) \o tx["peripheral"]
KeysOnTheWay == {EventsOnTheWay[i][1][2][1] : i \in DOMAIN EventsOnTheWay}

\* A frame goes from e, in serial_cb and zmk_split_wired_fifo_fill, to serial_cb and
\* zmk_split_wired_fifo_read at the other end: what the buffer there has no room for is
\* lost.  Both ends talking on a half-duplex cable garble each other's frames.
Transfer(e) ==
  LET o == Other(e)
      sent == Framed(Head(tx[e]))
      collides == halfDuplex /\ txOn[o] /\ tx[o] # <<>>
      room == RxSize(o) - Len(rx[o])
  IN /\ txOn[e] /\ tx[e] # <<>> /\ (o = "peripheral" => work[o] = "idle")
     /\ tx' = [tx EXCEPT ![e] = Tail(@)]
     /\ \E f \in {sent} \cup (IF collides \/ budget.noise > 0 THEN Garbled(sent) ELSE {}) :
          /\ rx' = [rx EXCEPT ![o] = @ \o SubSeq(f, 1, IF room < Len(f) THEN room ELSE Len(f))]
          /\ missed' = IF (f = sent /\ room >= Len(f)) \/ e = "central" THEN missed
                       ELSE missed \cup KeysOnTheWay
          /\ budget' = [budget EXCEPT !.noise = IF collides \/ f = sent THEN @ ELSE @ - 1]
     /\ work' = [work EXCEPT ![o] = CASE o = "peripheral" -> "run"
                                      [] @ \in {"idle", "queued"} -> "queued"
                                      [] OTHER -> "rerun"]
     /\ UNCHANGED <<halfDuplex, txOn, txSem, env, cmdQ, down, keymap>>

\* serial_cb, when all is sent
TxComplete(e) ==
  /\ txOn[e] /\ tx[e] = <<>> /\ txOn' = [txOn EXCEPT ![e] = FALSE]
  /\ UNCHANGED <<halfDuplex, tx, rx, txSem, work, env, cmdQ, down, keymap, missed, budget>>
-----------------------------------------------------------------------------
(* Sending.                                                                 *)

\* split_central_wired_send_command, with the semaphore at `sem': what is put while the
\* central may not send waits for the next poll.
SendCommand(payload, sem) ==
  IF Room("central", payload)
  THEN /\ tx' = Put("central", payload)
       /\ txOn' = [txOn EXCEPT !["central"] = @ \/ ~halfDuplex \/ sem]
       /\ txSem' = FALSE
  ELSE txSem' = sem /\ UNCHANGED <<tx, txOn>>

\* zmk_split_central_invoke_behavior, _update_layers or _update_hid_indicator; no two
\* commands are the same
Tell ==
  /\ budget.commands > 0 /\ budget' = [budget EXCEPT !.commands = @ - 1]
  /\ SendCommand(Command(budget.commands), txSem)
  /\ UNCHANGED <<halfDuplex, rx, work, env, cmdQ, down, keymap, missed>>

\* rx_done_cb.  Its timeouts, which every received chunk prolongs, are taken to be longer
\* than a transmission: it is not due while one of the ends sends.
RxDone ==
  /\ halfDuplex /\ ~txOn["central"] /\ ~txOn["peripheral"]
  /\ work["central"] \in {"idle", "queued"} /\ work["peripheral"] = "idle"
  /\ SendCommand(Poll, TRUE)
  /\ UNCHANGED <<halfDuplex, rx, work, env, cmdQ, down, keymap, missed, budget>>

\* split_peripheral_listener and split_peripheral_wired_report_event
Report(k) ==
  /\ budget.reports > 0 /\ budget' = [budget EXCEPT !.reports = @ - 1]
  /\ work["peripheral"] = "idle"
  /\ down' = (down \ {k}) \cup ({k} \ down)
  /\ LET event == KeyEvent(k, k \notin down)
     IN IF Room("peripheral", event)
        THEN /\ tx' = Put("peripheral", event)
             /\ txOn' = [txOn EXCEPT !["peripheral"] = @ \/ ~halfDuplex]
             /\ missed' = IF Len(rx["central"]) = Used(Intact(rx["central"]))
                          THEN missed \ {k} ELSE missed \cup {k}
        ELSE missed' = missed \cup {k} /\ UNCHANGED <<tx, txOn>>
  /\ UNCHANGED <<halfDuplex, rx, txSem, work, env, cmdQ, keymap>>
-----------------------------------------------------------------------------
WireInit ==
  /\ halfDuplex \in BOOLEAN
  /\ tx = [e \in Ends |-> <<>>] /\ rx = [e \in Ends |-> <<>>] /\ env = [e \in Ends |-> <<>>]
  /\ txOn = [e \in Ends |-> FALSE] /\ txSem = FALSE
  /\ work = [e \in Ends |-> "idle"] /\ cmdQ = <<>>
  /\ down = {} /\ keymap = {} /\ missed = {}
  /\ \E n \in 0 .. MaxInputs :
       budget = [reports |-> n, commands |-> MaxInputs - n, noise |-> MaxNoise]

WireNext ==
  \/ \E e \in Ends : Transfer(e) \/ TxComplete(e) \/ GetItem(e)
  \/ PublishStarts \/ HandleEvent \/ HandleCommand \/ CommandWork \/ RxDone \/ Tell
  \/ \E k \in WiredKeys : Report(k)

\* Interrupts are served, the work queues of both halves run, the timer of the half-duplex
\* mode expires.
CableWork == \/ \E e \in Ends : Transfer(e) \/ TxComplete(e)
             \/ GetItem("peripheral") \/ HandleCommand \/ CommandWork
CentralWork == GetItem("central") \/ PublishStarts \/ HandleEvent
WireFairness == WF_wireVars(CableWork) /\ WF_wireVars(CentralWork) /\ WF_wireVars(RxDone)
WireSpec == WireInit /\ [][WireNext]_wireVars /\ WireFairness
-----------------------------------------------------------------------------
\* Two states that the code does not leave: a buffer full of commands without room for the
\* poll that would send them, and a frame that claims to be longer than any.
Jammed == halfDuplex /\ ~txOn["central"] /\ ~Room("central", Poll)
TooLong(e) == LET buf == Resynced(rx[e]) IN Len(buf) > Extra /\ MaxPayload + 1 \in SizesIn(buf[2])
Stuck == Jammed \/ TooLong("central") \/ (halfDuplex /\ TooLong("peripheral"))

\* What it comes to otherwise: the keymap knows the last change of every key, unless its
\* event was dropped or garbled, or put behind a garbled one (missed).  After noise, or a
\* collision, the next frames are found again, and a poll that was lost is made up for.
SettledByCable == Stuck \/ \A k \in WiredKeys \ missed : k \in keymap <=> k \in down

EventsUnderWay == env["central"] \o EventsOnTheWay
Commands(payloads) ==
  LET at == Sorted({i \in DOMAIN payloads : payloads[i] # Poll})
  IN [k \in DOMAIN at |-> payloads[at[k]]]
CommandsUnderWay ==
  Commands(cmdQ \o env["peripheral"] \o Intact(rx["peripheral"]) \o tx["central"])

EventFifo == INSTANCE LossyFifo WITH
  Msg <- {KeyEvent(k, b) : k \in WiredKeys, b \in BOOLEAN}, queue <- EventsUnderWay
CommandFifo == INSTANCE LossyFifo WITH
  Msg <- {Command(n) : n \in 1 .. MaxInputs}, queue <- CommandsUnderWay

\* Whatever is garbled and wherever reading resumes, no event reaches the keymap that the
\* peripheral did not report, and none comes twice or before an older one.
EventsInOrder ==
  /\ EventFifo!Spec
  /\ [][EventFifo!IsLeftOf(EventsUnderWay', EventsUnderWay)
          \/ budget'.reports < budget.reports]_wireVars
\* The same for the commands to the peripheral.
CommandsInOrder ==
  /\ CommandFifo!Spec
  /\ [][CommandFifo!IsLeftOf(CommandsUnderWay', CommandsUnderWay)
          \/ budget'.commands < budget.commands]_wireVars
=============================================================================
