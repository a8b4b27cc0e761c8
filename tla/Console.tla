------------------------------ MODULE Console ------------------------------
(***************************************************************************)
(* The serial console end to end: kernel_bare::serial (the write lock, the *)
(* line buffer, the early-boot buffer and the switch from the UART to the  *)
(* virtio console), the virtio-console driver (one transmit descriptor,    *)
(* a ring of one-byte receive descriptors) and the device of the HVF       *)
(* runner with its stdin thread.                                           *)
(*                                                                         *)
(* A message is a sequence of cells; "nl" is the newline that becomes      *)
(* "cr", "nl", and "ts" stands for the time stamp that starts a line.      *)
(* Ring indices wrap at IdxMod (65,536 in the code).                       *)
(***************************************************************************)
EXTENDS Integers, Sequences, SequencesExt, FiniteSets

CONSTANTS
  Cores,       \* the cores that print; 0 is the boot core
  Script,      \* what each core prints, a sequence of messages
  LineCap,     \* SERIAL_BUF_SIZE - 16
  EarlyCap,    \* EARLY_BUF_CAP
  TxChunk,     \* CON_TX_BUF_LEN
  ConQs,       \* CON_QS, the ring size of the driver
  Qmax,        \* the queue size the device offers
  Pci,         \* con_init_pci after the UART, else con_init_mmio at init
  IdxMod,
  Typed,       \* what is typed on the host
  IrqReads     \* the UART interrupt also drains the console (rx_isr)

VARIABLES
  lock, todo, bol, early, pend, backend, log,  \* serial.rs
  tx, txmem, host,                             \* the transmit queue
  rx, rxmem, rxbuf, typed, got, reader, shut   \* the receive queue

vars == <<lock, todo, bol, early, pend, backend, log, tx, txmem, host, rx, rxmem, rxbuf, typed, got, reader, shut>>
outs == <<lock, todo, bol, early, pend, backend, log, tx, txmem, host>>
ins == <<rx, rxmem, rxbuf, typed, got, reader, shut>>

Free == -1     \* nobody holds SERIAL_TX_LOCK
Wrap(n) == n % IdxMod
Least(a, b) == IF a < b THEN a ELSE b

\* con_init_mmio_queue writes min(CON_QS, max); con_init_pci leaves the
\* device's own size.
DevQs == IF Pci THEN Qmax ELSE Least(ConQs, Qmax)
Slots == 0 .. (IF DevQs > ConQs THEN DevQs ELSE ConQs) - 1

\* The receive ring as con_init leaves it: every descriptor posted.
Posted == [avail |-> [i \in Slots |-> IF i < ConQs THEN i ELSE 0], aidx |-> Wrap(ConQs),
           used |-> [i \in Slots |-> 0], uidx |-> 0, bufs |-> [i \in 0 .. ConQs - 1 |-> 0]]

Init ==
  /\ lock = Free /\ todo = Script /\ bol = TRUE
  /\ early = [data |-> <<>>, active |-> TRUE]
  /\ pend = <<>> /\ log = <<>> /\ host = <<>>
  /\ backend = IF Pci THEN "uart" ELSE "virtio"
  /\ tx = [pc |-> "idle", last |-> 0, aidx |-> 0, left |-> <<>>]
  /\ txmem = [buf |-> <<>>, aidx |-> 0, uidx |-> 0, rung |-> FALSE]
  /\ rx = [last |-> 0, aidx |-> Wrap(ConQs)]
  /\ rxmem = [Posted EXCEPT !.aidx = IF Pci THEN 0 ELSE @]
  /\ rxbuf = <<>> /\ typed = 0 /\ got = <<>>
  /\ reader = [pc |-> "idle", last |-> 0, desc |-> 0]
  /\ shut = FALSE

-----------------------------------------------------------------------------
(* serial.rs *)

\* LineBuf::write_byte over a message: the time stamp where a line starts,
\* a carriage return before each newline.
StartsLine(m, i) == IF i = 1 THEN bol ELSE m[i - 1] = "nl"
Cells(m, i) == (IF StartsLine(m, i) THEN <<"ts">> ELSE <<>>) \o (IF m[i] = "nl" THEN <<"cr", "nl">> ELSE <<m[i]>>)
Expanded(m) == FlattenSeq([i \in DOMAIN m |-> Cells(m, i)])
\* LineBuf::append flushes a full buffer before it adds to it.
Pieces(s, n) == [i \in 1 .. (Len(s) + n - 1) \div n |-> SubSeq(s, (i - 1) * n + 1, Least(i * n, Len(s)))]

\* puts / putc / write_fmt: one hold of SERIAL_TX_LOCK for the message.
Puts(c) ==
  /\ lock = Free /\ todo[c] # <<>> /\ Head(todo[c]) \notin {<<"upgrade">>, <<"flush">>}
  /\ lock' = c
  /\ LET m == Head(todo[c]) IN
     /\ pend' = Pieces(Expanded(m), LineCap)
     /\ log' = log \o Expanded(m)
     /\ bol' = (m[Len(m)] = "nl")
  /\ todo' = [todo EXCEPT ![c] = Tail(@)]
  /\ UNCHANGED <<early, backend, tx, txmem, host>> /\ UNCHANGED ins

\* direct_emit: the UART takes the bytes, or the virtio console takes them
\* in chunks of its transmit buffer (con_puts).
direct_emit(bytes) ==
  IF backend = "uart" THEN host' = host \o bytes /\ UNCHANGED tx
  ELSE tx' = [tx EXCEPT !.pc = "chunk", !.left = Pieces(bytes, TxChunk)] /\ UNCHANGED host

\* arch_puts_raw: into the early-boot buffer while it is active and has room.
Emit ==
  /\ lock # Free /\ tx.pc = "idle" /\ pend # <<>>
  /\ pend' = Tail(pend)
  /\ IF early.active /\ EarlyCap - Len(early.data) >= Len(Head(pend))
     THEN early' = [early EXCEPT !.data = @ \o Head(pend)] /\ UNCHANGED <<tx, host>>
     ELSE direct_emit(Head(pend)) /\ UNCHANGED early
  /\ UNCHANGED <<lock, todo, bol, backend, log, txmem>> /\ UNCHANGED ins

Unlock ==
  /\ lock # Free /\ tx.pc = "idle" /\ pend = <<>>
  /\ lock' = Free
  /\ UNCHANGED <<todo, bol, early, pend, backend, log, tx, txmem, host>> /\ UNCHANGED ins

\* flush_early_buf: a second call does nothing.
FlushEarly(c) ==
  /\ lock = Free /\ todo[c] # <<>> /\ Head(todo[c]) = <<"flush">>
  /\ todo' = [todo EXCEPT ![c] = Tail(@)]
  /\ early' = [data |-> <<>>, active |-> FALSE]
  /\ IF early.active /\ early.data # <<>> THEN lock' = c /\ direct_emit(early.data) ELSE UNCHANGED <<lock, tx, host>>
  /\ UNCHANGED <<bol, pend, backend, log, txmem>> /\ UNCHANGED ins

\* upgrade_after_pci -> con_init_pci: the queues are set up and every write
\* from now on goes to the virtio console. Without the lock; a device that
\* is not there leaves the UART.
Upgrade(c) ==
  /\ todo[c] # <<>> /\ Head(todo[c]) = <<"upgrade">>
  /\ todo' = [todo EXCEPT ![c] = Tail(@)]
  /\ \/ Pci /\ backend' = "virtio" /\ rxmem' = Posted
     \/ UNCHANGED <<backend, rxmem>>
  /\ UNCHANGED <<lock, bol, early, pend, log, tx, txmem, host, rx, rxbuf, typed, got, reader, shut>>

-----------------------------------------------------------------------------
(* The virtio-console driver's transmit side, under SERIAL_TX_LOCK *)

\* con_tx_one_chunk, first half: wait out an earlier chunk, fill the buffer,
\* publish descriptor 0 and notify. (`<` compares wrapped indices.)
TxSubmit ==
  /\ tx.pc = "chunk" /\ tx.left # <<>>
  /\ LET last == IF tx.last < tx.aidx THEN txmem.uidx ELSE tx.last IN
     /\ ~(last < tx.aidx)
     /\ tx' = [pc |-> "wait", last |-> last, aidx |-> Wrap(tx.aidx + 1), left |-> Tail(tx.left)]
  /\ txmem' = [txmem EXCEPT !.buf = Head(tx.left), !.aidx = Wrap(tx.aidx + 1), !.rung = TRUE]
  /\ UNCHANGED <<lock, todo, bol, early, pend, backend, log, host>> /\ UNCHANGED ins

\* con_tx_one_chunk, second half: the used index has moved.
TxComplete ==
  /\ tx.pc = "wait" /\ txmem.uidx # tx.last
  /\ tx' = [tx EXCEPT !.last = txmem.uidx, !.pc = IF tx.left = <<>> THEN "idle" ELSE "chunk"]
  /\ UNCHANGED <<lock, todo, bol, early, pend, backend, log, txmem, host>> /\ UNCHANGED ins

\* The device: process_tx takes everything published, drops NUL bytes and
\* publishes the used index once. The driver has one transmit descriptor,
\* descriptor 0, so a slot it never wrote also names it.
DeviceTx ==
  /\ txmem.rung
  /\ LET n == Wrap(txmem.aidx + IdxMod - txmem.uidx) IN
     /\ host' = host \o SelectSeq(FlattenSeq([i \in 1 .. n |-> txmem.buf]), LAMBDA b : b # "nul")
     /\ txmem' = [txmem EXCEPT !.uidx = txmem.aidx, !.rung = FALSE]
  /\ UNCHANGED <<lock, todo, bol, early, pend, backend, log, tx>> /\ UNCHANGED ins

-----------------------------------------------------------------------------
(* The receive side *)

\* The stdin thread: bytes go to RX_BUF, then drive_rx.
Type ==
  /\ typed < Len(Typed)
  /\ typed' = typed + 1
  /\ rxbuf' = Append(rxbuf, Typed[typed + 1])
  /\ UNCHANGED outs /\ UNCHANGED <<rx, rxmem, got, reader, shut>>

\* drive_rx -> process_rx: a byte per posted descriptor; what finds none
\* stays in RX_BUF. Called by the stdin thread and by an idle vCPU that
\* sees rx_has_data.
DeviceRx ==
  /\ rxbuf # <<>> /\ rxmem.aidx # rxmem.uidx /\ backend = "virtio"
  /\ LET d == rxmem.avail[rxmem.uidx % DevQs] IN
     rxmem' = [rxmem EXCEPT !.bufs[d] = Head(rxbuf), !.used[rxmem.uidx % DevQs] = d, !.uidx = Wrap(@ + 1)]
  /\ rxbuf' = Tail(rxbuf)
  /\ UNCHANGED outs /\ UNCHANGED <<rx, typed, got, reader, shut>>

\* con_try_getc up to the read of the byte.
Pending(last) == backend = "virtio" /\ rxmem.uidx # last
DescAt(last) == rxmem.used[last % ConQs]
GetcRead ==
  /\ reader.pc = "idle" /\ ~shut /\ Pending(rx.last)
  /\ reader' = [pc |-> "got", last |-> rx.last, desc |-> DescAt(rx.last)]
  /\ got' = Append(got, rxmem.bufs[DescAt(rx.last)])
  /\ UNCHANGED outs /\ UNCHANGED <<rx, rxmem, rxbuf, typed, shut>>

\* ... and the rest: advance past the entry read, post the descriptor again.
Repost(last, d) ==
  /\ rx' = [last |-> Wrap(last + 1), aidx |-> Wrap(rx.aidx + 1)]
  /\ rxmem' = [rxmem EXCEPT !.avail[rx.aidx % ConQs] = d, !.aidx = Wrap(rx.aidx + 1)]

\* check_shutdown: Ctrl-C ends the loop.
GetcPost ==
  /\ reader.pc = "got"
  /\ Repost(reader.last, reader.desc)
  /\ shut' = (shut \/ got[Len(got)] = "ctrlc")
  /\ reader' = [reader EXCEPT !.pc = "idle"]
  /\ UNCHANGED outs /\ UNCHANGED <<rxbuf, typed, got>>

\* rx_isr: the UART interrupt on the polling core reads the same console.
RxIsr ==
  /\ IrqReads /\ reader.pc = "got" /\ Pending(rx.last)
  /\ got' = Append(got, rxmem.bufs[DescAt(rx.last)])
  /\ Repost(rx.last, DescAt(rx.last))
  /\ shut' = (shut \/ rxmem.bufs[DescAt(rx.last)] = "ctrlc")
  /\ UNCHANGED outs /\ UNCHANGED <<rxbuf, typed, reader>>

Writing == \/ \E c \in Cores : Puts(c) \/ FlushEarly(c) \/ Upgrade(c)
         \/ Emit \/ Unlock \/ TxSubmit \/ TxComplete \/ DeviceTx
Reading == DeviceRx \/ GetcRead \/ GetcPost \/ RxIsr
Next == Writing \/ Type \/ Reading
Spec == Init /\ [][Next]_vars /\ WF_vars(Writing) /\ WF_vars(Reading)

-----------------------------------------------------------------------------
\* Whole lines in the order of the lock: what the host has seen, what waits
\* in the early-boot buffer, in the transmit queue and in the line buffer
\* are together exactly what was printed (SERIAL_TX_LOCK, flush_early_buf).
InQueue == (IF txmem.rung THEN txmem.buf ELSE <<>>) \o FlattenSeq(tx.left)
LogInOrder == log = host \o InQueue \o early.data \o FlattenSeq(pend)

\* Keys arrive in order and once each: what check_shutdown has read is the
\* start of what was typed (con_try_getc against process_rx).
KeysInOrder == IsPrefix(got, Typed)

\* No receive descriptor is ever lost: posted, filled, or in the hands of
\* the reader (con_try_getc's repost).
DescriptorsPosted ==
  backend = "virtio" => Wrap(rxmem.aidx + IdxMod - rx.last) = ConQs

\* A Ctrl-C that is typed is seen, however many keys are typed before it
\* and however small the ring: what finds no descriptor waits in RX_BUF.
CtrlCIsSeen == (typed = Len(Typed) /\ backend = "virtio") ~> shut
=============================================================================
