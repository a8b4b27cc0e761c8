---------------------------- MODULE DeviceInit ------------------------------
(***************************************************************************)
(* The bring-up of the network devices: virtio-net, the virtio-mmio transport*)
(* that hvf-runner emulates, the PCI scan and the gVNIC admin queue.       *)
(***************************************************************************)
EXTENDS Integers, FiniteSets, Sequences, SequencesExt

(***************************************************************************)
(* Bringing up virtio-net (src/crates/drivers/virtio-net/src/init.rs): the *)
(* handshake with the device over PCI or MMIO as functions of what the     *)
(* device offers and of the one step that fails.                           *)
(*                                                                         *)
(* dv, a device: present, the features it offers, whether it accepts the   *)
(* driver's choice, max_virtqueue_pairs, the size of its control queue (0: *)
(* none), its answer to the multi-queue command, and `fail`, the           *)
(* allocation that fails ("none", "storage", "queue", "ctrl", "buffer").   *)
(* nd, the driver's NetDevice: `rings` is the number of pairs the storage  *)
(* was allocated for (0 before); `dead` records that the control queue was *)
(* used although it was never initialised.                                 *)
(***************************************************************************)
NetDevice == [transport |-> "none", rings |-> 0, num_queue_pairs |-> 1, negotiated |-> 1,
              has_mq |-> FALSE, has_tso4 |-> FALSE, has_csum |-> FALSE,
              ctrl |-> FALSE, dead |-> FALSE, event_idx |-> FALSE, posted |-> 0]

\* What the driver accepts: everything but the receive offloads over PCI, a list
\* over MMIO version 2, and nothing of interest over version 1.
RxOffloads == {"guest_csum", "guest_tso", "mrg_rxbuf"}
AcceptedPci(dv) == dv.features \ RxOffloads
AcceptedMmio(dv) ==
  IF dv.v2 THEN dv.features \intersect {"csum", "mac", "tso4", "status", "mrg_rxbuf", "mq", "ctrl_vq", "used_idx"}
  ELSE dv.features \intersect {"mac", "status", "mrg_rxbuf"}

VirtioFailed(nd, status) == [ok |-> FALSE, nd |-> nd, status |-> status, told |-> 1]

\* init_qp_storage: once; a second call keeps the first one's arrays.
init_qp_storage(nd, dv, pairs) ==
  IF pairs = 0 THEN [ok |-> FALSE, nd |-> nd]
  ELSE IF nd.rings # 0 THEN [ok |-> TRUE, nd |-> nd]
  ELSE IF dv.fail = "storage" THEN [ok |-> FALSE, nd |-> nd]
  ELSE [ok |-> TRUE, nd |-> [nd EXCEPT !.rings = pairs]]

\* ctrl_mq_set_pairs: one command on the control queue; anything but an ack of
\* zero within the spin budget means one pair.
ctrl_mq_set_pairs(nd, dv) ==
  LET n == [nd EXCEPT !.dead = ~nd.ctrl] IN
  IF nd.ctrl /\ dv.ack = "ok" THEN n
  ELSE [n EXCEPT !.has_mq = FALSE, !.num_queue_pairs = 1]

\* activate_multi_queue.  told: the number of pairs the device was told to use.
activate_multi_queue(nd, dv) ==
  IF ~nd.has_mq \/ nd.negotiated <= 1 \/ nd.num_queue_pairs = nd.negotiated
  THEN [nd |-> nd, told |-> 1]
  ELSE LET n == ctrl_mq_set_pairs(nd, dv)
       IN  [nd |-> IF n.has_mq THEN [n EXCEPT !.num_queue_pairs = nd.negotiated] ELSE n,
            told |-> IF nd.ctrl /\ dv.ack = "ok" THEN nd.negotiated ELSE 1]

has_mq(f) == {"mq", "ctrl_vq"} \subseteq f
has_tso4(f) == {"csum", "tso4"} \subseteq f

\* The number of pairs: one per processor, as far as the device has them.
Wanted(dv, f, cpus) ==
  LET max == IF has_mq(f) /\ dv.max_pairs > 1 THEN dv.max_pairs ELSE 1
  IN  IF cpus < max THEN cpus ELSE max

\* The NetDevice fields written when the handshake is over, and the multi-queue
\* command.
Finish(nd, dv, f, n, mq, transport) ==
  LET a == activate_multi_queue(
             [nd EXCEPT !.transport = transport, !.num_queue_pairs = 1, !.negotiated = n,
                        !.has_mq = mq /\ n > 1, !.has_tso4 = has_tso4(f), !.has_csum = "csum" \in f],
             dv)
  IN  [ok |-> TRUE, nd |-> a.nd, status |-> "driver_ok", told |-> a.told]

\* init_pci_modern.  A control queue that cannot be set up clears has_mq, and
\* the final assignments (init.rs:328) set it again.
init_pci_modern(nd0, dv, cpus) ==
  LET f == AcceptedPci(dv)
      n == Wanted(dv, f, cpus)
      st == init_qp_storage(nd0, dv, n)
      ctrl == has_mq(f) /\ n > 1 /\ dv.ctrl_size > 0 /\ dv.fail # "ctrl"
      nd1 == [st.nd EXCEPT !.ctrl = ctrl, !.event_idx = "event_idx" \in f]
  IN  IF ~dv.present THEN VirtioFailed(nd0, "reset")
      ELSE IF ~dv.accepts THEN VirtioFailed(nd0, "failed")
      ELSE IF ~st.ok THEN VirtioFailed(st.nd, "failed")
      ELSE IF dv.fail = "queue" THEN VirtioFailed(st.nd, "failed")
      ELSE IF dv.fail = "buffer" THEN VirtioFailed(nd1, "failed")
      ELSE Finish([nd1 EXCEPT !.posted = n], dv, f, n, has_mq(f), "pci")

\* init_mmio.  Here the failure of the control queue is remembered; only a
\* rejected feature set is reported to the device.
init_mmio(nd0, dv, cpus) ==
  LET f == AcceptedMmio(dv)
      n == Wanted(dv, f, cpus)
      st == init_qp_storage(nd0, dv, n)
      ctrl == has_mq(f) /\ n > 1 /\ dv.ctrl_size > 0 /\ dv.fail # "ctrl"
      nd1 == [st.nd EXCEPT !.ctrl = ctrl]
  IN  IF ~dv.present THEN VirtioFailed(nd0, "reset")
      ELSE IF dv.v2 /\ ~dv.accepts THEN VirtioFailed(nd0, "failed")
      ELSE IF ~st.ok THEN VirtioFailed(st.nd, "driver")
      ELSE IF dv.fail = "queue" THEN VirtioFailed(st.nd, "driver")
      ELSE IF dv.fail = "buffer" THEN VirtioFailed(nd1, "driver")
      ELSE Finish([nd1 EXCEPT !.posted = n], dv, f, n, has_mq(f) /\ ctrl, "mmio")

\* init: MMIO first where the architecture has it, then PCI.
virtio_init(mmio, pci, cpus) ==
         LET m == init_mmio(NetDevice, mmio, cpus)
         IN  IF m.ok THEN m ELSE init_pci_modern(m.nd, pci, cpus)

-----------------------------------------------------------------------------
(***************************************************************************)
(* The virtio-net device the HVF runner emulates                           *)
(* (src/tools/hvf-runner/src/virtio.rs) and the driver's side of its       *)
(* registers (bus/src/virtio.rs init_legacy, virtio-net's init_mmio): a    *)
(* register access is a function of the device record, and the driver's    *)
(* set-up of a queue is a sequence of writes.                              *)
(*                                                                         *)
(* A 64-bit ring address is two words of WordMod values; guest memory      *)
(* (mem) is only what the device writes there: the NO_NOTIFY flag of a     *)
(* used ring and the acknowledgement of a control command.                 *)
(***************************************************************************)
CONSTANTS WordMod,    \* 2^32: the width of a register
          ByteMod,    \* 2^8
          Cpus,       \* vCPUs of the machine
          MaxVcpus,   \* MAX_VCPUS
          QueueSize,  \* QUEUE_SIZE
          DriverMax   \* 256, the largest ring the driver allocates

Nqp == IF Cpus < MaxVcpus THEN Cpus ELSE MaxVcpus
NumQueues == 2 * Nqp + 1
CtrlIndex == 2 * Nqp   \* ctrl_queue_index
Zero64 == [lo |-> 0, hi |-> 0]
Queue0 == [num |-> 0, ready |-> FALSE, desc |-> Zero64, driver |-> Zero64, device |-> Zero64]
NoSnapshot == [qsize |-> 0, desc |-> Zero64, driver |-> Zero64, device |-> Zero64, ready |-> FALSE]

\* VirtioNet::new, and QUEUE_SNAPS.
new(mac) ==
  [status |-> {}, fsel |-> 0, dsel |-> 0, driver_features |-> <<{}, {}>>, queue_sel |-> 0,
   queues |-> [q \in 0 .. NumQueues - 1 |-> Queue0], isr |-> 0, mac |-> mac,
   snaps |-> [q \in 0 .. NumQueues - 1 |-> NoSnapshot], no_notify |-> {}]

\* The configuration space: the MAC in two words, then max_virtqueue_pairs.
ConfigWord(mac, off) ==
  FoldLeft(LAMBDA a, i : IF off + i < 6 THEN a + mac[off + i + 1] * ByteMod^i ELSE a, 0, <<0, 1, 2, 3>>)

\* VirtioNet::read: the value; reading INTERRUPT_STATUS clears it.
read(d, reg) ==
  CASE reg = "features" -> IF d.fsel = 0 THEN {"csum", "mac", "tso4", "mq", "ctrl_vq"}
                           ELSE IF d.fsel = 1 THEN {"version_1"} ELSE {}
    [] reg = "num_max" -> QueueSize
    [] reg = "ready" -> d.queue_sel < NumQueues /\ d.queues[d.queue_sel].ready
    [] reg = "status" -> d.status
    [] reg = "isr" -> d.isr
    [] reg = "config0" -> ConfigWord(d.mac, 0)
    [] reg = "config4" -> ConfigWord(d.mac, 4)
    [] reg = "config8" -> Nqp

after_read(d, reg) == IF reg = "isr" THEN [d EXCEPT !.isr = 0] ELSE d

\* The write to QUEUE_READY: the registers become the snapshot the runner's
\* threads use, once (OnceLock); a receive ring is marked as never needing a
\* doorbell.
write_ready(d, v) ==
  LET i == d.queue_sel
      q == d.queues[i]
      snap == [qsize |-> q.num, desc |-> q.desc, driver |-> q.driver, device |-> q.device, ready |-> TRUE]
  IN  IF v = 0 THEN [d EXCEPT !.queues = [@ EXCEPT ![i] = [@ EXCEPT !.ready = FALSE]]]
      ELSE [d EXCEPT !.queues = [@ EXCEPT ![i] = [@ EXCEPT !.ready = TRUE]],
                     !.snaps = [@ EXCEPT ![i] = IF d.snaps[i].ready THEN @ ELSE snap],
                     !.no_notify = IF i % 2 = 0 /\ i < 2 * Nqp THEN @ \union {q.device} ELSE @]

\* STATUS: writing nothing resets the registers, the queues included.
write_status(d, v) ==
  IF v = {} THEN [d EXCEPT !.status = {}, !.driver_features = <<{}, {}>>, !.queue_sel = 0, !.isr = 0,
                           !.queues = [q \in DOMAIN d.queues |-> Queue0]]
  ELSE [d EXCEPT !.status = v]

\* VirtioNet::write.  w: <<register, value>>; the address registers are
\* <<"addr", ring, half, value>>.
write(d, w) ==
  LET i == d.queue_sel
      here == i < NumQueues
      Set(q) == [d EXCEPT !.queues = [@ EXCEPT ![i] = q]]
  IN  CASE w[1] = "fsel" -> [d EXCEPT !.fsel = w[2]]
        [] w[1] = "dsel" -> [d EXCEPT !.dsel = w[2]]
        [] w[1] = "driver" -> IF d.dsel < 2 THEN [d EXCEPT !.driver_features = [@ EXCEPT ![d.dsel + 1] = w[2]]] ELSE d
        [] w[1] = "sel" -> [d EXCEPT !.queue_sel = w[2]]
        [] w[1] = "num" -> IF here THEN Set([d.queues[i] EXCEPT !.num = w[2]]) ELSE d
        [] w[1] = "ready" -> IF here THEN write_ready(d, w[2]) ELSE d
        [] w[1] = "addr" -> IF here THEN Set([d.queues[i] EXCEPT ![w[2]] = [@ EXCEPT ![w[3]] = w[4]]]) ELSE d
        [] w[1] = "status" -> write_status(d, w[2])
        [] w[1] = "ack" -> [d EXCEPT !.isr = 0]

\* A sequence of register writes.  (The set of one element has TLC evaluate
\* every intermediate device before the next write.)
RECURSIVE Writes(_, _)
Writes(d, ws) ==
  IF ws = <<>> THEN d
  ELSE CHOOSE r \in {Writes(e, Tail(ws)) : e \in {write(d, Head(ws))}} : TRUE

\* queue_snapshot: nothing for an index past the table.
queue_snapshot(d, i) == IF i < NumQueues THEN d.snaps[i] ELSE NoSnapshot

\* The halves of the address change places.
WriteAddrSwapped(ring, a) ==
  <<<<"addr", ring, "hi", a % WordMod>>, <<"addr", ring, "lo", a \div WordMod>>>>

\* The driver: the address of a ring in two writes, and init_legacy for an MMIO
\* version 2 queue whose rings are at r.desc, r.driver, r.device.
WriteAddr(ring, a) == <<<<"addr", ring, "lo", a % WordMod>>, <<"addr", ring, "hi", a \div WordMod>>>>
DriverSize == IF QueueSize > DriverMax THEN DriverMax ELSE QueueSize
init_legacy(i, r) ==
  <<<<"sel", i>>, <<"num", DriverSize>>>> \o WriteAddr("desc", r.desc) \o WriteAddr("driver", r.driver)
    \o WriteAddr("device", r.device) \o <<<<"ready", 1>>>>

\* init_mmio's writes before and around the queues, with the features it takes.
mmio_init(queues) ==
  <<<<"status", {}>>, <<"status", {"acknowledge"}>>, <<"status", {"acknowledge", "driver"}>>, <<"fsel", 0>>,
    <<"dsel", 0>>, <<"driver", {"csum", "mac", "tso4", "mq", "ctrl_vq"}>>, <<"dsel", 1>>, <<"driver", {}>>,
    <<"status", {"acknowledge", "driver", "features_ok"}>>>>
    \o FlattenSeq([n \in 1 .. Len(queues) |-> init_legacy(queues[n].i, queues[n])])
    \o <<<<"status", {"acknowledge", "driver", "features_ok", "driver_ok"}>>>>

\* The MAC as the driver puts it together from the two words.
DriverMac(d) ==
  [i \in 1 .. 6 |-> IF i <= 4 THEN (read(d, "config0") \div ByteMod^(i - 1)) % ByteMod
                    ELSE (read(d, "config4") \div ByteMod^(i - 5)) % ByteMod]

\* handle_ctrl_queue over one posted chain (a sequence of descriptors
\* [write, len]): every writable byte becomes 0, the total is what the used
\* entry reports, and the command is the first four readable bytes or nothing.
handle_ctrl_queue(snap, chain, data) ==
  LET readable == FoldLeft(LAMBDA a, e : IF e.write THEN a ELSE a + e.len, 0, chain)
      cmd == IF readable < 8 THEN readable ELSE 8
  IN  IF ~snap.ready THEN [done |-> FALSE, acked |-> FALSE, pairs |-> 0]
      ELSE [done |-> TRUE, acked |-> \E i \in DOMAIN chain : chain[i].write,
            pairs |-> IF cmd >= 4 /\ data.class = 4 /\ data.cmd = 0 THEN data.pairs ELSE 0]

-----------------------------------------------------------------------------
(***************************************************************************)
(* Finding PCI functions and their registers                               *)
(* (src/crates/drivers/bus/src/pci.rs, virtio.rs vpci_parse_caps):         *)
(* functions of a machine, a map from <<slot, func>> to what its           *)
(* configuration space says.                                               *)
(*                                                                         *)
(* A base-address register is [kind, addr]: "io", "mem32", "mem64", "high" *)
(* (the upper half of the register before it) or "none".  Addresses count  *)
(* allocation units (4 MiB); a capability is                               *)
(* [id, kind, bar, off, next].                                             *)
(***************************************************************************)
CONSTANTS MaxDevices,  \* PCI_MAX_DEVICES
          PciSlots,    \* device numbers on the bus (0 .. 31)
          Funcs,       \* functions of a device (0 .. 7)
          Bars,        \* registers of a function (6)
          CapSteps     \* capabilities find_msix_cap looks at (48)

\* assign_bars (aarch64): a type-0 function whose memory decoding is off gets an
\* aligned unit for every memory register still at zero; decoding, I/O and
\* mastering are then turned on.  Result: the registers and the next unit.
RECURSIVE assign_from(_, _, _)
assign_from(bars, i, next) ==
  IF i > Bars THEN [bars |-> bars, next |-> next]
  ELSE LET b == bars[i]
           step == IF b.kind = "mem64" THEN 2 ELSE 1
       IN  IF b.addr # 0 \/ b.kind = "io" THEN assign_from(bars, i + step, next)
           ELSE assign_from([bars EXCEPT ![i] = IF b.kind = "none" THEN @ ELSE [@ EXCEPT !.addr = next]],
                            i + step, next + 1)

assign_bars(f, next) ==
  IF f.bridge \/ f.decoding THEN [f |-> f, next |-> next]
  ELSE LET a == assign_from(f.bars, 1, next)
       IN  [f |-> [f EXCEPT !.bars = a.bars, !.decoding = TRUE, !.mastering = TRUE], next |-> a.next]

\* probe_function: nothing there, or the function enters the table while there
\* is room.  st: the machine, the table and the next free unit.
probe_function(st, at) ==
  IF at \notin DOMAIN st.m THEN st
  ELSE LET a == assign_bars(st.m[at], st.next)
       IN  [m |-> [st.m EXCEPT ![at] = a.f], next |-> a.next,
            table |-> IF Len(st.table) < MaxDevices THEN Append(st.table, at) ELSE st.table]

\* init_inner: every slot, and the further functions of a multi-function device
\* whose function 0 exists.
RECURSIVE scan_funcs(_, _, _)
scan_funcs(st, slot, func) ==
  IF func \notin Funcs THEN st ELSE scan_funcs(probe_function(st, <<slot, func>>), slot, func + 1)

RECURSIVE scan(_, _)
scan(st, slot) ==
  IF slot \notin PciSlots THEN st
  ELSE LET here == <<slot, 0>>
           s == probe_function(st, here)
       IN  scan(IF here \in DOMAIN st.m /\ st.m[here].multi THEN scan_funcs(s, slot, 1) ELSE s, slot + 1)

pci_init(m, first) == scan([m |-> m, next |-> first, table |-> <<>>], 0)

\* find_device: the first table entry of that identity, or 0.
find_device(st, id) ==
  LET hits == {i \in DOMAIN st.table : st.m[st.table[i]].id = id}
  IN  IF hits = {} THEN 0 ELSE CHOOSE i \in hits : \A j \in hits : i <= j

\* vpci_find's identities: the modern one first, then the transitional one.
vpci_identity(st, type) ==
  LET modern == find_device(st, <<"modern", type>>)
  IN  IF modern # 0 THEN modern
      ELSE IF type \in {1, 2, 3, 4, 5, 8, 9} THEN find_device(st, <<"transitional", type>>) ELSE 0

\* enable_bus_mastering_inner writes the command register of function 0 of the
\* slot.
enable_bus_mastering(m, at) ==
  IF <<at[1], 0>> \in DOMAIN m THEN [m EXCEPT ![<<at[1], 0>>] = [@ EXCEPT !.mastering = TRUE]] ELSE m

\* read_bar64: both halves of a 64-bit register unless it is the last one.
read_bar64(bars, i) == IF bars[i].kind \in {"none", "high"} THEN 0 ELSE bars[i].addr

\* vpci_parse_caps: walk the list from `at` (0 ends it); later capabilities of a
\* kind replace earlier ones, except MSI-X; a capability whose register is
\* unassigned is passed over.
RECURSIVE parse_from(_, _, _)
parse_from(f, at, d) ==
  IF at = 0 THEN d
  ELSE LET c == f.caps[at]
           base == read_bar64(f.bars, c.bar)
           d1 == IF c.id = "msix" /\ d.msix_cap = 0
                 THEN [d EXCEPT !.msix_cap = at, !.msix_table = IF base = 0 THEN 0 ELSE base + c.off] ELSE d
           d2 == IF c.id = "vendor" /\ base # 0 /\ c.kind \in {"common", "notify", "device", "isr"}
                 THEN [d1 EXCEPT ![c.kind] = base + c.off] ELSE d1
       IN  parse_from(f, c.next, d2)

vpci_parse_caps(f) ==
  LET zero == [common |-> 0, notify |-> 0, device |-> 0, isr |-> 0, msix_cap |-> 0, msix_table |-> 0]
      d == IF f.first = 0 THEN zero ELSE parse_from(f, f.first, zero)
  IN  [ok |-> d.common # 0 /\ d.notify # 0, d |-> d]

\* find_msix_cap: the same list, for at most CapSteps capabilities.
RECURSIVE msix_from(_, _, _)
msix_from(f, at, left) ==
  IF at = 0 \/ left = 0 THEN 0
  ELSE IF f.caps[at].id = "msix" THEN at ELSE msix_from(f, f.caps[at].next, left - 1)

find_msix_cap(f) == msix_from(f, f.first, CapSteps)

\* msix_enable: the enable bit set and the function mask cleared, or the enable
\* bit cleared; the rest of the word is kept.
msix_enable(mc, enable) == IF enable THEN (mc \union {"enable"}) \ {"mask"} ELSE mc \ {"enable"}

-----------------------------------------------------------------------------
(***************************************************************************)
(* The bring-up of the gVNIC device (src/crates/drivers/gve/src/init.rs,   *)
(* adminq.rs): the device descriptor, the number of queue pairs, the       *)
(* resources, the batches of admin commands that register page lists and   *)
(* create queues, and the first receive buffers.                           *)
(*                                                                         *)
(* A driver state st is a record; st.ok is FALSE once a step has returned  *)
(* false and st.panic once an assertion has failed, and the steps after it *)
(* do nothing.  The device x is external: it executes the commands of the  *)
(* admin ring in order up to the doorbell, refuses one that names a page   *)
(* list, a notification block or a queue it does not have, and may refuse  *)
(* every command of the kind x.fails.                                      *)
(***************************************************************************)
CONSTANTS AdminSlots,      \* ADMINQ_SLOTS
          MaxQueuePairs,   \* MAX_QUEUE_PAIRS
          TxRing, RxRing,  \* TX_RING_ENTRIES, RX_RING_ENTRIES
          RssLut           \* RSS_LUT_SIZE

MinOf(a, b) == IF a < b THEN a ELSE b
Blank == [ok |-> TRUE, panic |-> FALSE, pages |-> 0, slots |-> [i \in 0 .. AdminSlots - 1 |-> [op |-> "none"]],
          status |-> [i \in 0 .. AdminSlots - 1 |-> FALSE], prod |-> 0, lapped |-> FALSE,
          done |-> 0, blocks |-> 0, lists |-> {}, devTx |-> {}, devRx |-> {}, lut |-> << >>,
          fmt |-> "none", bounds |-> [minTx |-> 0, maxTx |-> 0, minRx |-> 0, maxRx |-> 0],
          num_qp |-> 0, tx |-> {}, rx |-> {}, tail |-> << >>, ready |-> FALSE]
GveFailed(st) == [st EXCEPT !.ok = FALSE]
Live(st) == st.ok /\ ~st.panic

\* alloc_pages: the bump allocator may run out.
alloc_contig(st, n) == IF st.pages < n THEN GveFailed(st) ELSE [st EXCEPT !.pages = @ - n]

\* The next step, unless an earlier one has failed.
IfLive(st, Op(_)) == IF Live(st) THEN Op(st) ELSE st

-----------------------------------------------------------------------------
(* The device executes one command. *)

Accepts(x, st, c) ==
    /\ c.op # x.fails
    /\ c.op = "register" => \A l \in st.lists : l.id # c.id
    /\ c.op \in {"tx", "rx"} =>
          /\ c.ntfy < st.blocks
          /\ \A q \in st.devTx \cup st.devRx : q.ntfy # c.ntfy
          /\ c.qpl = -1 \/ (c.qpl \in {l.id : l \in st.lists} /\ \A q \in st.devTx \cup st.devRx : q.qpl # c.qpl)
    /\ c.op = "rss" => \A i \in DOMAIN c.lut : c.lut[i] \in {q.qp : q \in st.devRx}
Execute(x, st) ==
    LET s == st.done % AdminSlots
        c == st.slots[s]
        on == [st EXCEPT !.done = @ + 1, !.status[s] = TRUE]
    IN  CASE ~Accepts(x, st, c)    -> [st EXCEPT !.done = @ + 1, !.status[s] = FALSE]
          [] c.op = "configure"    -> [on EXCEPT !.blocks = c.blocks]
          [] c.op = "register"     -> [on EXCEPT !.lists = @ \cup {c}]
          [] c.op = "tx"           -> [on EXCEPT !.devTx = @ \cup {c}]
          [] c.op = "rx"           -> [on EXCEPT !.devRx = @ \cup {c}]
          [] c.op = "rss"          -> [on EXCEPT !.lut = c.lut]
          [] OTHER                 -> on

-----------------------------------------------------------------------------
(* adminq *)

adminq_init(st) == [st EXCEPT !.prod = 0]

submit_no_wait(st, c) == [st EXCEPT !.slots[st.prod % AdminSlots] = c,
                                    !.lapped = @ \/ st.prod - st.done >= AdminSlots,
                                    !.prod = @ + 1]

\* Ring the doorbell and wait until the event counter equals the count.
RECURSIVE kick_and_wait_to(_, _, _)
kick_and_wait_to(x, st, n) == IF st.done = n THEN st
                              ELSE CHOOSE r \in {kick_and_wait_to(x, Execute(x, st), n)} : TRUE
check_slot_status(st, slot) == st.status[slot]

execute_cmd(x, st, c) ==
    LET end(r) == IF check_slot_status(r, (r.prod - 1) % AdminSlots) THEN r ELSE GveFailed(r)
    IN  end(kick_and_wait_to(x, submit_no_wait(st, c), st.prod + 1))

\* A batch: submit all, kick once, and the first refused command fails it.
Submit(st, cmds) == FoldLeft(submit_no_wait, st, cmds)
Batch(x, st, cmds) == kick_and_wait_to(x, Submit(st, cmds), st.prod + Len(cmds))
SlotOf(st, i) == (st.prod + i - 1) % AdminSlots

-----------------------------------------------------------------------------
(* describe_device *)

higher_priority(a, b) == IF "dqo" \in {a, b} THEN "dqo" ELSE "gqi"

\* parse_device_descriptor: at most x.num_options options, none past the end
\* of the descriptor; the ring bounds count only when they are all inside it.
HeaderLen == 40
RECURSIVE options(_, _, _, _)
options(x, i, at, acc) ==
    IF i > x.num_options \/ i > Len(x.options) \/ at + 8 > x.total_len THEN acc
    ELSE LET o == x.options[i]
             fmt == IF o.id \in {"dqo", "gqi"}
                    THEN IF acc.fmt = "none" THEN o.id ELSE higher_priority(acc.fmt, o.id)
                    ELSE acc.fmt
             fits == o.id = "modify" /\ at + 8 + o.len <= x.total_len /\ o.len >= 8
         IN  options(x, i + 1, at + 8 + o.len,
                [fmt |-> fmt,
                 bounds |-> IF ~fits THEN acc.bounds
                            ELSE [maxTx |-> o.max, maxRx |-> o.max,
                                  minTx |-> IF o.len >= 12 THEN o.min ELSE acc.bounds.minTx,
                                  minRx |-> IF o.len >= 12 THEN o.min ELSE acc.bounds.minRx]])
parse_device_descriptor(x, st) ==
    LET end(r) == IF r.fmt = "none" THEN GveFailed(st)
                  ELSE [st EXCEPT !.fmt = r.fmt, !.bounds = r.bounds]
    IN  end(options(x, 1, HeaderLen, [fmt |-> "none", bounds |-> st.bounds]))
describe_device(x, st) ==
    LET execute(a) == execute_cmd(x, a, [op |-> "describe"])
        parse(r) == parse_device_descriptor(x, r)
    IN  IfLive(IfLive(alloc_contig(st, 1), execute), parse)

\* configure_device_resources: the counter and interrupt-doorbell arrays, and
\* two notification blocks per queue pair.
configure_device_resources(x, st, n) ==
    LET execute(a) == execute_cmd(x, a, [op |-> "configure", blocks |-> 2 * n, fmt |-> a.fmt])
    IN  IF x.counters = 0 THEN GveFailed(st) ELSE IfLive(alloc_contig(st, 2), execute)

-----------------------------------------------------------------------------
(* create_all_queues_batched *)

tx_qpl_id(qp) == qp
rx_qpl_id(qp) == qp + MaxQueuePairs
tx_ntfy_id(qp) == qp
rx_ntfy_id(n, qp) == n + qp

\* alloc_tx_resources and alloc_rx_resources take a ring, a resource page and
\* backing pages; DQO transmit queues also take a completion ring.
alloc_tx_resources(st) == alloc_contig(st, IF st.fmt = "dqo" THEN 4 ELSE 3)
alloc_rx_resources(st) == alloc_contig(st, 4)
alloc_all(st, n) == FoldLeft(LAMBDA a, i : IF ~Live(a) THEN a
                                           ELSE IF i <= n THEN alloc_tx_resources(a) ELSE alloc_rx_resources(a),
                             st, [i \in 1 .. 2 * n |-> i])

build_register_page_list_cmd(id) == [op |-> "register", id |-> id]
build_create_tx_queue_cmd(st, qp) ==
    [op |-> "tx", qp |-> qp, ntfy |-> tx_ntfy_id(qp),
     qpl |-> IF st.fmt = "dqo" THEN -1 ELSE tx_qpl_id(qp), ring |-> TxRing]
build_create_rx_queue_cmd(st, qp, n) ==
    [op |-> "rx", qp |-> qp, ntfy |-> rx_ntfy_id(n, qp),
     qpl |-> IF st.fmt = "dqo" THEN -1 ELSE rx_qpl_id(qp), ring |-> RxRing]
build_configure_rss_cmd(n) == [op |-> "rss", lut |-> [i \in 1 .. RssLut |-> (i - 1) % n]]
RingsInBounds(st) == /\ st.bounds.maxTx # 0 => TxRing \in st.bounds.minTx .. st.bounds.maxTx
                     /\ st.bounds.maxRx # 0 => RxRing \in st.bounds.minRx .. st.bounds.maxRx

Pairs(n) == [i \in 1 .. n |-> i - 1]
\* The page lists of the queue-page-list format, before the queues that use them.
RegisterAll(x, st, n) ==
    LET cmd(i) == build_register_page_list_cmd(IF i <= n THEN tx_qpl_id(i - 1)
                                               ELSE rx_qpl_id(i - n - 1))
        end(a, r) == IF \A i \in 1 .. 2 * n : check_slot_status(r, SlotOf(a, i))
                     THEN r ELSE GveFailed(r)
        register(a) == end(a, Batch(x, a, [i \in 1 .. 2 * n |-> cmd(i)]))
    IN  IF st.fmt # "gqi" THEN st ELSE IfLive(alloc_contig(st, 2 * n), register)

\* finalize_tx_queue and finalize_rx_queue publish a queue once its own
\* command has passed; the first refusal ends the bring-up there.
Passed(r, st, from, n) == {i \in 0 .. n - 1 : \A j \in 0 .. i : check_slot_status(r, SlotOf(st, from + j))}
finalize_tx_queue(r, st, n) == [r EXCEPT !.tx = Passed(r, st, 1, n)]
finalize_rx_queue(r, st, n) == [r EXCEPT !.rx = Passed(r, st, n + 1, n)]

CreateAll(x, st, n) ==
    LET cmds == [i \in 1 .. 2 * n |-> IF i <= n THEN build_create_tx_queue_cmd(st, i - 1)
                                      ELSE build_create_rx_queue_cmd(st, i - n - 1, n)]
                \o (IF n > 1 THEN << build_configure_rss_cmd(n) >> ELSE << >>)
        rx(u) == IF u.rx # 0 .. n - 1 THEN GveFailed(u) ELSE u
        tx(a, t) == IF t.tx # 0 .. n - 1 THEN GveFailed(t) ELSE rx(finalize_rx_queue(t, a, n))
        create(a) == tx(a, finalize_tx_queue(Batch(x, a, cmds), a, n))
    IN  IF ~RingsInBounds(st) THEN [st EXCEPT !.panic = TRUE]
        ELSE IfLive(IF n > 1 THEN alloc_contig(st, 2) ELSE st, create)
                                            \* a refused RSS command is only logged

create_all_queues_batched(x, st, n) ==
    LET register(a) == RegisterAll(x, a, n)
        create(b) == CreateAll(x, b, n)
    IN  IF n = 0 \/ n > MaxQueuePairs THEN GveFailed(st)
        ELSE IfLive(IfLive(alloc_all(st, n), register), create)

\* post_initial_rx: one position stays empty in the masked format.
post_initial_rx(st) == [st EXCEPT !.tail = [i \in DOMAIN Pairs(st.num_qp) |-> IF st.fmt = "dqo" THEN (RxRing - 1) % RxRing ELSE RxRing]]

\* init
NumPairs(x) == LET n == MinOf(MinOf(x.default_queues, MinOf(x.max_tx, x.max_rx)), MaxQueuePairs)
               IN  IF n < 1 THEN 1 ELSE n
gve_init(x) ==
    LET describe(a) == IF x.found /\ x.bar0 THEN describe_device(x, adminq_init(a)) ELSE GveFailed(a)
        configure(b) == IF x.bar2 THEN configure_device_resources(x, b, NumPairs(x)) ELSE GveFailed(b)
        create(c) == create_all_queues_batched(x, c, NumPairs(x))
        publish(d) == [post_initial_rx([d EXCEPT !.num_qp = NumPairs(x)]) EXCEPT !.ready = TRUE]
    IN  IfLive(IfLive(IfLive(IfLive(alloc_contig([Blank EXCEPT !.pages = x.pages], 1),
                                    describe), configure), create), publish)
=============================================================================
