------------------------------ MODULE HvfHost -------------------------------
(***************************************************************************)
(* Two parts of hvf-runner: the UDP side of its userspace network, and the *)
(* life of its virtual CPUs.  The two machines are independent.            *)
(***************************************************************************)
EXTENDS Integers, Sequences, FiniteSets

(***************************************************************************)
(* UDP through the runner's userspace network: the listener thread reads   *)
(* the host's datagrams, remembers their senders and hands the frames to   *)
(* the vCPU the flow hashes to; a vCPU thread moves them into its guest's  *)
(* ring between runs of the guest and sends the guest's answers back to    *)
(* the remembered sender.  A datagram of the guest's own goes out of a     *)
(* socket kept per guest port, and what comes back is addressed from the   *)
(* last destination.                                                       *)
(*                                                                         *)
(* A client is an address and a port; a datagram is a client and a number. *)
(***************************************************************************)
CONSTANTS VCpus,
          Clients,    \* senders on the host
          PortOf,     \* client -> its port
          TargetOf,   \* client -> vCPU (target_vcpu_v4/v6: a hash of address and ports)
          Services,   \* host services the guest talks to
          PerClient,  \* datagrams a client sends
          MaxAsks,    \* datagrams the guest sends to services, per vCPU
          RingSize    \* receive descriptors of a guest

VARIABLES sent,      \* client -> datagrams it has sent
          sock,      \* the listener's socket
          lis,       \* the listener: pc, the datagram in hand and its vCPU
          known,     \* vCPU -> udp_clients: port -> client
          fwd,       \* vCPU -> forwarded_rx
          pipe,      \* vCPU -> bytes in its wake pipe
          kick,      \* vCPU -> hv_vcpus_exit requested
          at,        \* vCPU -> where its thread is
          ring,      \* vCPU -> frames in the guest's ring, not yet taken
          replies,   \* vCPU -> tx_replies
          flow,      \* vCPU -> the outbound socket: last destination, answers waiting
          got,       \* vCPU -> frames the guest has taken, in order
          answered   \* <<datagram, client the answer went to>>
udpVars == <<sent, sock, lis, known, fwd, pipe, kick, at, ring, replies, flow, got, answered>>

Nobody == "nobody"
Idle == [pc |-> "poll", c |-> Nobody, n |-> 0]
NoFlow == [last |-> Nobody, in |-> <<>>, asked |-> 0, owed |-> {}]
FromClient(c, n) == [kind |-> "client", c |-> c, n |-> n, from |-> c]
FromService(s, label) == [kind |-> "service", c |-> Nobody, n |-> s, from |-> label]

UdpInit ==
       /\ sent = [c \in Clients |-> 0] /\ sock = <<>> /\ lis = Idle
       /\ known = [v \in VCpus |-> [p \in {PortOf[c] : c \in Clients} |-> Nobody]]
       /\ fwd = [v \in VCpus |-> <<>>] /\ pipe = [v \in VCpus |-> 0] /\ kick = [v \in VCpus |-> FALSE]
       /\ at = [v \in VCpus |-> "top"] /\ ring = [v \in VCpus |-> <<>>] /\ replies = [v \in VCpus |-> <<>>]
       /\ flow = [v \in VCpus |-> NoFlow] /\ got = [v \in VCpus |-> <<>>] /\ answered = {}

-----------------------------------------------------------------------------
ClientSend(c) ==
    /\ sent[c] < PerClient
    /\ sent' = [sent EXCEPT ![c] = @ + 1]
    /\ sock' = Append(sock, [c |-> c, n |-> sent[c] + 1])
    /\ UNCHANGED <<lis, known, fwd, pipe, kick, at, ring, replies, flow, got, answered>>

\* listener_drain_v4/v6: the sender is remembered on the target before the
\* frame is handed over.
ListenerRecv ==
    /\ lis.pc = "poll" /\ sock # <<>>
    /\ LET d == Head(sock) IN
         /\ known' = [known EXCEPT ![TargetOf[d.c]][PortOf[d.c]] = d.c]
         /\ lis' = [pc |-> "push", c |-> d.c, n |-> d.n]
    /\ sock' = Tail(sock)
    /\ UNCHANGED <<sent, fwd, pipe, kick, at, ring, replies, flow, got, answered>>

\* forward_frame_to_vcpu: only the frame that finds the mailbox empty wakes.
ListenerPush ==
    /\ lis.pc = "push"
    /\ LET v == TargetOf[lis.c] IN
         /\ fwd' = [fwd EXCEPT ![v] = Append(@, FromClient(lis.c, lis.n))]
         /\ lis' = IF fwd[v] = <<>> THEN [lis EXCEPT !.pc = "pipe"] ELSE Idle
    /\ UNCHANGED <<sent, sock, known, pipe, kick, at, ring, replies, flow, got, answered>>
ListenerPipe ==
    /\ lis.pc = "pipe"
    /\ pipe' = [pipe EXCEPT ![TargetOf[lis.c]] = @ + 1]
    /\ lis' = [lis EXCEPT !.pc = "exit"]
    /\ UNCHANGED <<sent, sock, known, fwd, kick, at, ring, replies, flow, got, answered>>
ListenerExit ==
    /\ lis.pc = "exit"
    /\ kick' = [kick EXCEPT ![TargetOf[lis.c]] = TRUE]
    /\ lis' = Idle
    /\ UNCHANGED <<sent, sock, known, fwd, pipe, at, ring, replies, flow, got, answered>>

-----------------------------------------------------------------------------
\* vcpu_poll up to poll(2): what was staged and forwarded goes into the ring,
\* as far as it has room.
Least(a, b) == IF a < b THEN a ELSE b
Drained(v) ==
    LET room == RingSize - Len(ring[v])
        a == Least(Len(replies[v]), room)
        b == Least(Len(fwd[v]), room - a)
    IN  /\ ring' = [ring EXCEPT ![v] = @ \o SubSeq(replies[v], 1, a) \o SubSeq(fwd[v], 1, b)]
        /\ replies' = [replies EXCEPT ![v] = SubSeq(@, a + 1, Len(@))]
        /\ fwd' = [fwd EXCEPT ![v] = SubSeq(@, b + 1, Len(@))]
PollTop(v) ==
    /\ at[v] = "top"
    /\ Drained(v)
    /\ at' = [at EXCEPT ![v] = "poll"]
    /\ UNCHANGED <<sent, sock, lis, known, pipe, kick, flow, got, answered>>

\* poll(2) returned: the pipe is emptied and the answers of services are
\* staged, from the flow's last destination.
Ready(v) == pipe[v] > 0 \/ flow[v].in # <<>>
Serve(v) ==
    LET f == flow[v] IN
    /\ pipe' = [pipe EXCEPT ![v] = 0]
    /\ replies' = [replies EXCEPT ![v] = @ \o [i \in DOMAIN f.in |-> FromService(f.in[i], f.last)]]
    /\ flow' = [flow EXCEPT ![v].in = <<>>]
PollTopDone(v) ==
    /\ at[v] = "poll"
    /\ IF Ready(v) THEN Serve(v) ELSE UNCHANGED <<pipe, replies, flow>>
    /\ at' = [at EXCEPT ![v] = "guest"]
    /\ UNCHANGED <<sent, sock, lis, known, fwd, kick, ring, got, answered>>

\* The guest: takes a frame and answers a client's datagram (handle_udp_v4
\* looks the port up on the vCPU that runs it); asks a service; yields when
\* its ring is empty; or is thrown out by hv_vcpus_exit.
GuestRecv(v) ==
    /\ at[v] = "guest" /\ ring[v] # <<>>
    /\ LET f == Head(ring[v])
           to == known[v][PortOf[f.c]]
       IN  /\ got' = [got EXCEPT ![v] = Append(@, f)]
           /\ answered' = IF f.kind # "client" THEN answered
                          ELSE IF to = Nobody THEN answered
                          ELSE answered \cup {<<f, to>>}
    /\ ring' = [ring EXCEPT ![v] = Tail(@)]
    /\ at' = [at EXCEPT ![v] = IF Head(ring[v]).kind = "client" THEN "top" ELSE "guest"]
    /\ UNCHANGED <<sent, sock, lis, known, fwd, pipe, kick, replies, flow>>
\* handle_udp_outbound
GuestAsk(v, s) ==
    /\ at[v] = "guest" /\ flow[v].asked < MaxAsks
    /\ flow' = [flow EXCEPT ![v].last = s, ![v].asked = @ + 1, ![v].owed = @ \cup {s}]
    /\ at' = [at EXCEPT ![v] = "top"]
    /\ UNCHANGED <<sent, sock, lis, known, fwd, pipe, kick, ring, replies, got, answered>>
ServiceAnswers(v, s) ==
    /\ s \in flow[v].owed
    /\ flow' = [flow EXCEPT ![v].in = Append(@, s), ![v].owed = @ \ {s}]
    /\ UNCHANGED <<sent, sock, lis, known, fwd, pipe, kick, at, ring, replies, got, answered>>
UdpCanceled(v) ==
       /\ at[v] = "guest" /\ kick[v]
       /\ kick' = [kick EXCEPT ![v] = FALSE]
       /\ at' = [at EXCEPT ![v] = "top"]
       /\ UNCHANGED <<sent, sock, lis, known, fwd, pipe, ring, replies, flow, got, answered>>

\* The yield: vcpu_poll with ten milliseconds, once.
UdpYield(v) ==
       /\ at[v] = "guest" /\ ring[v] = <<>> /\ ~kick[v]
       /\ Drained(v)
       /\ at' = [at EXCEPT ![v] = "wait"]
       /\ UNCHANGED <<sent, sock, lis, known, pipe, kick, flow, got, answered>>
Woken(v) ==
    /\ at[v] = "wait" /\ Ready(v)
    /\ Serve(v)
    /\ at' = [at EXCEPT ![v] = "top"]
    /\ UNCHANGED <<sent, sock, lis, known, fwd, kick, ring, got, answered>>
TimedOut(v) ==
    /\ at[v] = "wait" /\ ~Ready(v)
    /\ at' = [at EXCEPT ![v] = "top"]
    /\ UNCHANGED <<sent, sock, lis, known, fwd, pipe, kick, ring, replies, flow, got, answered>>

Listener == ListenerRecv \/ ListenerPush \/ ListenerPipe \/ ListenerExit
Thread(v) == PollTop(v) \/ PollTopDone(v) \/ GuestRecv(v) \/ UdpCanceled(v) \/ UdpYield(v) \/ Woken(v) \/ TimedOut(v)
UdpNext ==
       \/ \E c \in Clients : ClientSend(c)
       \/ Listener
       \/ \E v \in VCpus : \/ Thread(v)
                           \/ \E s \in Services : GuestAsk(v, s) \/ ServiceAnswers(v, s)
\* The threads run, and the guest takes what is in its ring.
UdpSpec == /\ UdpInit /\ [][UdpNext]_udpVars
           /\ WF_udpVars(Listener) /\ \A v \in VCpus : WF_udpVars(Thread(v)) /\ WF_udpVars(GuestRecv(v))

-----------------------------------------------------------------------------
Of(s, c) == SelectSeq(s, LAMBDA f : f.kind = "client" /\ f.c = c)
InHand(c) == IF lis.pc = "push" /\ lis.c = c THEN <<lis>> ELSE <<>>
Numbers(s) == [i \in DOMAIN s |-> s[i].n]

\* A datagram read from the socket is in exactly one place, its client's in
\* the order they were sent, from the socket through the mailbox and the ring
\* to the guest (forward_frame_to_vcpu, drain_forwarded_rx): a full ring
\* delays frames and loses, repeats or reorders none.
FlowInOrder ==
    \A c \in Clients :
        LET v == TargetOf[c]
        IN  Numbers(Of(got[v] \o ring[v] \o fwd[v], c) \o InHand(c) \o SelectSeq(sock, LAMBDA d : d.c = c))
              = [i \in 1 .. sent[c] |-> i]

\* The guest's answer to a datagram goes to the client that sent it
\* (udp_clients, keyed by the ports alone).
AnswerReachesAsker == \A a \in answered : a[2] = a[1].c

\* A service's answer is shown to the guest as coming from that service
\* (OutboundUdp: last_dst_ip, last_dst_port).
AnswerNamesItsService ==
    \A v \in VCpus : \A i \in DOMAIN got[v] : got[v][i].kind = "service" => got[v][i].from = got[v][i].n

\* A vCPU thread does not wait in poll(2) over a frame its guest could take or
\* that it could move: "a wake is redundant" (inbound.rs:303-307).
NoWaitOverFrame ==
    \A v \in VCpus : at[v] = "wait" /\ (ring[v] # <<>> \/ fwd[v] # <<>>) =>
        pipe[v] > 0 \/ (lis.pc = "pipe" /\ TargetOf[lis.c] = v)

\* Every datagram is answered in the end: the bounded wait of the yield makes
\* up for a wake that came too early.
EveryoneAnswered ==
    \A c \in Clients : \A n \in 1 .. PerClient :
        (sent[c] >= n) ~> (\E a \in answered : a[1].c = c /\ a[1].n = n)

-----------------------------------------------------------------------------
(***************************************************************************)
(* The life of the runner's vCPUs (tools/hvf-runner/src/vm.rs): the boot   *)
(* vCPU on the main thread, the others on threads started by PSCI CPU_ON,  *)
(* their run loops, the virtual timer's mask, SYSTEM_OFF, and the end of   *)
(* the process, which frees the guest's memory.                            *)
(*                                                                         *)
(* Thread 0 is the main thread; a thread's number is its vCPU's handle.    *)
(* HVF keeps an exit requested of a vCPU that is not in the guest for its  *)
(* next hv_vcpu_run.                                                       *)
(***************************************************************************)
CONSTANTS Cpus,        \* number of vCPUs
          Callers,     \* vCPUs whose guest code calls CPU_ON
          MaxThreads,  \* bound on threads started
          MayFail      \* hv_vcpu_create may fail

VARIABLES running,          \* vCPU -> VcpuInfo.running
          info,             \* vCPU -> VcpuInfo.vcpu: a thread, or NoHandle
          handle,           \* vCPU -> VCPU_HANDLES
          shutdown,
          cpu,              \* thread -> its vCPU
          vmAt,             \* thread -> where it is
          arg,              \* thread -> the target of CPU_ON, or the next vCPU to exit
          vmKick,           \* thread -> exit requested
          timer,            \* thread -> the guest's timer: off, armed or fired
          masked, pending,  \* thread -> run_vcpu's vtimer flags
          freed             \* the guest's memory is deallocated
vmVars == <<running, info, handle, shutdown, cpu, vmAt, arg, vmKick, timer, masked, pending, freed>>

Ids == 0 .. Cpus - 1
Threads == 0 .. MaxThreads
NoHandle == -1

\* new_with_config: vCPU 0 is created and marked running.
VmInit ==
      /\ running = [c \in Ids |-> c = 0]
      /\ info = [c \in Ids |-> IF c = 0 THEN 0 ELSE NoHandle]
      /\ handle = info
      /\ shutdown = FALSE /\ freed = FALSE
      /\ cpu = [t \in Threads |-> 0]
      /\ vmAt = [t \in Threads |-> IF t = 0 THEN "top" ELSE "none"]
      /\ arg = [t \in Threads |-> 0]
      /\ vmKick = [t \in Threads |-> FALSE]
      /\ timer = [t \in Threads |-> "off"]
      /\ masked = [t \in Threads |-> FALSE] /\ pending = masked

Go(t, pc) == vmAt' = [vmAt EXCEPT ![t] = pc]

\* An exit for an exception: a masked timer is unmasked when it is disabled,
\* masked by the guest or no longer asserted, as the code reads the bits.
Unmasks(t) ==
    LET enabled == timer[t] # "off"
        bit1 == FALSE               \* IMASK, which the guest never sets
        bit2 == timer[t] = "fired"  \* ISTATUS
    IN  masked[t] /\ (~enabled \/ bit2 \/ ~bit1)
Exception(t) ==
    /\ masked' = [masked EXCEPT ![t] = IF Unmasks(t) THEN FALSE ELSE @]
    /\ pending' = [pending EXCEPT ![t] = IF Unmasks(t) THEN FALSE ELSE @]

\* run_vcpu: the top of the loop, vcpu_poll(0), and hv_vcpu_run.
Top(t) ==
    /\ vmAt[t] = "top"
    /\ Go(t, IF shutdown THEN "done" ELSE "poll")
    /\ UNCHANGED <<running, info, handle, shutdown, cpu, arg, vmKick, timer, masked, pending, freed>>
Run(t) ==
    /\ vmAt[t] = "poll"
    /\ Go(t, IF vmKick[t] THEN "top" ELSE "guest")
    /\ vmKick' = [vmKick EXCEPT ![t] = FALSE]
    /\ UNCHANGED <<running, info, handle, shutdown, cpu, arg, timer, masked, pending, freed>>
VmCanceled(t) ==
      /\ vmAt[t] = "guest" /\ vmKick[t]
      /\ Go(t, "top")
      /\ vmKick' = [vmKick EXCEPT ![t] = FALSE]
      /\ UNCHANGED <<running, info, handle, shutdown, cpu, arg, timer, masked, pending, freed>>
VTimerActivated(t) ==
    /\ vmAt[t] = "guest" /\ timer[t] = "fired" /\ ~masked[t]
    /\ masked' = [masked EXCEPT ![t] = TRUE]
    /\ pending' = [pending EXCEPT ![t] = TRUE]
    /\ Go(t, "top")
    /\ UNCHANGED <<running, info, handle, shutdown, cpu, arg, vmKick, timer, freed>>

\* The cooperative yield: one bounded wait, unless the VM is going down.
VmYield(t) ==
      /\ vmAt[t] = "guest" /\ ~vmKick[t]
      /\ Exception(t)
      /\ Go(t, IF shutdown THEN "top" ELSE "wait")
      /\ UNCHANGED <<running, info, handle, shutdown, cpu, arg, vmKick, timer, freed>>
Waited(t) ==
    /\ vmAt[t] = "wait"
    /\ Go(t, "top")
    /\ UNCHANGED <<running, info, handle, shutdown, cpu, arg, vmKick, timer, masked, pending, freed>>

\* PSCI CPU_ON: the check, then the mark and the new thread.
CpuOn(t, c) ==
    /\ vmAt[t] = "guest" /\ ~vmKick[t] /\ cpu[t] \in Callers
    /\ Exception(t)
    /\ arg' = [arg EXCEPT ![t] = c]
    /\ Go(t, IF running[c] THEN "top" ELSE "spawn")
    /\ UNCHANGED <<running, info, handle, shutdown, cpu, vmKick, timer, freed>>
Spawn(t) ==
    /\ vmAt[t] = "spawn"
    /\ running' = [running EXCEPT ![arg[t]] = TRUE]
    /\ \E n \in Threads :
          /\ vmAt[n] = "none" /\ \A m \in Threads : m < n => vmAt[m] # "none"
          /\ vmAt' = [vmAt EXCEPT ![t] = "top", ![n] = "create"]
          /\ cpu' = [cpu EXCEPT ![n] = arg[t]]
    /\ UNCHANGED <<info, handle, shutdown, arg, vmKick, timer, masked, pending, freed>>
Create(t) ==
    /\ vmAt[t] = "create"
    /\ \/ handle' = [handle EXCEPT ![cpu[t]] = t] /\ Go(t, "publish")
       \/ MayFail /\ Go(t, "done") /\ UNCHANGED handle
    /\ UNCHANGED <<running, info, shutdown, cpu, arg, vmKick, timer, masked, pending, freed>>
Publish(t) ==
    /\ vmAt[t] = "publish"
    /\ info' = [info EXCEPT ![cpu[t]] = t]
    /\ Go(t, "top")
    /\ UNCHANGED <<running, handle, shutdown, cpu, arg, vmKick, timer, masked, pending, freed>>

\* PSCI SYSTEM_OFF: the flag, then an exit of every vCPU marked running.
SystemOff(t) ==
    /\ vmAt[t] = "guest" /\ ~vmKick[t]
    /\ shutdown' = TRUE
    /\ arg' = [arg EXCEPT ![t] = 0]
    /\ Go(t, "off")
    /\ UNCHANGED <<running, info, handle, cpu, vmKick, timer, masked, pending, freed>>
\* A vCPU is passed over.
ExitOneSkips(t) ==
    /\ vmAt[t] = "off" /\ arg[t] < Cpus
    /\ arg' = [arg EXCEPT ![t] = @ + 1]
    /\ UNCHANGED <<running, info, handle, shutdown, cpu, vmAt, vmKick, timer, masked, pending, freed>>

ExitOne(t) ==
    /\ vmAt[t] = "off" /\ arg[t] < Cpus
    /\ vmKick' = IF running[arg[t]] /\ info[arg[t]] # NoHandle
                 THEN [vmKick EXCEPT ![info[arg[t]]] = TRUE] ELSE vmKick
    /\ arg' = [arg EXCEPT ![t] = @ + 1]
    /\ UNCHANGED <<running, info, handle, shutdown, cpu, vmAt, timer, masked, pending, freed>>
OffDone(t) ==
    /\ vmAt[t] = "off" /\ arg[t] = Cpus
    /\ Go(t, "done")
    /\ UNCHANGED <<running, info, handle, shutdown, cpu, arg, vmKick, timer, masked, pending, freed>>

\* main returns once vCPU 0's loop has, and drops the VM.
Drop ==
    /\ vmAt[0] = "done" /\ ~freed
    /\ freed' = TRUE
    /\ UNCHANGED <<running, info, handle, shutdown, cpu, vmAt, arg, vmKick, timer, masked, pending>>

\* wake_vcpu, called by the network's threads.
WakeVcpu(c) ==
    /\ handle[c] # NoHandle /\ ~vmKick[handle[c]]
    /\ vmKick' = [vmKick EXCEPT ![handle[c]] = TRUE]
    /\ UNCHANGED <<running, info, handle, shutdown, cpu, vmAt, arg, timer, masked, pending, freed>>

\* The guest arms its timer, it fires, and the guest's idle loop disables it.
TimerStep(t) ==
    /\ vmAt[t] = "guest"
    /\ timer' = [timer EXCEPT ![t] = IF @ = "off" THEN "armed" ELSE IF @ = "armed" THEN "fired" ELSE "off"]
    /\ UNCHANGED <<running, info, handle, shutdown, cpu, vmAt, arg, vmKick, masked, pending, freed>>

Loop(t) == Top(t) \/ Run(t) \/ VmCanceled(t) \/ Waited(t) \/ Spawn(t) \/ Create(t) \/ Publish(t) \/ ExitOne(t) \/ OffDone(t)
Guest(t) == \/ VTimerActivated(t) \/ VmYield(t) \/ SystemOff(t) \/ TimerStep(t)
            \/ \E c \in Ids : CpuOn(t, c)
VmNext == \/ \E t \in Threads : Loop(t) \/ Guest(t)
          \/ \E c \in Ids : WakeVcpu(c)
          \/ Drop
\* A thread that can go on does; HVF honours a requested exit.
VmSpec == VmInit /\ [][VmNext]_vmVars /\ \A t \in Threads : WF_vmVars(Loop(t))

-----------------------------------------------------------------------------
\* Once SYSTEM_OFF has gone over the vCPUs, none is left in the guest without
\* an exit requested, whatever was being started meanwhile (handle_hvc stores
\* the flag before it looks at running and vcpu, which a starting thread
\* publishes last).
NobodyMissesOff ==
    shutdown /\ (\A t \in Threads : vmAt[t] # "off") => \A t \in Threads : vmAt[t] = "guest" => vmKick[t]

\* A vCPU has one thread (CPU_ON answers ALREADY_ON).
OneThreadPerVcpu ==
    \A c \in Ids : Cardinality({t \in Threads : cpu[t] = c /\ vmAt[t] # "none"}) <= 1

\* A timer that has fired is injected or will be reported again: the mask
\* never swallows it.
TimerNotSwallowed == \A t \in Threads : timer[t] = "fired" => pending[t] \/ ~masked[t]

\* "nothing calls `drop` while a vCPU is running" (vm.rs:33-35).
MemoryOutlivesVcpus == freed => \A t \in Threads : vmAt[t] \in {"none", "done"}

\* After SYSTEM_OFF every thread ends.
OffEnds == shutdown ~> (\A t \in Threads : vmAt[t] \in {"none", "done"})
=============================================================================
