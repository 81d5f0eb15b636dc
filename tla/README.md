# TLA+ models of the tivOS network stack

These modules model the kernel's IPv4/UDP/ARP stack (`src/src/kernel/networking/stack/`),
the helper task that drives it (`src/src/kernel/entry/kernel_helper.c`), the
scheduler that runs the tasks (`src/src/kernel/multitasking/schedule.c`), the
process listing of `/proc` and the signal syscalls
(`src/src/kernel/syscalls/linux/syscalls_sig.c`).
Each module is written from the C source. The map in `PROJECT.json` gives, for every
definition that models code, the file and lines it translates.

## The system

User tasks call the socket handlers of `udp_socket.c`: bind, connect, sendto,
recvfrom, duplicate and close. Each socket has a spinlock, `LOCK_SOCKET`. The UDP
connections of the NIC are a list under `LOCK_LL_UDP_CONNS`. Local ports come from
a bitmap (`netports.c`).

`sendto` builds a frame and calls `netIPv4Send` (`ipv4.c`), which picks the next
hop and then spins, yielding, on `netArpTranslate` (`arp.c`) until the ARP table
has the MAC. A miss queues a pending request in the net queue (`netqueue.c`) and
broadcasts it. A re-broadcast happens only after 500 ticks.

The NIC driver puts received frames in the ring `netQueue`. The kernel helper task
runs two things in a loop:
- `helperNet` drains the ring through `netEthHandle` → `netIPv4Handle` →
  `netUdpHandle` / `netArpHandle`.
- `helperNetQueue` walks the net queue.

`netUdpHandle` checks a datagram against its connection in one lock section and
appends it in a second.

The scheduler (`schedule.c`) is preemptive and round-robin. The timer interrupt,
and every `handControl` yield, runs `schedule()`. It walks the task list from
`currentTask->next` to the first task that is READY and not sleeping, wrapping to
`firstTask`. After three wraps it falls back to `dummyTask`. It delivers pending
signals before switching. A dying task is handed to the helper through the
one-slot `reaperTask`. `helperReaper` kills it if it is only SIGKILLED, frees it
once it is DEAD and unlinks it from the list.

A task sets its blocked signals with `rt_sigprocmask` and the action of a
signal with `rt_sigaction`. Both act on the calling task only. Both strip
SIGKILL and SIGSTOP from every mask they store, with `& ~(SIGKILL | SIGSTOP)`.

## Modules

| Module | Models | State | Actions |
|---|---|---|---|
| `NetPorts` | `netports.c`, `netUdpStoreInit` | `ports` (the bitmap as a set), `lastEphPort` (uint16_t cursor), `genAsserted` | `netPortsGen`, `netPortsGenExhausted`, `netPortsMarkSafe`, `netPortsFree` |
| `UdpStack` | `udp_socket.c`, `udp.c` (lookup and buffering) | descriptors, sockets (`timesOpened`, `LOCK_SOCKET`, `connected`, `conn`), each connection's buffers and `totalData`, the ports (through `INSTANCE NetPorts`), a pc per task, the helper's section | one action per lock section of each handler; `netUdpHandle` and `netUdpHandleAppend` for the helper's two sections; `SignalWaiter` |
| `Arp` | `arp.c`, `netIPv4Send`, `netIPv4NeedsRouting`, the ARP items of `netqueue.c` | `table`, `queue` (pending items with an expired flag), requests and replies in flight, a pc per task, the helper's section | `netIPv4Send`, `netArpTableLookup`, `netArpTranslateQueue`, `netArpTranslateRequest`, `netArpHandle`, `netArpHandleAdd`; link actions `HostAnswers`, `LoseRequest`, `LoseReply`, `TimerExpires` |
| `Checksum` | `netIPv4Checksum` | a header | `WordSum` and `ChecksumFold` are the loops. `RefChecksum` is RFC 1071's one's-complement addition, a `FoldLeft` over the words |
| `NetRx` | `helperNet`, `netEthHandle`, `netIPv4Handle`, `netUdpHandle`'s length checks, `netArpHandle`'s checks and its answer to requests | the ring and its two indices; the histories `arrived` and `handled` | `netQueuePush` (the driver), `helperNet` (one turn of its loop) |
| `Tasks` | `schedule()`, `helperReaper` with the `handControl` of `kernelHelpEntry` | `currentTask`, each task's state and `sleepUntil`, `timerTicks`, the list `taskList`, `reaperTask`; the history `reaped` | `schedule`, `helperReaper`; environment actions from task.c (outside the sources): `TimerTick`, `TaskCreate`, `TaskSleep`, `TaskBlock`, `TaskWake`, `TaskExit`, `TaskSigKill`. The walk is the recursive `Scan`, checked against `RoundRobinRef` |
| `ProcFs` | `procGetdents64` over the task list of `Tasks` | `dirPtr` (`fd->pointer`), `listed` (the tgids returned), `ordered` (each call's tgids ascend above those listed before), `lpc`; the history `survivors` | `procOpenRoot` (the VFS open), `procGetdents64` (one call, under the read lock of `TASK_LL_MODIFY`); every `Tasks` step through `TaskStep` |
| `RxFifo` | what the receive ring promises (abstract) | `q`, the frames queued; `out`, the frames taken | `Put`, `Take`; `WF` on `Take`. `NetRx` maps `q` to the slots from `netQueueRead` up to `netQueueWrite` and `out` to the frames handled, and checks `RxFifo`'s specification as a property |
| `UdpQueue` | what a UDP connection promises (abstract, spec.md 4.7) | `open`, `q` (the datagrams buffered, oldest first) | `Create`, `Enqueue`, `Dequeue`, `Destroy`. `UdpStack` maps `open` to `conn[s] # NoConn` and `q` to `conn[s].buffers`, one instance per socket, and checks `[][QNext]_queueVars` of each as an action property (`ConnBuffersFifo`) |
| `Signals` | `syscallRtSigaction`, `syscallRtSigprocmask` | `sigBlockList`, `sigTable` (the task's `signals[]`: handler and `sa_mask` per slot), the last `oact`/`oset` copied out, the return value | `syscallRtSigaction`, `syscallRtSigprocmask`, each one step with its arguments chosen by `\E` |
| `MCUdpStack`, `MCArp`, `MCNetRx`, `MCTasks`, `MCSignals` | model values, small address and port sets, frame variants, symmetry and view | | |

How the modules correspond to the code:

- **Lock sections are steps.** A step of a task is one lock section of a handler,
  from acquire to release. A handler with two sections is two actions joined by
  the task's `pc`; its arguments are chosen with `\E` in the first action and
  saved in `arg`.
  - `bind` and `connect` are split at the call of `netConnectionUdpOpen`.
  - `recvfrom` is split at `pollIndependentAwait`. The poll subsystem is not in the
    sources, so a waiter may wake at any time. That is a superset of the real
    wakeups.
- **Early returns are disjuncts.** Every early return is a disjunct with the
  code's guard, and its lock effects are kept. For example, bind's `EINVAL` keeps
  `LOCK_SOCKET` set, and recvfrom's loop clears it.
- **`netUdpHandle` has two views.**
  - In `UdpStack`, an inbound datagram is a record with source address and port,
    destination port, length and a `wellFormed` flag.
  - In `NetRx`, a frame is a record of the header fields the checks read:
    `size`, Ethernet destination and type, version, IHL, fragment flag, total
    length, destination class, TTL, checksum validity, protocol and UDP length.
    `MCNetRx` builds a 10-byte datagram, the same datagram padded to the
    60-byte minimum, an ARP reply, and variants that each change one field.
    ARP frames add the packet's format, whether its sender MAC is the Ethernet
    source, the opcode, and the class of the sender and target addresses.
- **Sizes are scaled down.**
  - `NetPorts` models a port space of `NETPORTS_AVAILABLE_PORTS` ports in place
    of 65536; the uint16_t wrap becomes `% NETPORTS_AVAILABLE_PORTS`.
  - `Checksum` models words of `WORD_BITS` bits in place of 16.
  - The `UDP_MAX_TOTAL_DATA` ceiling is a constant.
  - `Signals` keeps the 30 low bits of a 64-bit `sigset_t` (TLC's integers
    are 32-bit). `&`, `|` and `~` act bit by bit, so those bits are exact; C's
    `~x` is `2^30 - 1 - x`. Bit `s-1` stands for signal `s`, as in the Linux
    ABI these syscalls implement.

## Runs

Passing runs:

| Run | What it checks |
|---|---|
| NetPorts | Over 16 ports with the ephemeral range from 12 and 2 seeds, every issued port is the next free ephemeral port from the cursor, across the wrap and the reseed (`GenIssuesNextFreeEphemeral`). The assert fires only when the range is full (`GenAssertsOnlyWhenExhausted`). |
| UdpPorts | Two tasks and two sockets, with any mix of calls. The bitmap is exactly the reserved block, plus the ports of live connections, plus ports claimed by a bind in progress. Local ports are distinct (`PortsConsistent`). |
| UdpBuffers | Up to 3 inbound datagrams against recvfrom's passes and loop turns. `totalData` equals the bytes queued (`BufferAccounting`) and never exceeds the ceiling (`BufferCeiling`). Every connection implements the FIFO queue of `UdpQueue` (`ConnBuffersFifo`): the helper only appends, recvfrom only takes the oldest, bind, connect and sendto keep what is buffered, and only the last close drops it. That `LinkedListAllocate` appends at the tail and `LinkedListSearchFirst` returns the head is linked_list.c's behaviour, outside the sources, and is assumed. What the property checks is the reuse of the connection by `netConnectionUdpOpen` (udp_socket.c:14) and the dequeue end recvfrom uses. |
| ArpTable | Two tasks, two destinations (one on-link, one routed to the gateway), and replies from hosts that share a MAC, lost or duplicated. The table stays injective in IP and MAC (`TableInjective`). |
| ArpLiveness | Under the fairness below, each `netIPv4Send` finishes (`SendCompletes`). |
| Checksum | All 4096 headers of three 4-bit words. The checksum equals the reference, validates a filled header, and detects every single-byte change. |
| Tasks | Two user tasks and the helper in one ring, and a third task created later. Tasks sleep, block, wake, exit and are sent SIGKILL while the clock runs to 2 ticks, and a reader lists `/proc` one entry per call. Every switch goes to the first runnable task after the running one (`SwitchesRoundRobin`, against a reference by ring distance). A task that stays runnable runs again and again (`NoStarvation`). Every task handed to the reaper is unlinked (`HandedTaskReaped`), exactly once and only when DEAD (`ReapedOnceAndGone`). The listing never repeats a process and ends up naming every process that lived through it (`ListingComplete`). A reader that keeps calling getdents64 gets 0 in the end (`ListingTerminates`). |
| NetRxPipeline | Four frames through a 3-slot ring, so both indices wrap. The ring implements the abstract FIFO `RxFifo` of 2 frames (`RingImplementsFifo`): each frame is handled once and in order, and every queued frame is handled. Only valid headers reach UDP, only unspoofed, well-formed ARP replies from a non-null address reach the ARP table, and only requests for our address are answered (`RxDeliversOnlyValid`). |

Violation runs (the traces show real defects; see `findings` in `PROJECT.json`).
Further defects met while modelling are listed as hazards with a note rather than
as runs:
- `sendto` reading `finalAddr` uninitialised (udp_socket.c:156);
- `recvfrom` writing the sender address over family and port (udp_socket.c:219).
  `RecvfromReportsSender` in `UdpStack` states the expectation, and no run checks it;
- `bind` on a socket that already has a connection returning EINVAL with
  `LOCK_SOCKET` held (udp_socket.c:102). `SockLockHeldByCaller` in `UdpStack`
  states the expectation; TLC violates it with one task binding twice, and no
  run checks it;
- `rt_sigaction` accepting signal 0 (syscalls_sig.c:13);
- a read of an open `/proc/<pid>` file asserting that the task still exists,
  which fails once it has been reaped (proc_controller.c:92);
- `helperReaper` freeing the wrong node of the interrupted-syscall list (kernel_helper.c:54);
- poll never reporting a zero-length datagram (udp_socket.c:248);
- the checksum reading `ihl*4` bytes past a short frame (ipv4.c:74);
- a pending ARP item orphaned by a translate between `netArpHandle`'s two sections
  (arp.c:137);
- `sendto`'s `finalLen` wrapping for a length near `SIZE_MAX`, which passes the MTU
  check (udp_socket.c:165);
- `reportKey` changing from the socket to the connection once one exists, so a
  poller keyed on the socket misses the helper's ring on the connection
  (udp_socket.c:260);
- `procEachOpen` accepting the pid of a task that does not exist
  (proc_controller.c:266), which the per-pid reads then assert on.

| Run | Defect shown |
|---|---|
| UdpDoubleConnect | recvfrom's loop releases another task's lock, and two connects succeed. |
| UdpHelperFault | A close between the sections makes the helper dereference NULL. |
| NetRxPadding | An Ethernet-padded short datagram is dropped. |
| SigKillBlockable | `~(SIGKILL \| SIGSTOP)` clears the bits of signals 1, 2, 4 and 5, so one call gets SIGKILL's bit into a stored mask (`KillStopNeverBlocked`). |

Every property of a passing run has a mutant in `PROJECT.json`. A mutant is a
plausible bug in a mapped definition, and TLC finds the property violated with
the mutant in place. Examples:
- a cursor without the reseed;
- a close that keeps the port;
- a dequeue that forgets `totalData`;
- a recvfrom that takes the newest datagram instead of the oldest;
- a retry that ignores the timer;
- a fold that folds once;
- a ring index with the wrong modulus;
- a scheduler walk that starts at `firstTask` or gives up at the first wrap;
- a reaper that leaves `reaperTask` set or never kills a SIGKILLED task;
- IPv4 validation without the TTL test.

## Bounds

Each bound makes the interesting case happen:

- **Ports.** The port space is small enough that the ephemeral range fills, so
  exhaustion and the cursor's wrap are both reached.
- **UDP.** Two tasks and two sockets are enough for every two-actor interleaving
  of a socket's lock sections. The two remote ports 6000 and 6256 differ by 256,
  so the uint8_t truncation shows. Lengths 1 and 2 and a scaled ceiling let the
  ceiling be reached.
- **ARP.** Two destinations cover both routing branches. Hosts answer with a
  shared MAC in `ArpTable`, so collisions in the table happen, and with distinct
  MACs in `ArpLiveness`.
- **Receive ring.** A 3-slot ring with 4 arrivals wraps both indices.
- **Tasks.** Two user tasks and the helper give a ring in which the helper is
  neither first nor last, so a walk wraps past the end. The created task makes
  a ring of four, and it joins while a listing is under way. A sleep of one
  tick within a 2-tick clock lets a sleeper be skipped and later picked. One
  directory entry per `getdents64` call makes a listing resume from
  `fd->pointer` at every task. The reaper slot is taken by exit and by SIGKILL,
  against blocked, sleeping and running neighbours. The helper is always READY,
  so the dummy fallback is never reached. This is a property of the code: the
  walk's wrap bound matters only for whether a task before the current one is
  found.
- **Symmetry and view.** `UdpPorts` and `UdpBuffers` use symmetry over tasks, descriptors and
  sockets. They also use a view without the history variables, which no action
  reads. `ConnBuffersFifo` reads only `conn`, which the view keeps, and
  quantifies over every socket, so the symmetry preserves it. Its instance
  enumerates only the buffers the helper can build (each host, remote port and
  length), not every record of the type.

## Fairness

`Tasks` assumes:

- **WF on `schedule` and on `TimerTick`.** The PIT keeps interrupting and ticking.
- **SF on `helperReaper`.** The helper is switched to again and again, and a
  task that is switched to infinitely often runs its loop turn.

No fairness is given to the environment's actions.

`ListingTerminates` in `ProcFs` takes weak fairness of `procGetdents64` as
its hypothesis rather than as part of `ProcFairSpec`: the reader keeps calling
getdents64 until it returns 0, and `NoStarvation` gives it the CPU to do so.
The other properties of the Tasks run hold without any fairness for the reader.

`NetRxPipeline` assumes WF on `helperNet`. The helper task is always READY
and `schedule()` reaches every task that stays runnable (`NoStarvation` in
`Tasks`), so the helper keeps turning its loop, and every turn calls
`helperNet`. The driver gets no fairness: it may stop receiving.

`ArpLiveness` assumes:

- **WF on each task's steps and on the helper's second section.** The scheduler
  is preemptive round-robin over ready tasks, and the helper task is always
  ready.
- **WF on the retry timer.** `timerTicks` keeps advancing.
- **SF on a host answering a request, and on the helper handling a given
  reply.** The link may lose any frame, and the model keeps loss possible
  forever. A request that is re-broadcast every 500 ticks is assumed to be
  delivered eventually, which is the usual fair-loss assumption.

## Not modelled

- In `schedule.c`, `signalsPendingHandle` (signal delivery lives outside the
  sources) and the TSS, MSR, FPU and register switch are not modelled. The switch
  changes no state the models read.
- `taskListDestroy`, `taskKill` and the rest of task.c are outside the sources.
  Tasks takes the unlink as one step.
- Signal delivery, which reads `sigBlockList` and `signals[]`, is outside the
  sources, so `Signals` checks what the syscalls store, one task at a time.
  `sa_flags` and `sa_restorer` are copied with the handler and are folded into
  its value. `syscallRegSig` only registers the handlers.
- `proc_controller.c`: only the process listing is modelled.
  - The read handlers format text from task state.
  - `procEachOpen` parses a path.
  - `procSetup` and `procMount` register fakefs entries.
  - The static entries `fakefsGetDents64` returns before the processes are
    fakefs code, which is not in the sources.
  - `procEachDuplicate` and `procEachClose` count the opens of a per-pid file
    under a lock.
- `helperReaper`'s frees of stacks, children, info and the interrupted-syscall
  list are abstracted to the unlink.
- `netEthSend` only emits frames; the answer to an ARP request is the verdict
  `arp:answered` in `NetRx`.
- `helperNetQueue` calls callbacks that are always 0.
- `netSocketUdpInternalPoll` and `netSocketUdpReportKey` read state only.
- The NIC driver (the ring's producer) and the poll subsystem are outside the
  sources. The producer is modelled from the spec and keeps one slot free, and a
  waiter may wake at any time. The lost-wakeup and full-ring hazards are recorded
  without a property.

## Plan for later sittings

1. Compose `NetRx` with `UdpStack`: frames that pass the checks become `UdpStack`'s
   inbound datagrams, so the padding drop and the connection lookup can be checked
   together.
2. Extend `UdpQueue` to a whole socket, with bind/connect/close as atomic
   operations, and map `pc` and `arg` onto it. The connection's buffers already
   refine `UdpQueue` (`ConnBuffersFifo`).
3. Add a recvfrom liveness property ("a waiting reader with data queued returns")
   under a wakeup model, once the poll interface is settled from the spec.
4. Add ARP retry coalescing with a bounded tick counter in place of the expired
   flag. This checks spec §8's "one retransmission within 500 ticks".
5. Model the open count of per-pid `/proc` files (`procEachOpen`,
   `procEachDuplicate`, `procEachClose`) against the descriptors that share them.
