------------------------------ MODULE UdpStack ------------------------------
(***************************************************************************)
(* The UDP layer of one NIC: the socket handlers of                        *)
(* src/kernel/networking/stack/udp_socket.c called by user tasks, the      *)
(* inbound handler netUdpHandle (udp.c) run by the kernel helper task, the *)
(* connection store they share and its port bitmap (NetPorts).             *)
(*                                                                         *)
(* Each spinlock section of the code is one atomic step; a step boundary   *)
(* sits wherever the code releases a lock and reacquires it later, or      *)
(* waits.  LOCK_SOCKET is the flag sockLock[s]: like the code's spinlock   *)
(* it records only "locked", so a release by a task that does not hold it  *)
(* clears it.  LOCK_LL_UDP_CONNS is never held across a step and is not a  *)
(* variable.  A connection is identified with the socket that owns it      *)
(* (a socket has at most one, UdpSocket.conn).                             *)
(***************************************************************************)
EXTENDS Integers, Sequences, FiniteSets
LOCAL INSTANCE SequencesExt

CONSTANTS
  Tasks,            \* user tasks making socket calls
  FDs,              \* descriptor slots shared by the tasks
  Socks,            \* UdpSocket objects netSocketUdpInit may allocate
  Hosts,            \* remote IPv4 addresses (4-tuples of bytes)
  UninitAddrs,      \* contents sendto's uninitialised finalAddr[] may have
  RemotePorts,      \* remote UDP ports
  BindPorts,        \* ports passed to bind()
  DstPorts,         \* destination ports of inbound datagrams
  Lens,             \* payload sizes
  UDP_MAX_TOTAL_DATA,
  MAX_UDP_PAYLOAD,  \* mtu - NET_UDP_CARRY_BARE - sizeof(udpHeader)
  MaxInbound,       \* datagrams the helper processes in a behaviour
  NETPORTS_AVAILABLE_PORTS, NETPORTS_EPH_START, EPH_SEED_RANGE,
  NoSock, NoConn, None   \* model values for absent descriptor targets,
                         \* connections and results

VARIABLES
  fdSock,       \* descriptor -> socket (OpenFile.dir), or NoSock
  sockState,    \* "unused" | "open" | "freed"
  timesOpened,  \* UdpSocket.timesOpened
  sockLock,     \* UdpSocket.LOCK_SOCKET is set
  connected,    \* UdpSocket.connected
  conn,         \* UdpSocket.conn: a connection record or NoConn
  ports, lastEphPort,
  pc,           \* per task: the handler step it is at
  arg,          \* per task: the arguments of its current call
  sigPending,   \* per task: a signal is pending
  hpc,          \* helper: "idle" or between the two sections of netUdpHandle
  hdg,          \* helper: the datagram it is handling
  nIn,          \* datagrams the helper has taken from the NIC
  panic,        \* the kernel dereferenced a NULL connection
  connectOk,    \* per socket: connect() calls that returned 0
  lastSent,     \* the last datagram sendto handed to netIPv4Send
  lastRecv      \* the last datagram recvfrom returned, with what it reported

vars == <<fdSock, sockState, timesOpened, sockLock, connected, conn, ports,
          lastEphPort, pc, arg, sigPending, hpc, hdg, nIn, panic, connectOk,
          lastSent, lastRecv>>

\* The state without the history variables, which no action reads.
coreVars == <<fdSock, sockState, timesOpened, sockLock, connected, conn, ports,
              lastEphPort, pc, arg, sigPending, hpc, hdg, nIn, panic>>

NP == INSTANCE NetPorts WITH genAsserted <- FALSE

AddrNull == <<0, 0, 0, 0>>
IPs == Hosts \cup {AddrNull}

\* A connection as netConnectionUdpOpen allocates it (zeroed memory).
NewConn == [ip |-> AddrNull, localPort |-> 0, remotePort |-> 0,
            totalData |-> 0, buffers |-> <<>>]

ConnSocks == {s \in Socks : sockState[s] = "open" /\ conn[s] # NoConn}

-----------------------------------------------------------------------------
(* Connection store (udp.c, udp_socket.c)                                  *)

\* netUdpConnSearchCb: local port equal, remote port wildcard or equal.
netUdpConnSearchCb(c, dstPort, srcPort) ==
  /\ c.localPort = dstPort
  /\ c.remotePort = 0 \/ c.remotePort = srcPort

Matching(dstPort, srcPort) ==
  {s \in ConnSocks : netUdpConnSearchCb(conn[s], dstPort, srcPort)}

\* The saved arguments of a call suspended between two steps.
CallArgs ==
  [fd: FDs, lport: BindPorts, ip: IPs, rport: RemotePorts \cup {0},
   wantAddr: BOOLEAN]
NoArgs == [fd |-> CHOOSE f \in FDs : TRUE, lport |-> 0, ip |-> AddrNull,
           rport |-> 0, wantAddr |-> FALSE]

\* netConnectionUdpOpen(sock, localPort, addr, remotePort): allocate the
\* connection if the socket has none, pin addr if given, give it localPort,
\* or an ephemeral one, if it has no local port yet, set remotePort if
\* nonzero.  Runs under LOCK_LL_UDP_CONNS, the port bitmap under its own lock.
netConnectionUdpOpen(s, lp, addr, rp) ==
  LET c0 == IF conn[s] = NoConn THEN NewConn ELSE conn[s]
      c1 == IF addr = None THEN c0 ELSE [c0 EXCEPT !.ip = addr]
      c2 == IF rp = 0 THEN c1 ELSE [c1 EXCEPT !.remotePort = rp]
  IN  IF c0.localPort = 0 /\ lp = 0
      THEN \E p \in NP!PortSpace :
             /\ NP!netPortsGen(p)
             /\ conn' = [conn EXCEPT ![s] = [c2 EXCEPT !.localPort = p]]
      ELSE /\ conn' = [conn EXCEPT ![s] =
                 [c2 EXCEPT !.localPort = IF c0.localPort # 0 THEN @ ELSE lp]]
           /\ UNCHANGED <<ports, lastEphPort>>

\* netConnectionUdpClose: drop the buffered datagrams, remove the
\* connection from the store, free its local port.
netConnectionUdpCloseKeepPort(s) ==
  /\ conn' = [conn EXCEPT ![s] = NoConn]
  /\ UNCHANGED <<ports, lastEphPort>>
netConnectionUdpClose(s) ==
  /\ conn' = [conn EXCEPT ![s] = NoConn]
  /\ NP!netPortsFree(conn[s].localPort)

-----------------------------------------------------------------------------
(* Socket handlers (udp_socket.c).  A call starts with its first lock     *)
(* section; it can only take the step once LOCK_SOCKET is free, so a task *)
(* calling on a socket whose lock is never released never gets past it.   *)

OpenFDs == {f \in FDs : fdSock[f] # NoSock}

\* A call of task u in progress on descriptor f.
BusyBy(f, u) == pc[u] # "idle" /\ arg[u].fd = f

Idle(t) == pc[t] = "idle" /\ ~panic

Return(t) ==
  /\ pc' = [pc EXCEPT ![t] = "idle"]
  /\ arg' = [arg EXCEPT ![t] = None]

Suspend(t, at, a) ==
  /\ pc' = [pc EXCEPT ![t] = at]
  /\ arg' = [arg EXCEPT ![t] = a]

\* netSocketUdpInit on a fresh descriptor.
netSocketUdpInit(t, f) ==
  /\ Idle(t)
  /\ fdSock[f] = NoSock
  /\ \E s \in Socks :
       /\ sockState[s] = "unused"
       /\ fdSock' = [fdSock EXCEPT ![f] = s]
       /\ sockState' = [sockState EXCEPT ![s] = "open"]
       /\ timesOpened' = [timesOpened EXCEPT ![s] = 1]
  /\ UNCHANGED <<sockLock, connected, conn, ports, lastEphPort, pc, arg,
                 sigPending, hpc, hdg, nIn, panic, connectOk, lastSent, lastRecv>>

\* netSocketUdpDuplicate: a free descriptor (the VFS's orphan) shares the
\* socket.
netSocketUdpDuplicate(t, f) ==
  LET s == fdSock[f] IN
  /\ Idle(t) /\ ~sockLock[s]
  /\ \E f2 \in FDs :
       /\ fdSock[f2] = NoSock
       /\ timesOpened' = [timesOpened EXCEPT ![s] = @ + 1]
       /\ fdSock' = [fdSock EXCEPT ![f2] = s]
  /\ UNCHANGED <<sockState, sockLock, connected, conn, ports, lastEphPort, pc,
                 arg, sigPending, hpc, hdg, nIn, panic, connectOk, lastSent,
                 lastRecv>>

\* netSocketUdpClose forgetting to decrement timesOpened.
netSocketUdpCloseNoDec(t, f) ==
  LET s == fdSock[f] IN
  /\ Idle(t) /\ ~sockLock[s]
  /\ ~\E u \in Tasks : BusyBy(f, u)
  /\ fdSock' = [fdSock EXCEPT ![f] = NoSock]
  /\ IF timesOpened[s] = 1
     THEN /\ sockState' = [sockState EXCEPT ![s] = "freed"]
          /\ IF conn[s] # NoConn THEN netConnectionUdpClose(s)
                                 ELSE UNCHANGED <<conn, ports, lastEphPort>>
     ELSE UNCHANGED <<sockState, conn, ports, lastEphPort>>
  /\ UNCHANGED <<timesOpened, sockLock, connected, pc, arg, sigPending, hpc, hdg, nIn,
                 panic, connectOk, lastSent, lastRecv>>

\* netSocketUdpClose: the last close tears the connection down and frees
\* the socket, its lock with it.  The VFS keeps a descriptor alive while
\* another call on it is in progress.
netSocketUdpClose(t, f) ==
  LET s == fdSock[f] IN
  /\ Idle(t) /\ ~sockLock[s]
  /\ ~\E u \in Tasks : BusyBy(f, u)
  /\ fdSock' = [fdSock EXCEPT ![f] = NoSock]
  /\ timesOpened' = [timesOpened EXCEPT ![s] = @ - 1]
  /\ IF timesOpened[s] = 1
     THEN /\ sockState' = [sockState EXCEPT ![s] = "freed"]
          /\ IF conn[s] # NoConn THEN netConnectionUdpClose(s)
                                 ELSE UNCHANGED <<conn, ports, lastEphPort>>
     ELSE UNCHANGED <<sockState, conn, ports, lastEphPort>>
  /\ UNCHANGED <<sockLock, connected, pc, arg, sigPending, hpc, hdg, nIn,
                 panic, connectOk, lastSent, lastRecv>>

\* netSocketUdpBind up to the call of netConnectionUdpOpen.  The EINVAL
\* return leaves LOCK_SOCKET held.
netSocketUdpBind(t, f, lp) ==
  LET s == fdSock[f] IN
  /\ Idle(t) /\ ~sockLock[s]
  /\ \/ /\ conn[s] # NoConn                                  \* EINVAL
        /\ sockLock' = [sockLock EXCEPT ![s] = TRUE]
        /\ UNCHANGED <<ports, lastEphPort, pc, arg>>
     \/ /\ conn[s] = NoConn /\ lp # 0
        /\ NP!netPortsMarkSafe(lp, FALSE)                   \* EADDRINUSE
        /\ UNCHANGED <<sockLock, pc, arg>>
     \/ /\ conn[s] = NoConn
        /\ IF lp # 0 THEN NP!netPortsMarkSafe(lp, TRUE)
                     ELSE UNCHANGED <<ports, lastEphPort>>
        /\ sockLock' = [sockLock EXCEPT ![s] = TRUE]
        /\ Suspend(t, "bindOpen", [NoArgs EXCEPT !.fd = f, !.lport = lp])
  /\ UNCHANGED <<fdSock, sockState, timesOpened, connected, conn, sigPending,
                 hpc, hdg, nIn, panic, connectOk, lastSent, lastRecv>>

\* netSocketUdpBind from netConnectionUdpOpen to its return.
netSocketUdpBindOpen(t) ==
  LET s == fdSock[arg[t].fd] IN
  /\ pc[t] = "bindOpen"
  /\ netConnectionUdpOpen(s, arg[t].lport, None, 0)
  /\ sockLock' = [sockLock EXCEPT ![s] = FALSE]
  /\ Return(t)
  /\ UNCHANGED <<fdSock, sockState, timesOpened, connected, sigPending, hpc,
                 hdg, nIn, panic, connectOk, lastSent, lastRecv>>

\* netSocketUdpConnect up to netConnectionUdpOpen.
netSocketUdpConnect(t, f, ip, rp) ==
  LET s == fdSock[f] IN
  /\ Idle(t) /\ ~sockLock[s]
  /\ IF connected[s]
     THEN UNCHANGED <<sockLock, pc, arg>>                    \* EISCONN
     ELSE /\ sockLock' = [sockLock EXCEPT ![s] = TRUE]
          /\ Suspend(t, "connectOpen",
                     [NoArgs EXCEPT !.fd = f, !.ip = ip, !.rport = rp])
  /\ UNCHANGED <<fdSock, sockState, timesOpened, connected, conn, ports,
                 lastEphPort, sigPending, hpc, hdg, nIn, panic, connectOk,
                 lastSent, lastRecv>>

\* netSocketUdpConnect from netConnectionUdpOpen to its return.
netSocketUdpConnectOpen(t) ==
  LET s == fdSock[arg[t].fd] IN
  /\ pc[t] = "connectOpen"
  /\ netConnectionUdpOpen(s, 0, arg[t].ip, arg[t].rport)
  /\ connected' = [connected EXCEPT ![s] = TRUE]
  /\ connectOk' = [connectOk EXCEPT ![s] = @ + 1]
  /\ sockLock' = [sockLock EXCEPT ![s] = FALSE]
  /\ Return(t)
  /\ UNCHANGED <<fdSock, sockState, timesOpened, sigPending, hpc, hdg, nIn,
                 panic, lastSent, lastRecv>>

\* The address recvfrom writes to userspace for a buffered datagram b: the
\* sockaddr_in_linux gets sin_family 2 and sin_port = htons(b.remotePort),
\* then memcpy(&target, b.ip, 4) overwrites sin_family and sin_port with
\* the four address bytes; sin_addr keeps the zeroes of the initialiser.
ReportedAddr(b) ==
  [family |-> b.ip[1] + 256 * b.ip[2],
   port   |-> 256 * b.ip[3] + b.ip[4],
   addr   |-> AddrNull]

\* Dequeue the oldest datagram of s's connection (LinkedListUnregister of
\* the first buffer, totalData -= len) and record what the call returns.
DequeueFirstKeepTotal(s, wantAddr) ==
  LET b == Head(conn[s].buffers) IN
  /\ conn' = [conn EXCEPT ![s].buffers = Tail(@)]
  /\ lastRecv' = [src |-> [family |-> 2, port |-> b.srcPort, addr |-> b.ip],
                  reported |-> IF wantAddr THEN ReportedAddr(b) ELSE None]
\* Dequeue the newest datagram instead.
DequeueLast(s, wantAddr) ==
  LET b == conn[s].buffers[Len(conn[s].buffers)] IN
  /\ conn' = [conn EXCEPT ![s].buffers = SubSeq(@, 1, Len(@) - 1),
                          ![s].totalData = @ - b.len]
  /\ lastRecv' = [src |-> [family |-> 2, port |-> b.srcPort, addr |-> b.ip],
                  reported |-> IF wantAddr THEN ReportedAddr(b) ELSE None]
DequeueFirst(s, wantAddr) ==
  LET b == Head(conn[s].buffers) IN
  /\ conn' = [conn EXCEPT ![s].buffers = Tail(@),
                          ![s].totalData = @ - b.len]
  /\ lastRecv' = [src |-> [family |-> 2, port |-> b.srcPort, addr |-> b.ip],
                  reported |-> IF wantAddr THEN ReportedAddr(b) ELSE None]

\* netSocketUdpRecvfrom up to the first wait.  The signal test sees no
\* signal here: a pending signal is delivered by the scheduler before the
\* task runs (schedule.c), so only one raised during a wait is seen.
netSocketUdpRecvfrom(t, f, nonblock, wantAddr) ==
  LET s == fdSock[f] IN
  /\ Idle(t) /\ ~sockLock[s]
  /\ \/ /\ conn[s] = NoConn                                  \* EINVAL
        /\ UNCHANGED <<conn, lastRecv, pc, arg>>
     \/ /\ conn[s] # NoConn /\ conn[s].buffers # <<>>
        /\ DequeueFirst(s, wantAddr)
        /\ UNCHANGED <<pc, arg>>
     \/ /\ conn[s] # NoConn /\ conn[s].buffers = <<>>
        /\ IF nonblock                                       \* EWOULDBLOCK
           THEN UNCHANGED <<pc, arg>>
           ELSE Suspend(t, "recvWait",                        \* pollIndependentAwait
                        [NoArgs EXCEPT !.fd = f, !.wantAddr = wantAddr])
        /\ UNCHANGED <<conn, lastRecv>>
  /\ UNCHANGED <<fdSock, sockState, timesOpened, sockLock, connected, ports,
                 lastEphPort, sigPending, hpc, hdg, nIn, panic, connectOk,
                 lastSent>>

\* A later turn of the recvfrom loop, after pollIndependentAwait returned
\* (the poll subsystem is not modelled: a wakeup may come at any time).  The
\* loop takes only LOCK_LL_UDP_CONNS, yet releases LOCK_SOCKET on its way
\* out, which it no longer holds.
netSocketUdpRecvfromLoop(t) ==
  LET s == fdSock[arg[t].fd] IN
  /\ pc[t] = "recvWait"
  /\ sockLock' = [sockLock EXCEPT ![s] = FALSE]
  /\ \/ /\ conn[s].buffers # <<>>
        /\ DequeueFirst(s, arg[t].wantAddr)
        /\ Return(t)
        /\ sigPending' = [sigPending EXCEPT ![t] = FALSE]
     \/ /\ conn[s].buffers = <<>>
        /\ IF sigPending[t]                                  \* EINTR
           THEN /\ Return(t)
                /\ sigPending' = [sigPending EXCEPT ![t] = FALSE]
           ELSE UNCHANGED <<pc, arg, sigPending>>             \* wait again
        /\ UNCHANGED <<conn, lastRecv>>
  /\ UNCHANGED <<fdSock, sockState, timesOpened, connected, ports, lastEphPort,
                 hpc, hdg, nIn, panic, connectOk, lastSent>>

\* netSocketUdpSendto.  Without a dest_addr, finalAddr[] is read
\* uninitialised: it holds whatever the stack had (one of UninitAddrs) and
\* is replaced by the connection's address only if its first byte is zero.
\* netIPv4Send (ARP resolution, transmission) is the last step.
netSocketUdpSendto(t, f, dest, ip, rp, len) ==
  LET s == fdSock[f] IN
  /\ Idle(t) /\ ~sockLock[s]
  /\ \E stack \in UninitAddrs :
       LET given == IF dest THEN ip ELSE stack
           givenPort == IF dest THEN rp ELSE 0
       IN
       /\ IF conn[s] = NoConn                                \* automatic bind
          THEN netConnectionUdpOpen(s, 0, None, 0)
          ELSE UNCHANGED <<conn, ports, lastEphPort>>
       /\ LET c == conn'[s]
              finalAddr == IF given[1] = 0 THEN c.ip ELSE given
              remotePort == IF givenPort = 0 THEN c.remotePort ELSE givenPort
          IN  IF finalAddr[1] = 0 \/ len > MAX_UDP_PAYLOAD
              THEN UNCHANGED lastSent                        \* EDESTADDRREQ, EMSGSIZE
              ELSE lastSent' = [sock |-> s, explicit |-> dest,
                                srcPort |-> c.localPort, dst |-> finalAddr,
                                dstPort |-> remotePort, len |-> len]
  /\ UNCHANGED <<fdSock, sockState, timesOpened, sockLock, connected, pc, arg,
                 sigPending, hpc, hdg, nIn, panic, connectOk, lastRecv>>

-----------------------------------------------------------------------------
(* netUdpHandle, run by the kernel helper task on a frame the IPv4 layer   *)
(* accepted.  wellFormed abstracts the size and length-field checks.       *)

Datagrams ==
  [srcIp: Hosts, srcPort: RemotePorts, dstPort: DstPorts,
   len: Lens, wellFormed: BOOLEAN]

\* LinkedListSearch returns the first matching connection in list order;
\* the order is not modelled, CHOOSE fixes one.
\* The drop decisions of the first section: malformed, no connection, a
\* pinned connection and another sender, or the buffer ceiling exceeded.
netUdpHandleDropsIgnoringLen(dg) ==
  LET m == Matching(dg.dstPort, dg.srcPort)
      c == conn[CHOOSE s \in m : TRUE]
  IN  \/ ~dg.wellFormed
      \/ m = {}
      \/ c.ip[1] # 0 /\ c.ip # dg.srcIp
      \/ c.totalData > UDP_MAX_TOTAL_DATA
netUdpHandleDrops(dg) ==
  LET m == Matching(dg.dstPort, dg.srcPort)
      c == conn[CHOOSE s \in m : TRUE]
  IN  \/ ~dg.wellFormed
      \/ m = {}
      \/ c.ip[1] # 0 /\ c.ip # dg.srcIp                \* connInvHost
      \/ c.totalData + dg.len > UDP_MAX_TOTAL_DATA      \* connFull

\* First section: look the connection up and decide whether to drop.
netUdpHandle ==
  /\ hpc = "idle" /\ ~panic /\ nIn < MaxInbound
  /\ \E dg \in Datagrams :
       /\ hpc' = IF netUdpHandleDrops(dg) THEN "idle" ELSE "append"
       /\ hdg' = IF netUdpHandleDrops(dg) THEN None ELSE dg
  /\ nIn' = nIn + 1
  /\ UNCHANGED <<fdSock, sockState, timesOpened, sockLock, connected, conn,
                 ports, lastEphPort, pc, arg, sigPending, panic, connectOk,
                 lastSent, lastRecv>>

\* Second section: search again and append the buffer (the port is kept
\* in a uint8_t field).  If the connection went away in between, the
\* search returns NULL and the kernel faults on conn->dsBuffers.
netUdpHandleAppend ==
  LET m == Matching(hdg.dstPort, hdg.srcPort) IN
  /\ hpc = "append"
  /\ IF m = {}
     THEN /\ panic' = TRUE
          /\ UNCHANGED conn
     ELSE /\ LET s == CHOOSE s \in m : TRUE IN
               conn' = [conn EXCEPT
                  ![s].buffers = Append(@, [ip |-> hdg.srcIp,
                                            remotePort |-> hdg.srcPort % 256,
                                            srcPort |-> hdg.srcPort,
                                            len |-> hdg.len]),
                  ![s].totalData = @ + hdg.len]
          /\ UNCHANGED panic
  /\ hpc' = "idle"
  /\ hdg' = None
  /\ UNCHANGED <<fdSock, sockState, timesOpened, sockLock, connected, ports,
                 lastEphPort, pc, arg, sigPending, nIn, connectOk, lastSent,
                 lastRecv>>

\* A signal becomes pending for a task waiting in recvfrom.
SignalWaiter(t) ==
  /\ pc[t] = "recvWait" /\ ~sigPending[t]
  /\ sigPending' = [sigPending EXCEPT ![t] = TRUE]
  /\ UNCHANGED <<fdSock, sockState, timesOpened, sockLock, connected, conn,
                 ports, lastEphPort, pc, arg, hpc, hdg, nIn, panic, connectOk,
                 lastSent, lastRecv>>

-----------------------------------------------------------------------------
Init ==
  /\ fdSock = [f \in FDs |-> NoSock]
  /\ sockState = [s \in Socks |-> "unused"]
  /\ timesOpened = [s \in Socks |-> 0]
  /\ sockLock = [s \in Socks |-> FALSE]
  /\ connected = [s \in Socks |-> FALSE]
  /\ conn = [s \in Socks |-> NoConn]
  /\ NP!netUdpStoreInitPorts
  /\ pc = [t \in Tasks |-> "idle"]
  /\ arg = [t \in Tasks |-> None]
  /\ sigPending = [t \in Tasks |-> FALSE]
  /\ hpc = "idle"
  /\ hdg = None
  /\ nIn = 0
  /\ panic = FALSE
  /\ connectOk = [s \in Socks |-> 0]
  /\ lastSent = None
  /\ lastRecv = None

TaskStep(t) ==
  \/ \E f \in FDs : netSocketUdpInit(t, f)
  \/ \E f \in OpenFDs :
       \/ netSocketUdpDuplicate(t, f)
       \/ netSocketUdpClose(t, f)
       \/ \E lp \in BindPorts : netSocketUdpBind(t, f, lp)
       \/ \E ip \in IPs, rp \in RemotePorts \cup {0} :
            netSocketUdpConnect(t, f, ip, rp)
       \/ \E dest \in BOOLEAN, ip \in IPs, rp \in RemotePorts \cup {0}, len \in Lens :
            netSocketUdpSendto(t, f, dest, ip, rp, len)
       \/ \E nonblock, wantAddr \in BOOLEAN :
            netSocketUdpRecvfrom(t, f, nonblock, wantAddr)
  \/ netSocketUdpBindOpen(t)
  \/ netSocketUdpConnectOpen(t)
  \/ netSocketUdpRecvfromLoop(t)
  \/ SignalWaiter(t)

Next ==
  \/ \E t \in Tasks : TaskStep(t)
  \/ netUdpHandle
  \/ netUdpHandleAppend

Spec == Init /\ [][Next]_vars

-----------------------------------------------------------------------------
Bufs == [ip: Hosts, remotePort: 0 .. 255, srcPort: RemotePorts, len: Lens]
Conns == [ip: IPs, localPort: NP!PortSpace, remotePort: RemotePorts \cup {0},
          totalData: Nat, buffers: Seq(Bufs)]

TypeOK ==
  /\ fdSock \in [FDs -> Socks \cup {NoSock}]
  /\ sockState \in [Socks -> {"unused", "open", "freed"}]
  /\ timesOpened \in [Socks -> 0 .. Cardinality(FDs)]
  /\ sockLock \in [Socks -> BOOLEAN]
  /\ connected \in [Socks -> BOOLEAN]
  /\ conn \in [Socks -> Conns \cup {NoConn}]
  /\ ports \subseteq NP!PortSpace
  /\ pc \in [Tasks -> {"idle", "bindOpen", "connectOpen", "recvWait"}]
  /\ arg \in [Tasks -> CallArgs \cup {None}]
  /\ hpc \in {"idle", "append"}
  /\ hdg \in Datagrams \cup {None}
  /\ nIn \in 0 .. MaxInbound
  /\ panic \in BOOLEAN

\* Sum of the payload sizes of a buffer queue.
RECURSIVE QueuedBytes(_)
QueuedBytes(bs) == IF bs = <<>> THEN 0 ELSE Head(bs).len + QueuedBytes(Tail(bs))

\* A connection's totalData counts exactly the bytes of the datagrams it
\* holds: netUdpHandle adds in its second lock section what it checked in
\* the first, recvfrom subtracts what it unlinks, from any loop turn.
BufferAccounting ==
  \A s \in ConnSocks : conn[s].totalData = QueuedBytes(conn[s].buffers)

\* No connection ever holds more than UDP_MAX_TOTAL_DATA bytes, although
\* netUdpHandle checks the ceiling and appends in two separate sections.
BufferCeiling ==
  \A s \in ConnSocks : conn[s].totalData <= UDP_MAX_TOTAL_DATA

\* The port bitmap agrees with the connection store: open connections have
\* distinct local ports outside the reserved block, and a port is allocated
\* iff it is reserved, some connection's, or claimed by a bind between
\* netPortsMarkSafe and netConnectionUdpOpen.  Ports freed on close, the
\* ephemeral generator and bind's test-and-set all have to agree for this.
PortsConsistent ==
  LET owned == {conn[s].localPort : s \in ConnSocks}
      claimed == {arg[t].lport : t \in {u \in Tasks : pc[u] = "bindOpen"}} \ {0}
  IN  /\ \A s1, s2 \in ConnSocks :
           s1 # s2 => conn[s1].localPort # conn[s2].localPort
      /\ \A s \in ConnSocks : conn[s].localPort \notin NP!ReservedBlock
      /\ ports = NP!ReservedBlock \cup owned \cup claimed

\* LOCK_SOCKET is set only while a task is inside a section of the socket
\* that holds it (bind or connect between their two steps): no handler
\* returns with the socket locked.
SockLockHeldByCaller ==
  \A s \in Socks :
    (sockState[s] = "open" /\ sockLock[s]) =>
      \E t \in Tasks : pc[t] \in {"bindOpen", "connectOpen"}
                       /\ fdSock[arg[t].fd] = s

\* connect() succeeds at most once per socket: `connected` is checked and
\* set under LOCK_SOCKET to reject a second connect with EISCONN.
ConnectSucceedsOnce == \A s \in Socks : connectOk[s] <= 1

\* recvfrom reports the sender of the datagram it returns: family AF_INET,
\* the source port and the source address.
RecvfromReportsSender ==
  [][ (lastRecv' # lastRecv /\ lastRecv'.reported # None)
        => lastRecv'.reported = lastRecv'.src ]_vars

\* netUdpHandle never dereferences a connection that is not in the store.
HelperNeverFaults == ~panic

\* The connection of socket s, seen as the abstract queue of UdpQueue.
ConnQueue(s) ==
  INSTANCE UdpQueue
    WITH Msgs <- {[ip |-> h, remotePort |-> p % 256, srcPort |-> p, len |-> l] :
                  h \in Hosts, p \in RemotePorts, l \in Lens},
         open <- conn[s] # NoConn,
         q    <- IF conn[s] = NoConn THEN <<>> ELSE conn[s].buffers

\* Each connection's buffers behave as a FIFO queue (spec.md 4.7: "delivered
\* in arrival order; no reordering or deduplication"): the helper's second
\* section appends, recvfrom from any loop turn and any task sharing the
\* descriptor dequeues the oldest, bind, connect and sendto reuse the queue
\* of an existing connection, and only the last close discards it.
ConnBuffersFifo ==
  /\ \A s \in Socks : ConnQueue(s)!QInit
  /\ [][\A s \in Socks : [ConnQueue(s)!QNext]_(ConnQueue(s)!queueVars)]_conn

=============================================================================
