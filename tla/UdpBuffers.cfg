\* The receive path: two tasks sharing one descriptor of one socket, the
\* helper handling up to three inbound datagrams.  A ceiling of 3 bytes with
\* payloads of 1 and 2 makes the full-buffer drop reachable after two
\* datagrams.  The NULL dereference of netUdpHandle halts the kernel and a
\* leaked LOCK_SOCKET makes callers spin, so behaviours do stop.
CONSTANTS
  Tasks = {t1, t2}
  FDs = {f1}
  Socks = {s1}
  NoSock = NoSock
  NoConn = NoConn
  None = None
  Hosts <- MCHosts
  UninitAddrs <- MCUninitAddrs
  RemotePorts <- MCRemotePorts
  BindPorts <- MCBindPorts
  DstPorts <- MCDstPorts
  Lens <- MCLens
  UDP_MAX_TOTAL_DATA = 3
  MAX_UDP_PAYLOAD = 1
  MaxInbound = 3
  NETPORTS_AVAILABLE_PORTS = 16
  NETPORTS_EPH_START = 12
  EPH_SEED_RANGE = 2
SPECIFICATION Spec
VIEW MCView
SYMMETRY MCSymmetry
INVARIANT BufferAccounting BufferCeiling
PROPERTY ConnBuffersFifo
CHECK_DEADLOCK FALSE
