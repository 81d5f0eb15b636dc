\* The port and lock protocol of the socket handlers: two tasks, two
\* descriptors, two sockets, no inbound traffic.  Two sockets are needed for
\* two connections to compete for ports; 16 ports with the ephemeral range
\* 12..15 let bind(8), bind(0) and autobind meet, wrap and exhaust nothing
\* the reserved block guards.  A handler that leaves LOCK_SOCKET held makes
\* the next caller on that socket spin for ever, so behaviours do stop.
CONSTANTS
  Tasks = {t1, t2}
  FDs = {f1, f2}
  Socks = {s1, s2}
  NoSock = NoSock
  NoConn = NoConn
  None = None
  Hosts <- MCHosts
  UninitAddrs <- MCUninitAddrs
  RemotePorts <- MCRemotePorts
  BindPorts <- MCBindPorts
  DstPorts <- MCDstPorts
  Lens <- MCLens
  UDP_MAX_TOTAL_DATA = 3
  MAX_UDP_PAYLOAD = 1
  MaxInbound = 0
  NETPORTS_AVAILABLE_PORTS = 16
  NETPORTS_EPH_START = 12
  EPH_SEED_RANGE = 2
SPECIFICATION Spec
VIEW MCView
SYMMETRY MCSymmetry
INVARIANT TypeOK PortsConsistent
CHECK_DEADLOCK FALSE
