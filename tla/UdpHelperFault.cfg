\* netUdpHandle searches the connection again in its second section and
\* dereferences the result unchecked (udp.c:76-78).  One task, one
\* datagram.
CONSTANTS
  Tasks = {t1}
  FDs = {f1}
  Socks = {s1}
  NoSock = NoSock
  NoConn = NoConn
  None = None
  Hosts <- MCHosts
  UninitAddrs <- MCUninitAddrs
  RemotePorts <- MCRemotePorts
  BindPorts <- MCBindPorts
  DstPorts <- MCDstPorts
  Lens <- MCLens
  UDP_MAX_TOTAL_DATA = 3
  MAX_UDP_PAYLOAD = 1
  MaxInbound = 1
  NETPORTS_AVAILABLE_PORTS = 16
  NETPORTS_EPH_START = 12
  EPH_SEED_RANGE = 2
SPECIFICATION Spec
INVARIANT HelperNeverFaults
CHECK_DEADLOCK FALSE
