\* A recvfrom woken from its wait releases LOCK_SOCKET, which it does not
\* hold (udp_socket.c:200, 214), letting a second connect() into the section
\* the first one holds.  Two tasks sharing one descriptor.
CONSTANTS
  Tasks = {t1, t2}
  FDs = {f1}
  Socks = {s1}
  NoSock = NoSock
  NoConn = NoConn
  None = None
  Hosts <- MCHosts
  UninitAddrs <- MCUninitAddrs
  RemotePorts <- MCRemotePorts
  BindPorts <- MCBindPorts
  DstPorts <- MCDstPorts
  Lens <- MCLens
  UDP_MAX_TOTAL_DATA = 3
  MAX_UDP_PAYLOAD = 1
  MaxInbound = 0
  NETPORTS_AVAILABLE_PORTS = 16
  NETPORTS_EPH_START = 12
  EPH_SEED_RANGE = 2
SPECIFICATION Spec
INVARIANT ConnectSucceedsOnce
CHECK_DEADLOCK FALSE
