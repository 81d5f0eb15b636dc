----------------------------- MODULE MCUdpStack -----------------------------
(* Instantiation of UdpStack for TLC.  Addresses keep their four bytes,    *)
(* since the code tests ip[0] alone and recvfrom copies bytes around;      *)
(* remote ports keep their 16-bit values, since a buffer stores only the   *)
(* low byte (6000 and 6256 share it).                                      *)
EXTENDS UdpStack, TLC

MCHosts == {<<10, 0, 0, 2>>, <<10, 0, 1, 7>>}
\* What an uninitialised finalAddr[] can hold: a zero first byte (then the
\* connection's address is used) or stale non-zero bytes.
MCUninitAddrs == {<<0, 0, 0, 0>>, <<192, 168, 7, 9>>}
MCRemotePorts == {6000, 6256}
\* bind(0) asks for an ephemeral port, 8 is the first bindable port.
MCBindPorts == {0, 8}
MCLens == {1, 2}
\* Inbound datagrams go to the bound port 8 or to the first ephemeral port.
MCDstPorts == {8, 12}

\* Tasks, descriptors and sockets are interchangeable: no definition
\* distinguishes one from another.
MCSymmetry == Permutations(Tasks) \cup Permutations(FDs) \cup Permutations(Socks)

\* States that differ only in the history variables behave alike.
MCView == coreVars
=============================================================================
