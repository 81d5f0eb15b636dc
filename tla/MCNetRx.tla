------------------------------ MODULE MCNetRx ------------------------------
(***************************************************************************)
(* Frames for the receive path: a 10-byte UDP datagram as the sender puts *)
(* it on the wire, the same datagram padded to the 60-byte Ethernet        *)
(* minimum as a NIC may deliver it, and variants that each change one      *)
(* field to a value one of the checks is about; the same for an ARP reply. *)
(***************************************************************************)
EXTENDS NetRx

\* A UDP datagram with `payload` bytes, `pad` bytes of Ethernet padding.
Datagram(payload, pad) ==
  [size |-> ETH_HEADER + IPV4_HEADER + UDP_HEADER + payload + pad,
   ethDest |-> "us", ethType |-> "ipv4", version |-> 4, ihl |-> 5,
   fragmented |-> FALSE, ipLen |-> IPV4_HEADER + UDP_HEADER + payload,
   ipDest |-> "us", ttl |-> 64, csumOk |-> TRUE, proto |-> "udp",
   udpLen |-> UDP_HEADER + payload,
   arpFormat |-> TRUE, arpSenderIsEthSrc |-> TRUE, arpOp |-> "reply",
   arpSender |-> "host", arpTarget |-> "us"]

\* An ARP reply from a host, addressed to us, as netArpTranslate awaits it.
A == [Datagram(0, 0) EXCEPT !.size = ETH_HEADER + ARP_PACKET, !.ethType = "arp"]

D == Datagram(10, 0)
Padded == Datagram(10, 8)

\* D with one field changed.
Variants ==
  {[D EXCEPT !.ethDest = v] : v \in {"broadcast", "other"}} \cup
  {[D EXCEPT !.ethType = v] : v \in {"arp", "ipv6", "other"}} \cup
  {[D EXCEPT !.version = 6], [D EXCEPT !.fragmented = TRUE],
   [D EXCEPT !.ipLen = D.ipLen + 1], [D EXCEPT !.ihl = 4],
   [D EXCEPT !.ihl = 15], [D EXCEPT !.ttl = 1], [D EXCEPT !.ttl = 0],
   [D EXCEPT !.csumOk = FALSE], [D EXCEPT !.udpLen = 9],
   [D EXCEPT !.size = 20], [D EXCEPT !.size = 10]} \cup
  {[D EXCEPT !.ipDest = v] : v \in {"broadcast", "other"}} \cup
  {[D EXCEPT !.proto = v] : v \in {"tcp", "icmp", "other"}}

\* A with one field changed.
ArpVariants ==
  {[A EXCEPT !.size = ETH_HEADER + ARP_PACKET - 1],
   [A EXCEPT !.arpFormat = FALSE], [A EXCEPT !.arpSenderIsEthSrc = FALSE],
   [A EXCEPT !.arpSender = "null"], [A EXCEPT !.arpOp = "other"]} \cup
  {[A EXCEPT !.arpOp = "request", !.arpTarget = v] : v \in {"us", "null", "other"}}

MCFrames == {D, Padded, A} \cup Variants \cup ArpVariants
=============================================================================
