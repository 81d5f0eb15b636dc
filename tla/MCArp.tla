------------------------------- MODULE MCArp -------------------------------
(* Instantiation of Arp for TLC.  The NIC is 10.0.0.1/24 with gateway      *)
(* 10.0.0.254; one destination is on the link, one (8.8.8.8) is routed to  *)
(* the gateway, so both branches of netIPv4NeedsRouting are taken.         *)
EXTENDS Arp

\* Two hardware addresses, model values in the configurations.
CONSTANTS m1, m2

MCLocalIp == <<10, 0, 0, 1>>
MCSubnetMask == <<255, 255, 255, 0>>
MCServerIp == <<10, 0, 0, 254>>
MCDests == {<<10, 0, 0, 2>>, <<8, 8, 8, 8>>}

\* A link where the gateway's address is answered by two MACs (a failover
\* pair, or a NIC swapped) and the first host shares a MAC with the
\* gateway (proxy ARP): every case of netArpTableAdd occurs.
MCAnswersShared ==
  {<<<<10, 0, 0, 2>>, m1>>, <<<<10, 0, 0, 254>>, m1>>,
   <<<<10, 0, 0, 254>>, m2>>}

\* A link where every IP has one owner and every MAC one IP.
MCAnswersUnique == {<<<<10, 0, 0, 2>>, m1>>, <<<<10, 0, 0, 254>>, m2>>}
=============================================================================
