------------------------------- MODULE NetRx -------------------------------
(***************************************************************************)
(* The receive path.  The NIC driver puts frames in the ring netQueue; the *)
(* kernel helper task drains it (helperNet, kernel_helper.c) and passes    *)
(* each frame through netEthHandle (eth.c), netIPv4Handle (ipv4.c) and the *)
(* length checks at the top of netUdpHandle (udp.c).  A frame is a record  *)
(* of the header fields these checks read and its size as the driver      *)
(* reports it; the verdict of a frame is where its processing ends: the    *)
(* drop that discards it, or the handler it reaches.  What netArpHandle    *)
(* and the connection lookup of netUdpHandle do next is modelled in Arp    *)
(* and UdpStack.  The checksum test is the flag csumOk; the sum itself is  *)
(* the Checksum module.                                                    *)
(***************************************************************************)
EXTENDS Integers, Sequences

CONSTANTS
  QUEUE_MAX,     \* slots of the netQueue ring
  Frames,        \* frames the link can deliver
  MaxArrivals,   \* frames the driver receives in a behaviour
  None

VARIABLES
  netQueue,       \* slot -> frame
  netQueueRead,   \* next slot helperNet handles
  netQueueWrite,  \* next slot the driver fills
  arrived,        \* history: the frames the driver queued, in order
  handled         \* history: [frame, verdict] for each frame handled, in order

vars == <<netQueue, netQueueRead, netQueueWrite, arrived, handled>>

Slots == 0 .. QUEUE_MAX - 1

ETH_HEADER == 14          \* sizeof(ethHeader)
IPV4_HEADER == 20         \* sizeof(IPv4header)
UDP_HEADER == 8           \* sizeof(udpHeader)
ARP_PACKET == 28          \* sizeof(arpPacket)

\* Offset of the UDP header: the Ethernet header and IHL 32-bit words.
NET_UDP_CARRY(f) == ETH_HEADER + 4 * f.ihl

-----------------------------------------------------------------------------
(* The checks, in the order the code makes them.                           *)

\* netUdpHandle's checks before the lookup; the payload size is taken from
\* the frame size, not from the IPv4 length.
netUdpHandleChecks(f) ==
  LET carry == NET_UDP_CARRY(f)
  IN  CASE f.size < carry + UDP_HEADER                        -> "udp:small"
        [] f.udpLen - UDP_HEADER # f.size - carry - UDP_HEADER -> "udp:length"
        [] OTHER                                                -> "udp"

\* netIPv4Handle without the TTL test.
netIPv4HandleNoTtl(f) ==
  CASE f.size < ETH_HEADER + IPV4_HEADER                   -> "ipv4:small"
    [] f.version # 4                                       -> "ipv4:version"
    [] f.fragmented                                        -> "ipv4:fragment"
    [] f.ipLen > f.size - ETH_HEADER                       -> "ipv4:length"
    [] 4 * f.ihl < IPV4_HEADER                             -> "ipv4:ihl"
    [] f.ipDest \notin {"us", "broadcast", "null"}         -> "ipv4:dest"
    [] ~f.csumOk                                           -> "ipv4:checksum"
    [] f.proto = "udp"                                     -> netUdpHandleChecks(f)
    [] f.proto \in {"tcp", "icmp"}                         -> f.proto
    [] OTHER                                               -> "ipv4:protocol"
\* netIPv4Handle: the tests in order, each an early return; TCP and ICMP
\* are recognised and do nothing.
netIPv4Handle(f) ==
  CASE f.size < ETH_HEADER + IPV4_HEADER                   -> "ipv4:small"
    [] f.version # 4                                       -> "ipv4:version"
    [] f.fragmented                                        -> "ipv4:fragment"
    [] f.ipLen > f.size - ETH_HEADER                       -> "ipv4:length"
    [] 4 * f.ihl < IPV4_HEADER                             -> "ipv4:ihl"
    [] f.ipDest \notin {"us", "broadcast", "null"}         -> "ipv4:dest"
    [] f.ttl = 1                                           -> "ipv4:ttl"
    [] ~f.csumOk                                           -> "ipv4:checksum"
    [] f.proto = "udp"                                     -> netUdpHandleChecks(f)
    [] f.proto \in {"tcp", "icmp"}                         -> f.proto
    [] OTHER                                               -> "ipv4:protocol"

\* netArpHandle's checks and its dispatch on the opcode: a request for our
\* address is answered (netArpReply), a reply goes on to the pending-item
\* lookup that Arp models.
netArpHandleChecks(f) ==
  CASE f.size < ETH_HEADER + ARP_PACKET                  -> "arp:small"
    [] ~f.arpFormat                                      -> "arp:format"
    [] ~f.arpSenderIsEthSrc                              -> "arp:spoof"
    [] f.arpOp = "request" /\ f.arpTarget = "null"       -> "arp:null-target"
    [] f.arpOp = "request" /\ f.arpTarget = "us"         -> "arp:answered"
    [] f.arpOp = "request"                               -> "arp:request"
    [] f.arpOp = "reply" /\ f.arpSender = "null"         -> "arp:null-sender"
    [] f.arpOp = "reply"                                 -> "arp"
    [] OTHER                                             -> "arp:opcode"

\* netEthHandle: the all-zero MAC is accepted like the broadcast one; IPv6
\* is dropped without a message.
netEthHandle(f) ==
  CASE f.size < ETH_HEADER                          -> "eth:small"
    [] f.ethDest \notin {"us", "broadcast", "zero"} -> "eth:dest"
    [] f.ethType = "arp"                            -> netArpHandleChecks(f)
    [] f.ethType = "ipv4"                           -> netIPv4Handle(f)
    [] f.ethType = "ipv6"                           -> "ipv6"
    [] OTHER                                        -> "eth:type"

-----------------------------------------------------------------------------
\* The driver's interrupt handler queues a frame when the ring has room.
\* The producer is outside the kernel sources modelled here; it keeps one
\* slot free, since read = write means empty to helperNet.
netQueuePush(f) ==
  /\ Len(arrived) < MaxArrivals
  /\ (netQueueWrite + 1) % QUEUE_MAX # netQueueRead
  /\ netQueue' = [netQueue EXCEPT ![netQueueWrite] = f]
  /\ netQueueWrite' = (netQueueWrite + 1) % QUEUE_MAX
  /\ arrived' = Append(arrived, f)
  /\ UNCHANGED <<netQueueRead, handled>>

\* helperNet advancing its index without wrapping it.
helperNetNoWrap ==
  /\ netQueueRead # netQueueWrite
  /\ handled' = Append(handled, [frame |-> netQueue[netQueueRead],
                                 verdict |-> netEthHandle(netQueue[netQueueRead])])
  /\ netQueueRead' = netQueueRead + 1
  /\ UNCHANGED <<netQueue, netQueueWrite, arrived>>
\* helperNet advancing its index by the wrong modulus.
helperNetShortRing ==
  /\ netQueueRead # netQueueWrite
  /\ handled' = Append(handled, [frame |-> netQueue[netQueueRead],
                                 verdict |-> netEthHandle(netQueue[netQueueRead])])
  /\ netQueueRead' = (netQueueRead + 1) % (QUEUE_MAX - 1)
  /\ UNCHANGED <<netQueue, netQueueWrite, arrived>>

\* One turn of helperNet's loop: stop when empty, else handle the frame at
\* the read index and advance it.
helperNet ==
  /\ netQueueRead # netQueueWrite
  /\ handled' = Append(handled, [frame |-> netQueue[netQueueRead],
                                 verdict |-> netEthHandle(netQueue[netQueueRead])])
  /\ netQueueRead' = (netQueueRead + 1) % QUEUE_MAX
  /\ UNCHANGED <<netQueue, netQueueWrite, arrived>>

Init ==
  /\ netQueue = [s \in Slots |-> None]
  /\ netQueueRead = 0
  /\ netQueueWrite = 0
  /\ arrived = <<>>
  /\ handled = <<>>

Next == (\E f \in Frames : netQueuePush(f)) \/ helperNet

Spec == Init /\ [][Next]_vars

\* The helper task is always READY and schedule() is round-robin (Tasks),
\* so it keeps turning its loop, and each turn calls helperNet.
FairSpec == Spec /\ WF_vars(helperNet)

-----------------------------------------------------------------------------
TypeOK ==
  /\ netQueue \in [Slots -> Frames \cup {None}]
  /\ netQueueRead \in Slots
  /\ netQueueWrite \in Slots
  /\ arrived \in Seq(Frames)
  /\ handled \in Seq([frame: Frames, verdict: STRING])

\* The header tests the spec lists for IPv4 and Ethernet, read off the
\* fields (reference for the pipeline, independent of its order).
HeaderAcceptable(f) ==
  /\ f.size >= ETH_HEADER + IPV4_HEADER
  /\ f.ethDest \in {"us", "broadcast", "zero"}
  /\ f.ethType = "ipv4"
  /\ f.version = 4
  /\ ~f.fragmented
  /\ f.ipLen <= f.size - ETH_HEADER
  /\ f.ihl >= 5
  /\ f.ipDest \in {"us", "broadcast", "null"}
  /\ f.ttl # 1
  /\ f.csumOk
  /\ f.proto = "udp"

\* A well-formed UDP datagram: acceptable header and a UDP length that is
\* the IPv4 payload length.
WellFormedDatagram(f) ==
  /\ HeaderAcceptable(f)
  /\ f.udpLen >= UDP_HEADER
  /\ f.udpLen = f.ipLen - 4 * f.ihl

\* The refinement mapping: the frames between the read and the write
\* index, oldest first, are the abstract queue; the frames handled are the
\* frames taken.
RingLen == (netQueueWrite - netQueueRead) % QUEUE_MAX
RingContents ==
  [i \in 1 .. RingLen |-> netQueue[(netQueueRead + i - 1) % QUEUE_MAX]]
HandledFrames == [i \in DOMAIN handled |-> handled[i].frame]

Fifo == INSTANCE RxFifo
          WITH Capacity <- QUEUE_MAX - 1, Msgs <- Frames,
               q <- RingContents, out <- HandledFrames

\* The ring of QUEUE_MAX slots with its two indices, read == write meaning
\* empty, implements a FIFO of QUEUE_MAX - 1 frames: helperNet hands the
\* frames to netEthHandle once each, oldest first, across the wrap of both
\* indices, and under the helper's fairness every queued frame is handled.
RingImplementsFifo == Fifo!FifoSpec

\* An ARP packet the spec accepts: whole, Ethernet/IPv4 sizes and types,
\* sent by the station named as its sender.
ArpAcceptable(f) ==
  /\ f.size >= ETH_HEADER + ARP_PACKET
  /\ f.ethDest \in {"us", "broadcast", "zero"}
  /\ f.ethType = "arp"
  /\ f.arpFormat
  /\ f.arpSenderIsEthSrc

\* Only a frame whose Ethernet and IPv4 headers pass every test reaches
\* the UDP connection lookup; only a well-formed, unspoofed ARP reply from
\* a non-null address reaches the ARP table, and only such a request for
\* our own address is answered.
RxDeliversOnlyValid ==
  \A i \in 1 .. Len(handled) :
    LET f == handled[i].frame
        v == handled[i].verdict
    IN  /\ v = "udp" => HeaderAcceptable(f)
        /\ v = "arp" => ArpAcceptable(f) /\ f.arpOp = "reply"
                        /\ f.arpSender # "null"
        /\ v = "arp:answered" => ArpAcceptable(f) /\ f.arpOp = "request"
                                 /\ f.arpTarget = "us"

\* Every well-formed UDP datagram reaches the connection lookup, whether
\* or not the driver's frame carries Ethernet padding after it.
WellFormedDatagramAccepted ==
  \A i \in 1 .. Len(handled) :
    WellFormedDatagram(handled[i].frame) => handled[i].verdict = "udp"
=============================================================================
