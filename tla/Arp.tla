-------------------------------- MODULE Arp --------------------------------
(***************************************************************************)
(* Outbound address resolution: netIPv4Send (ipv4.c) called by user tasks  *)
(* spins on netArpTranslate (arp.c), which looks the next hop up in the    *)
(* ARP table, queues a pending request in the net queue (netqueue.c) and   *)
(* broadcasts it; the kernel helper task runs netArpHandle on the replies  *)
(* the network returns.  The network loses, duplicates and reorders        *)
(* frames: requests and replies in flight are sets.                        *)
(*                                                                         *)
(* Each lock section is one step: the table lookup (LOCK_LL_TABLE), the    *)
(* queue section of netArpTranslate (LOCK_LL_NET_QUEUE), and the two       *)
(* sections of the reply handler (queue, then table).  The 500-tick retry  *)
(* timer of a queued request is the flag `expired`, set by the clock.      *)
(***************************************************************************)
EXTENDS Integers, FiniteSets, Bitwise

CONSTANTS
  Tasks,        \* user tasks calling netIPv4Send
  Dests,        \* destination addresses they send to (4-tuples of bytes)
  LocalIp, SubnetMask, ServerIp,   \* the NIC's ip, subnetMask, serverIp
  MACs,         \* hardware addresses on the link
  Answers,      \* <<ip, mac>> pairs: which hosts answer a request for ip
  None

VARIABLES
  table,     \* nic->arp.table: a set of [ip, mac] entries
  queue,     \* ARP items of dsNetQueue: a set of [ip, expired]
  reqWire,   \* ARP requests in flight: the IPs asked for
  repWire,   \* ARP replies in flight: [ip, mac] of the sender
  tpc,       \* per task: where it is in netIPv4Send
  route,     \* per task: routeIp of its current send
  hpc,       \* helper: "idle" or between the two sections of netArpHandle
  hrep,      \* helper: the reply it is handling
  lastTx     \* the last frame netIPv4Send handed to netEthSend

vars == <<table, queue, reqWire, repWire, tpc, route, hpc, hrep, lastTx>>

Entries == [ip: Dests \cup {ServerIp}, mac: MACs]
Replies == {[ip |-> a[1], mac |-> a[2]] : a \in Answers}

\* LinkedListSearch with netArpTableLookupCb / netArpTableLookupMacCb.
EntryFor(ip) == {e \in table : e.ip = ip}
EntryWithMac(mac) == {e \in table : e.mac = mac}
\* A new item of dsNetQueue for ip, its time set to now: its timer has
\* not expired.  The caller holds LOCK_LL_NET_QUEUE.
netQueueAllocateM(ip) == [ip |-> ip, expired |-> FALSE]

\* LinkedListSearch with netArpQueueCb.
ItemFor(ip) == {i \in queue : i.ip = ip}

-----------------------------------------------------------------------------
(* ipv4.c                                                                   *)

\* netIPv4NeedsRouting: the addresses are compared as uint32_t under the
\* mask, which is byte-wise equality of the masked bytes.
netIPv4NeedsRouting(localIp, destIp, mask) ==
  \E i \in 1 .. 4 : (destIp[i] & mask[i]) # (localIp[i] & mask[i])

\* netIPv4Send up to the resolution loop: pick the next hop.
netIPv4Send(t, dest) ==
  /\ tpc[t] = "idle"
  /\ tpc' = [tpc EXCEPT ![t] = "lookup"]
  /\ route' = [route EXCEPT ![t] =
                 IF netIPv4NeedsRouting(LocalIp, dest, SubnetMask)
                 THEN ServerIp ELSE dest]
  /\ UNCHANGED <<table, queue, reqWire, repWire, hpc, hrep, lastTx>>

-----------------------------------------------------------------------------
(* netArpTranslate, one call per turn of netIPv4Send's loop                 *)

\* netArpTableLookup: on a hit the loop ends and netEthSend transmits to
\* the MAC found; on a miss the call goes on to the queue section.
netArpTableLookup(t) ==
  /\ tpc[t] = "lookup"
  /\ IF EntryFor(route[t]) # {}
     THEN LET e == CHOOSE x \in EntryFor(route[t]) : TRUE IN
          /\ tpc' = [tpc EXCEPT ![t] = "idle"]
          /\ route' = [route EXCEPT ![t] = None]
          /\ lastTx' = [task |-> t, ip |-> e.ip, mac |-> e.mac]
     ELSE /\ tpc' = [tpc EXCEPT ![t] = "queue"]
          /\ UNCHANGED <<route, lastTx>>
  /\ UNCHANGED <<table, queue, reqWire, repWire, hpc, hrep>>

\* The queue section, with a retry that ignores the timer.
netArpTranslateQueueNoRetry(t) ==
  LET ip == route[t] IN
  /\ tpc[t] = "queue"
  /\ IF ItemFor(ip) = {}
     THEN /\ queue' = queue \cup {netQueueAllocateM(ip)}
          /\ tpc' = [tpc EXCEPT ![t] = "request"]
     ELSE /\ tpc' = [tpc EXCEPT ![t] = "lookup"]
          /\ UNCHANGED queue
  /\ UNCHANGED <<table, reqWire, repWire, route, hpc, hrep, lastTx>>
\* The queue section: allocate a pending item if none exists for the IP;
\* otherwise proceed only if 500 ticks passed since the last attempt, and
\* restart its timer.  Without proceeding, the loop yields and retries.
netArpTranslateQueue(t) ==
  LET ip == route[t] IN
  /\ tpc[t] = "queue"
  /\ IF ItemFor(ip) = {}
     THEN /\ queue' = queue \cup {netQueueAllocateM(ip)}
          /\ tpc' = [tpc EXCEPT ![t] = "request"]
     ELSE LET i == CHOOSE x \in ItemFor(ip) : TRUE IN
          IF i.expired
          THEN /\ queue' = (queue \ {i}) \cup {[i EXCEPT !.expired = FALSE]}
               /\ tpc' = [tpc EXCEPT ![t] = "request"]
          ELSE /\ tpc' = [tpc EXCEPT ![t] = "lookup"]
               /\ UNCHANGED queue
  /\ UNCHANGED <<table, reqWire, repWire, route, hpc, hrep, lastTx>>

\* The broadcast of the request (netEthSend, no lock), then handControl.
netArpTranslateRequest(t) ==
  /\ tpc[t] = "request"
  /\ reqWire' = reqWire \cup {route[t]}
  /\ tpc' = [tpc EXCEPT ![t] = "lookup"]
  /\ UNCHANGED <<table, queue, repWire, route, hpc, hrep, lastTx>>

-----------------------------------------------------------------------------
(* netArpHandle on a well-formed reply, run by the helper task.  Replies   *)
(* with a null sender IP, malformed frames and requests for our address    *)
(* change no state and are not steps of the model.                         *)

\* First section: consume the pending request for the sender's IP.
netArpHandle(r) ==
  /\ hpc = "idle"
  /\ r \in repWire
  /\ \/ repWire' = repWire \ {r}
     \/ UNCHANGED repWire                  \* a duplicate stays in flight
  /\ IF ItemFor(r.ip) # {}
     THEN /\ queue' = queue \ ItemFor(r.ip)
          /\ hpc' = "add"
          /\ hrep' = r
     ELSE UNCHANGED <<queue, hpc, hrep>>    \* unsolicited: dropped
  /\ UNCHANGED <<table, reqWire, tpc, route, lastTx>>

\* netArpTableAdd without dropping the entry that holds the MAC.
netArpTableAddKeepMac(mac, ip) ==
  LET byIp == EntryFor(ip)
      byMac == EntryWithMac(mac)
      old == IF byIp # {} THEN byIp ELSE byMac
  IN  table' = (table \ old) \cup {[ip |-> ip, mac |-> mac]}
\* netArpTableAdd: the entry holding the IP, else the one holding the MAC,
\* else a new one, takes the pair; if both exist and differ the MAC's
\* entry is removed.
netArpTableAdd(mac, ip) ==
  LET byIp == EntryFor(ip)
      byMac == EntryWithMac(mac)
  IN  table' = (table \ (byIp \cup byMac)) \cup {[ip |-> ip, mac |-> mac]}

\* The second section passing the pair in the wrong order.
netArpHandleAddSwapped ==
  /\ hpc = "add"
  /\ netArpTableAdd(hrep.ip, hrep.mac)
  /\ hpc' = "idle"
  /\ hrep' = None
  /\ UNCHANGED <<queue, reqWire, repWire, tpc, route, lastTx>>
\* Second section: commit the mapping.
netArpHandleAdd ==
  /\ hpc = "add"
  /\ netArpTableAdd(hrep.mac, hrep.ip)
  /\ hpc' = "idle"
  /\ hrep' = None
  /\ UNCHANGED <<queue, reqWire, repWire, tpc, route, lastTx>>

-----------------------------------------------------------------------------
(* The link and the clock.                                                  *)

\* A host owning the IP answers a request it receives.
HostAnswers(ip) ==
  \E m \in MACs :
    /\ ip \in reqWire
    /\ <<ip, m>> \in Answers
    /\ reqWire' = reqWire \ {ip}
    /\ repWire' = repWire \cup {[ip |-> ip, mac |-> m]}
    /\ UNCHANGED <<table, queue, tpc, route, hpc, hrep, lastTx>>

\* A frame is lost.
LoseRequest ==
  /\ \E ip \in reqWire : reqWire' = reqWire \ {ip}
  /\ UNCHANGED <<table, queue, repWire, tpc, route, hpc, hrep, lastTx>>
LoseReply ==
  /\ \E r \in repWire : repWire' = repWire \ {r}
  /\ UNCHANGED <<table, queue, reqWire, tpc, route, hpc, hrep, lastTx>>

\* 500 ticks pass for a pending item: UNIX_TIME_PASSED(item->unixTime, 500).
TimerExpires(ip) ==
  /\ \E i \in ItemFor(ip) :
       /\ ~i.expired
       /\ queue' = (queue \ {i}) \cup {[i EXCEPT !.expired = TRUE]}
  /\ UNCHANGED <<table, reqWire, repWire, tpc, route, hpc, hrep, lastTx>>

-----------------------------------------------------------------------------
Init ==
  /\ table = {}
  /\ queue = {}
  /\ reqWire = {}
  /\ repWire = {}
  /\ tpc = [t \in Tasks |-> "idle"]
  /\ route = [t \in Tasks |-> None]
  /\ hpc = "idle"
  /\ hrep = None
  /\ lastTx = None

TaskStep(t) ==
  \/ \E d \in Dests : netIPv4Send(t, d)
  \/ netArpTableLookup(t)
  \/ netArpTranslateQueue(t)
  \/ netArpTranslateRequest(t)

IPs == Dests \cup {ServerIp}

Helper == (\E r \in Replies : netArpHandle(r)) \/ netArpHandleAdd

Link ==
  \/ \E ip \in IPs : HostAnswers(ip) \/ TimerExpires(ip)
  \/ LoseRequest
  \/ LoseReply

Next == (\E t \in Tasks : TaskStep(t)) \/ Helper \/ Link

Spec == Init /\ [][Next]_vars

\* The scheduler is preemptive, so every ready task and the helper keep
\* running; the clock keeps ticking.  The link may lose any frame, but a
\* request or reply sent again and again is eventually delivered.
Fairness ==
  /\ \A t \in Tasks : WF_vars(TaskStep(t))
  /\ WF_vars(netArpHandleAdd)
  /\ \A ip \in IPs : WF_vars(TimerExpires(ip)) /\ SF_vars(HostAnswers(ip))
  /\ \A r \in Replies : SF_vars(netArpHandle(r))

FairSpec == Spec /\ Fairness

-----------------------------------------------------------------------------
TypeOK ==
  /\ table \subseteq Entries
  /\ queue \subseteq [ip: Dests \cup {ServerIp}, expired: BOOLEAN]
  /\ reqWire \subseteq Dests \cup {ServerIp}
  /\ repWire \subseteq Replies
  /\ tpc \in [Tasks -> {"idle", "lookup", "queue", "request"}]
  /\ hpc \in {"idle", "add"}
  /\ hrep \in Replies \cup {None}

\* The ARP table holds at most one entry per IP and one per MAC, however
\* replies for IPs sharing a MAC, or MACs sharing an IP, interleave.
TableInjective ==
  \A e1, e2 \in table : e1 # e2 => e1.ip # e2.ip /\ e1.mac # e2.mac

\* Every netIPv4Send eventually transmits: the resolution loop ends.
SendCompletes == \A t \in Tasks : tpc[t] = "lookup" ~> tpc[t] = "idle"
=============================================================================
