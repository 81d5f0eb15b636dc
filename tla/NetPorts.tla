------------------------------ MODULE NetPorts ------------------------------
(***************************************************************************)
(* The free-port bitmap of a NIC's UDP store (src/kernel/networking/stack/ *)
(* netports.c).  The bitmap is the set `ports` of allocated ports, the     *)
(* rotating cursor is `lastEphPort`.  The port space is scaled down: the   *)
(* code's 65536 ports are NETPORTS_AVAILABLE_PORTS, its ephemeral range    *)
(* starts at NETPORTS_EPH_START, and `rand() % 128` becomes a choice among *)
(* EPH_SEED_RANGE seeds.  The cursor is a uint16_t in the code, and 65536  *)
(* is exactly the size of the port space, so its wrap-around is modelled   *)
(* by `% NETPORTS_AVAILABLE_PORTS`.                                        *)
(***************************************************************************)
EXTENDS Integers, FiniteSetsExt

CONSTANTS
  NETPORTS_AVAILABLE_PORTS, \* size of the port space (and of the cursor's range)
  NETPORTS_EPH_START,       \* first ephemeral port
  EPH_SEED_RANGE            \* number of values rand() % 128 can take

ASSUME /\ NETPORTS_EPH_START > 8
       /\ NETPORTS_EPH_START + EPH_SEED_RANGE <= NETPORTS_AVAILABLE_PORTS
       /\ EPH_SEED_RANGE >= 1

VARIABLES
  ports,        \* the bitmap: the set of allocated ports
  lastEphPort,  \* the last ephemeral port issued (uint16_t cursor)
  genAsserted   \* netPortsGen hit `assert(false)`: no free ephemeral port

portVars == <<ports, lastEphPort, genAsserted>>

PortSpace == 0 .. NETPORTS_AVAILABLE_PORTS - 1
EphRange == NETPORTS_EPH_START .. NETPORTS_AVAILABLE_PORTS - 1
Seeds == 0 .. EPH_SEED_RANGE - 1
NoPort == -1

\* netUdpStoreInit writes 0xff into the first bitmap byte: ports 0..7.
ReservedBlock == 0 .. 7

netUdpStoreInitPorts ==
  /\ ports = ReservedBlock
  /\ lastEphPort = 0
  /\ genAsserted = FALSE

\* The lowest free port of lo..hi, scanning upwards as both loops do.
FirstFree(lo, hi) ==
  LET free == {i \in lo .. hi : i \notin ports}
  IN  IF free = {} THEN NoPort ELSE Min(free)

\* netPortsGen, before the scan: increment the uint16_t cursor and reseed it
\* into the ephemeral range when it fell below it.
GenCursorNoReseed(seed) == (lastEphPort + 1) % NETPORTS_AVAILABLE_PORTS
GenCursorNoWrap(seed) ==
  LET c == lastEphPort + 1
  IN  IF c < NETPORTS_EPH_START THEN NETPORTS_EPH_START + seed ELSE c
GenCursor(seed) ==
  LET c == (lastEphPort + 1) % NETPORTS_AVAILABLE_PORTS
  IN  IF c < NETPORTS_EPH_START THEN NETPORTS_EPH_START + seed ELSE c

\* The two scans of netPortsGen: from the cursor to the top of the space,
\* then from the start of the ephemeral range up to the cursor.
GenPickShortWrap(cur) ==
  LET up == FirstFree(cur, NETPORTS_AVAILABLE_PORTS - 1)
  IN  IF up # NoPort THEN up ELSE FirstFree(NETPORTS_EPH_START, cur - 2)
GenPick(cur) ==
  LET up == FirstFree(cur, NETPORTS_AVAILABLE_PORTS - 1)
  IN  IF up # NoPort THEN up ELSE FirstFree(NETPORTS_EPH_START, cur - 1)

\* netPortsGen / netPortsGenInner when a free port p is found.
netPortsGen(p) ==
  \E seed \in Seeds :
    /\ GenPick(GenCursor(seed)) = p
    /\ p # NoPort
    /\ ports' = ports \cup {p}
    /\ lastEphPort' = p

\* netPortsGen when both scans fail: the cursor was advanced, then
\* `assert(false)` halts the kernel.
netPortsGenExhausted ==
  \E seed \in Seeds :
    /\ GenPick(GenCursor(seed)) = NoPort
    /\ lastEphPort' = GenCursor(seed)
    /\ genAsserted' = TRUE
    /\ UNCHANGED ports

\* netPortsMarkSafe: test-and-set; ok is its return value.
netPortsMarkSafe(p, ok) ==
  /\ ok = (p \notin ports)
  /\ ports' = ports \cup {p}
  /\ UNCHANGED lastEphPort

\* netPortsFree: both asserts (port nonzero, port allocated) are the
\* caller's contract and appear as guards.
netPortsFree(p) ==
  /\ p # 0
  /\ p \in ports
  /\ ports' = ports \ {p}
  /\ UNCHANGED lastEphPort

\* netPortsIsAllocated: ports below 8 report *not* allocated.
netPortsIsAllocated(p) == IF p < 8 THEN FALSE ELSE p \in ports

-----------------------------------------------------------------------------
(* The allocator on its own: callers generate, claim and free ports in any *)
(* order, freeing only ports they hold (never the reserved block).         *)

Init == netUdpStoreInitPorts

Next ==
  /\ ~genAsserted
  /\ \/ netPortsGenExhausted
     \/ /\ \/ \E p \in PortSpace : netPortsGen(p)
           \/ \E p \in PortSpace, ok \in BOOLEAN : netPortsMarkSafe(p, ok)
           \/ \E p \in ports \ ReservedBlock : netPortsFree(p)
        /\ UNCHANGED genAsserted

Spec == Init /\ [][Next]_portVars

-----------------------------------------------------------------------------
TypeOK ==
  /\ ports \subseteq PortSpace
  /\ lastEphPort \in PortSpace
  /\ genAsserted \in BOOLEAN

\* The ports a scan starting at the cursor c passes before reaching p,
\* walking the ephemeral range as a ring.  Reference definition of the
\* rotation the two loops of netPortsGen implement.
RECURSIVE RingBefore(_, _)
RingBefore(c, p) ==
  IF c = p THEN {}
  ELSE {c} \cup RingBefore(IF c = NETPORTS_AVAILABLE_PORTS - 1
                           THEN NETPORTS_EPH_START ELSE c + 1, p)

\* A port netPortsGen hands out is an ephemeral port that was free, and
\* every port the rotation passed from the cursor to it was already taken:
\* the cursor wrap at 65536, the reseed and the two scans never skip a free
\* port nor leave the ephemeral range.
GenIssuesNextFreeEphemeral ==
  [][ (lastEphPort' # lastEphPort /\ ports' # ports /\ ~genAsserted') =>
        /\ lastEphPort' \in EphRange
        /\ lastEphPort' \notin ports
        /\ \E c \in IF lastEphPort + 1 \in EphRange
                     THEN {lastEphPort + 1}
                     ELSE NETPORTS_EPH_START .. NETPORTS_EPH_START + EPH_SEED_RANGE - 1 :
             RingBefore(c, lastEphPort') \subseteq ports
    ]_portVars

\* netPortsGen reaches `assert(false)` only when every ephemeral port is
\* allocated.
GenAssertsOnlyWhenExhausted ==
  [][ (~genAsserted /\ genAsserted') => EphRange \subseteq ports ]_portVars

=============================================================================
