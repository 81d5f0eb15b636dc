------------------------------- MODULE RxFifo -------------------------------
(***************************************************************************)
(* What the receive ring promises, as an abstract specification: a FIFO   *)
(* of at most Capacity frames between the NIC driver and the helper.  The  *)
(* driver puts a frame when there is room; the helper takes the oldest one *)
(* and records it as delivered.  NetRx's ring of slots and two indices is  *)
(* shown to implement it.                                                  *)
(***************************************************************************)
EXTENDS Naturals, Sequences

CONSTANTS
  Capacity,   \* frames the queue holds at most
  Msgs        \* frames

VARIABLES
  q,          \* the frames queued, oldest first
  out         \* the frames taken, in the order they were taken

fifoVars == <<q, out>>

FifoInit ==
  /\ q = <<>>
  /\ out = <<>>

\* The driver queues m.
Put(m) ==
  /\ Len(q) < Capacity
  /\ q' = Append(q, m)
  /\ UNCHANGED out

\* The helper takes the oldest frame.
Take ==
  /\ q # <<>>
  /\ q' = Tail(q)
  /\ out' = Append(out, Head(q))

FifoNext == (\E m \in Msgs : Put(m)) \/ Take

\* Every frame put is eventually taken.
FifoSpec == FifoInit /\ [][FifoNext]_fifoVars /\ WF_fifoVars(Take)
=============================================================================
