------------------------------ MODULE UdpQueue ------------------------------
(***************************************************************************)
(* What a UDP connection promises its readers (spec.md, section 4.7 and  *)
(* the scheduling model): it owns an ordered queue of received datagrams  *)
(* from the moment a bind, connect or send creates it until the last close *)
(* destroys it.  A datagram is appended at the back, a receive dequeues   *)
(* the oldest, and nothing else reorders, duplicates or removes one while *)
(* the connection lives.  UdpStack's connection of each socket is shown   *)
(* to implement it.                                                        *)
(***************************************************************************)
EXTENDS Sequences

CONSTANT Msgs       \* datagrams, as the connection buffers them

VARIABLES
  open,             \* the connection exists
  q                 \* its buffered datagrams, oldest first

queueVars == <<open, q>>

QInit == ~open /\ q = <<>>

\* bind, connect or an automatic bind creates the connection, empty.
Create == ~open /\ open' = TRUE /\ UNCHANGED q

\* An accepted datagram joins the back of the queue.
Enqueue(m) == open /\ q' = Append(q, m) /\ UNCHANGED open

\* A receive takes the oldest datagram.
Dequeue == open /\ q # <<>> /\ q' = Tail(q) /\ UNCHANGED open

\* The last close destroys the connection and what it buffered.
Destroy == open /\ open' = FALSE /\ q' = <<>>

QNext == Create \/ (\E m \in Msgs : Enqueue(m)) \/ Dequeue \/ Destroy

QueueSpec == QInit /\ [][QNext]_queueVars
=============================================================================
