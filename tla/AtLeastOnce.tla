---------------------------- MODULE AtLeastOnce ----------------------------
(***************************************************************************)
(* What a subscription promises, without cursor, leases, retry queue, ack  *)
(* ids or clocks: every message that arrives while it exists is ready,     *)
(* held by one consumer, or done, and once done it is never handed out     *)
(* again.  BackendProperties shows that each subscription of MemoryBackend *)
(* implements this.                                                        *)
(***************************************************************************)
EXTENDS Naturals

VARIABLES
  open,     \* whether the subscription (and the topic it reads) exists
  size,     \* messages its topic holds, numbered 1 .. size
  ready,    \* messages a consumer may get next
  held,     \* messages a consumer holds
  done,     \* messages acked, dead-lettered or filtered out
  dropped   \* messages lost to a late ack with exactly-once delivery

vars == <<open, size, ready, held, done, dropped>>

\* Ready is what follows the position the subscription reads from.
Fresh ==
  /\ open
  /\ ready \subseteq 1 .. size
  /\ \A p \in ready : p .. size \subseteq ready
  /\ held = {} /\ done = {} /\ dropped = {}

Closed == ~open /\ size = 0 /\ ready = {} /\ held = {} /\ done = {} /\ dropped = {}

Init == Fresh \/ Closed

\* Created, or moved to another position of the log by a seek.
Open == Fresh' /\ (open => size' = size)

Close == Closed'

Arrive ==
  /\ open
  /\ size' = size + 1
  /\ ready' = ready \cup {size + 1}
  /\ UNCHANGED <<open, held, done, dropped>>

Deliver(p) ==
  /\ p \in ready
  /\ ready' = ready \ {p}
  /\ held' = held \cup {p}
  /\ UNCHANGED <<open, size, done, dropped>>

\* Nacked, or not acked in time.
GiveBack(p) ==
  /\ p \in held
  /\ held' = held \ {p}
  /\ ready' = ready \cup {p}
  /\ UNCHANGED <<open, size, done, dropped>>

Acknowledge(p) ==
  /\ p \in held
  /\ held' = held \ {p}
  /\ done' = done \cup {p}
  /\ UNCHANGED <<open, size, ready, dropped>>

\* Rejected by the filter, or dead-lettered.
Retire(p) ==
  /\ p \in ready
  /\ ready' = ready \ {p}
  /\ done' = done \cup {p}
  /\ UNCHANGED <<open, size, held, dropped>>

\* Dead-lettered to the topic it came from.
Recycle(p) ==
  /\ p \in ready
  /\ size' = size + 1
  /\ ready' = (ready \ {p}) \cup {size + 1}
  /\ done' = done \cup {p}
  /\ UNCHANGED <<open, held, dropped>>

LateAck(p) ==
  /\ p \in held
  /\ held' = held \ {p}
  /\ dropped' = dropped \cup {p}
  /\ UNCHANGED <<open, size, ready, done>>

Next ==
  \/ Open \/ Close \/ Arrive
  \/ \E p \in 1 .. size :
       \/ Deliver(p) \/ GiveBack(p) \/ Acknowledge(p)
       \/ Retire(p) \/ Recycle(p) \/ LateAck(p)

Spec == Init /\ [][Next]_vars
=============================================================================
