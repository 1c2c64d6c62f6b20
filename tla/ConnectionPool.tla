--------------------------- MODULE ConnectionPool ---------------------------
(***************************************************************************)
(* What the accept thread and the pool of workers promise together, said   *)
(* without threads, flags, loops or scheduling: a client that is accepted  *)
(* is given to a worker that is free, or it is refused, and it is refused  *)
(* only after every worker was seen busy since it was accepted.  A worker  *)
(* keeps its connection until it closes it, and takes no other before.     *)
(* Where every worker was seen busy the server may also lose the client:   *)
(* it is neither closed nor given to a worker, and its address stays in    *)
(* use.  HttpServer implements this specification.                         *)
(***************************************************************************)
CONSTANTS Workers, Sockets, NoSocket

VARIABLES
  waiting,  \* the clients the listening socket holds back
  pending,  \* the client accepted and not yet given away, or NoSocket
  looked,   \* the workers seen busy since it was accepted
  busy,     \* the workers that take no connection
  conn,     \* the connection a worker holds, or NoSocket
  lost      \* the clients lost

vars == <<waiting, pending, looked, busy, conn, lost>>

Init ==
  /\ waiting = {}
  /\ pending = NoSocket
  /\ looked = {}
  /\ busy = {}
  /\ conn = [w \in Workers |-> NoSocket]
  /\ lost = {}

\* A client arrives at an address that nobody uses.
Arrive(s) ==
  /\ s \notin waiting /\ s # pending /\ s \notin lost
  /\ \A w \in Workers : conn[w] # s
  /\ waiting' = waiting \cup {s}
  /\ UNCHANGED <<pending, looked, busy, conn, lost>>

Take(s) ==
  /\ pending = NoSocket
  /\ s \in waiting
  /\ pending' = s
  /\ waiting' = waiting \ {s}
  /\ UNCHANGED <<looked, busy, conn, lost>>

Look(w) ==
  /\ pending # NoSocket
  /\ w \in busy
  /\ looked' = looked \cup {w}
  /\ UNCHANGED <<waiting, pending, busy, conn, lost>>

Assign(w) ==
  /\ pending # NoSocket
  /\ w \notin busy
  /\ conn' = [conn EXCEPT ![w] = pending]
  /\ busy' = busy \cup {w}
  /\ pending' = NoSocket
  /\ looked' = {}
  /\ UNCHANGED <<waiting, lost>>

Refuse ==
  /\ pending # NoSocket
  /\ looked = Workers
  /\ pending' = NoSocket
  /\ looked' = {}
  /\ UNCHANGED <<waiting, busy, conn, lost>>

Lose ==
  /\ pending # NoSocket
  /\ looked = Workers
  /\ lost' = lost \cup {pending}
  /\ pending' = NoSocket
  /\ looked' = {}
  /\ UNCHANGED <<waiting, busy, conn>>

Close(w) ==
  /\ conn[w] # NoSocket
  /\ conn' = [conn EXCEPT ![w] = NoSocket]
  /\ UNCHANGED <<waiting, pending, looked, busy, lost>>

Release(w) ==
  /\ w \in busy /\ conn[w] = NoSocket
  /\ busy' = busy \ {w}
  /\ UNCHANGED <<waiting, pending, looked, conn, lost>>

Next ==
  \/ \E s \in Sockets : Arrive(s) \/ Take(s)
  \/ \E w \in Workers : Look(w) \/ Assign(w) \/ Close(w) \/ Release(w)
  \/ Refuse \/ Lose

Spec == Init /\ [][Next]_vars
=============================================================================
