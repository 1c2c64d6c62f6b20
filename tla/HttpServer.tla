----------------------------- MODULE HttpServer -----------------------------
(***************************************************************************)
(* The server: the accept thread HttpServer::main() of                     *)
(* source/HttpServer.cpp composed with the pool of workers of              *)
(* ClientConnection.                                                       *)
(*                                                                         *)
(* Scheduling is part of the design.  The accept thread runs at            *)
(* osPriorityNormal (HttpServer.cpp:27), the workers at                    *)
(* osPriorityAboveNormal (ClientConnection.cpp:77), on one core: a step of *)
(* the accept thread happens only while every worker is blocked, and any   *)
(* worker may preempt it between two steps.  Workers have equal priority   *)
(* and are time-sliced, so their steps interleave freely.                  *)
(***************************************************************************)
EXTENDS ClientConnection, FiniteSets

CONSTANT PastEnd  \* what isIdle() read through end() yields in this build

ASSUME PastEndAssumption == PastEnd \subseteq BOOLEAN

VARIABLES
  mainPc,   \* "accept" or "scan"
  it,       \* the iterator; NWorkers + 1 is end()
  cltSock,  \* clt_sock
  lost      \* history: connections given to start() on no ClientConnection

mainVars == <<mainPc, it, cltSock, lost>>
vars == <<connVars, mainVars>>

TypeOK ==
  /\ ConnTypeOK
  /\ mainPc \in {"accept", "scan"}
  /\ it \in 1..(NWorkers + 1)
  /\ cltSock \in IF mainPc = "scan" THEN Sockets ELSE {NoSocket}
  /\ lost \subseteq Sockets

Init ==
  /\ ConnInit
  /\ mainPc = "accept"
  /\ it = 1
  /\ cltSock = NoSocket
  /\ lost = {}

-----------------------------------------------------------------------------
(* HttpServer::main().                                                     *)

\* Mutant: the accept thread has the priority of the workers.
MainRunsAnyTime == TRUE

\* The accept thread has the processor.
MainMayRun == \A w \in Workers : Blocked(w)

\* The end of the loop's body: the scope of it and clt_sock ends.
NextAccept ==
  /\ mainPc' = "accept"
  /\ it' = 1
  /\ cltSock' = NoSocket

\* _serverSocket->accept() returns the connection s.
Accept(s) ==
  /\ mainPc = "accept" /\ MainMayRun
  /\ sock[s] = "queued"
  /\ sock' = [sock EXCEPT ![s] = "open"]
  /\ cltSock' = s
  /\ mainPc' = "scan"
  /\ UNCHANGED <<pc, slotVars, loopVars, wsVars, timerVars, countVars, peer,
                 it, lost>>

\* The worker at the iterator is busy: it++.
ScanBusy ==
  /\ mainPc = "scan" /\ MainMayRun
  /\ it \in Workers /\ socketIsOpen[it]
  /\ it' = it + 1
  /\ UNCHANGED <<connVars, mainPc, cltSock, lost>>

\* Mutant: the busy worker before the iterator gets the connection.
ScanIdleOffByOne ==
  /\ mainPc = "scan" /\ MainMayRun
  /\ it \in Workers /\ ~socketIsOpen[it]
  /\ StartConnection(IF it = 1 THEN it ELSE it - 1, cltSock)
  /\ NextAccept
  /\ UNCHANGED lost

\* The worker at the iterator is idle.  Nobody but this thread makes it
\* busy, so the loop's test, the test after it and start() see the same.
ScanIdle ==
  /\ mainPc = "scan" /\ MainMayRun
  /\ it \in Workers /\ ~socketIsOpen[it]
  /\ StartConnection(it, cltSock)
  /\ NextAccept
  /\ UNCHANGED lost

\* Mutant: the loop goes on beyond end().
ScanRefuseAdvances ==
  /\ mainPc = "scan" /\ MainMayRun
  /\ it = NWorkers + 1
  /\ it' = it + 1
  /\ UNCHANGED <<connVars, mainPc, cltSock, lost>>

\* The iterator is end(): the loop evaluates (*it)->isIdle() before it
\* compares with end(), and the test after the loop does so again.  The read
\* yields false: no idle connection, the client is refused.
ScanRefuse ==
  /\ mainPc = "scan" /\ MainMayRun
  /\ it = NWorkers + 1
  /\ FALSE \in PastEnd
  /\ FreeSocket(cltSock)
  /\ NextAccept
  /\ UNCHANGED <<pc, slotVars, loopVars, wsVars, timerVars, countVars, lost>>

\* The read yields true: start() is called on what is no ClientConnection,
\* and the loop goes on with the next accept().
ScanWild ==
  /\ mainPc = "scan" /\ MainMayRun
  /\ it = NWorkers + 1
  /\ TRUE \in PastEnd
  /\ lost' = lost \cup {cltSock}
  /\ NextAccept
  /\ UNCHANGED connVars

MainStep ==
  \/ \E s \in Sockets : Accept(s)
  \/ ScanBusy \/ ScanIdle \/ ScanRefuse \/ ScanWild

-----------------------------------------------------------------------------

Backlog == {s \in Sockets : sock[s] = "queued"}

\* _serverSocket->listen(_nWorkerThreads)
Connect(s) == Cardinality(Backlog) < NWorkers /\ ClientConnects(s)

Next ==
  \/ MainStep
  \/ \E w \in Workers :
       /\ WorkerStep(w) \/ WorkerReceives(w) \/ TimerExpires(w)
       /\ UNCHANGED mainVars
  \/ \E s \in Sockets :
       /\ Connect(s) \/ ClientLeaves(s)
       /\ UNCHANGED mainVars

Spec == Init /\ [][Next]_vars

-----------------------------------------------------------------------------
(* Safety.                                                                 *)

\* The accept thread starts a connection only on a worker whose thread is
\* back in flags_wait_any() with no flag pending and whose previous
\* connection left no websocket behind; the thread is woken by it
\* (HttpServer.cpp:87, ClientConnection.cpp:91-99).  Rests on the priorities
\* and on _socketIsOpen = false being the last thing a worker does.
Handoff ==
  [][\A w \in Workers :
       ~socketIsOpen[w] /\ socketIsOpen'[w] =>
         At(w, "flags_wait") /\ ~flag[w] /\ ~isWebSocket[w] /\ flag'[w]]_vars

\* Worker w holds connection s until its close() returned; the accept thread
\* holds it from accept() to start() or close().
Serving(w) == socketIsOpen[w] /\ pc[w] # "closed"
Serves(w, s) == Serving(w) /\ socket[w] = s
Accepted(s) == mainPc = "scan" /\ cltSock = s

\* Every connection the server accepted is held by exactly one thread until
\* it is closed: none is used after its close() or shared, although addresses
\* of closed sockets are used again (ClientConnection.cpp:171), and none is
\* leaked but those that start() was given outside the pool.
OneOwner ==
  \A s \in Sockets :
    /\ sock[s] = "open" =>
         Accepted(s) \/ s \in lost \/ \E w \in Workers : Serves(w, s)
    /\ Accepted(s) =>
         sock[s] = "open" /\ s \notin lost /\ \A w \in Workers : ~Serves(w, s)
    /\ s \in lost => sock[s] = "open" /\ \A w \in Workers : ~Serves(w, s)
    /\ \A w \in Workers : Serves(w, s) =>
         /\ sock[s] = "open"
         /\ \A u \in Workers : Serves(u, s) => u = w

\* Where receiveData() hands a frame to the handler or says goodbye to it
\* (ClientConnection.cpp:134, 165), the handler is the one that this
\* connection's upgrade created and has not been deleted.
LiveHandler ==
  \A w \in Workers :
    isWebSocket[w] /\ pc[w] \notin Incrementing =>
      wsHandler[w] = "live"

\* The watchdog that may close a websocket (ClientConnection.cpp:163) was
\* reset after this connection's upgrade: a timer left running by an earlier
\* connection of the same worker never closes it.
FreshWatchdog ==
  \A w \in Workers : At(w, "check") /\ isWebSocket[w] => armed[w]

WebSockets == {w \in Workers : isWebSocket[w]}

\* As long as no two workers were between a read of _nWebSockets and the store
\* that rests on it at the same time, the counter is the number of websockets
\* whenever nobody is at it, and there are never more than the maximum
\* (HttpServer.h:72-84), whichever upgrades were refused or failed
\* (ClientConnection.cpp:225-229).
CountIsExact ==
  ~raced =>
    /\ (\A w \in Workers : pc[w] \notin Counting) =>
         nWebSockets = Cardinality(WebSockets)
    /\ Cardinality(WebSockets) <= WsMax

\* A worker with a connection never sleeps without a flag that wakes it
\* (ClientConnection.cpp:98, 117); recv() does not return WOULD_BLOCK.
NoLostWakeup ==
  \A w \in Workers : socketIsOpen[w] /\ At(w, "flags_wait") => flag[w]

\* The server implements ConnectionPool: what the accept loop and the
\* workers do to the connections is what that specification allows.
Pool ==
  INSTANCE ConnectionPool
    WITH waiting <- Backlog,
         pending <- cltSock,
         looked <- 1..(it - 1),
         busy <- {w \in Workers : socketIsOpen[w]},
         conn <- [w \in Workers |->
                    IF Serving(w) THEN socket[w] ELSE NoSocket],
         lost <- lost

PoolSpec == Pool!Spec

-----------------------------------------------------------------------------
(* Liveness.  Workers are time-sliced and their calls return; timers run;  *)
(* the accept thread runs when the workers leave it the processor.         *)

Fairness ==
  /\ \A w \in Workers : WF_vars(WorkerStep(w) /\ UNCHANGED mainVars)
  /\ \A w \in Workers : WF_vars(TimerExpires(w) /\ UNCHANGED mainVars)
  /\ SF_vars(MainStep)

FairSpec == Spec /\ Fairness

Reading(w, end) == socketIsOpen[w] /\ peer[socket[w]] = end

\* The worker of a connection that its client closed becomes idle again,
\* whatever the worker is doing when the client closes.
ClosedIsReleased ==
  \A w \in Workers : Reading(w, "eof") ~> ~socketIsOpen[w]

\* The worker of a websocket whose connection broke becomes idle again: the
\* watchdog closes it (ClientConnection.cpp:163).
LostWebSocketIsReleased ==
  \A w \in Workers :
    Reading(w, "lost") /\ isWebSocket[w] ~> ~socketIsOpen[w]

-----------------------------------------------------------------------------
(* What the comments say of the program, and the code does not do.         *)

\* HttpServer.cpp:91: "no idle connections, close".
OverloadCloses == lost = {}

\* ClientConnection.cpp:167: "websocket was closed, decrement websocket
\* count".  The count is the number of open websockets, but for those whose
\* increment or decrement is under way.
WebSocketsCounted ==
  (\A w \in Workers : pc[w] \notin Counting) =>
    nWebSockets = Cardinality(WebSockets)

\* ClientConnection.cpp:161: "check for connection close".  A connection
\* that is over, closed by the client or broken, is closed here too.
OverIsReleased ==
  \A w \in Workers : Reading(w, "lost") ~> ~socketIsOpen[w]
=============================================================================
