-------------------------- MODULE ClientConnection --------------------------
(***************************************************************************)
(* The worker threads of the server: ClientConnection::receiveData() of    *)
(* source/ClientConnection.cpp, with the calls it makes.  Every worker     *)
(* owns one ClientConnection object and runs the same endless loop: wait   *)
(* for the accept thread's flag, serve one connection, close it.           *)
(*                                                                         *)
(* A pc value names the statement the thread executes next.  Statements    *)
(* that touch only the thread's own data are merged with the one before;   *)
(* accesses to the shared counter _nWebSockets, calls that may block and   *)
(* the assignments the accept thread looks at are steps of their own.      *)
(* What a request or a frame says is a nondeterministic choice here.       *)
(***************************************************************************)
EXTENDS Integers

CONSTANTS NWorkers,          \* HttpServer::_nWorkerThreads
          WsMax,             \* HttpServer::_nWebSocketsMax
          WsFloor,           \* bound: no upgrade once the counter is below it
          Sockets,           \* addresses of the TCPSocket objects of accept()
          NoSocket,          \* an uninitialised _socket pointer
          RecvMayWouldBlock, \* whether recv() may return WOULD_BLOCK
          Ends               \* bound: how connections end, "eof" or "lost"

ASSUME NWorkersAssumption == NWorkers \in Nat \ {0}
ASSUME WsMaxAssumption == WsMax \in Nat /\ WsFloor \in Int
ASSUME SocketsAssumption == NoSocket \notin Sockets
ASSUME WouldBlockAssumption == RecvMayWouldBlock \in BOOLEAN
ASSUME EndsAssumption == Ends \subseteq {"eof", "lost"}

Workers == 1..NWorkers

VARIABLES
  pc,              \* the statement each worker executes next
  socketIsOpen,    \* _socketIsOpen, read by the accept thread as !isIdle()
  socket,          \* _socket
  flag,            \* thread flag 0x01 is pending
  recvRet,         \* recv_ret: "data" (> 0), "zero" or "error" (< 0)
  closeRequest,    \* _closeRequest, a local of receiveData()
  wsCloseRequest,  \* _wsCloseRequest, likewise
  isWebSocket,     \* _isWebSocket
  wsHandler,       \* what _webSocketHandler points to
  timer,           \* _timerWSTimeout; "expired" is elapsed_time() > 20s
  armed,           \* history: the timer was reset since this upgrade
  nWebSockets,     \* HttpServer::_nWebSockets
  reg,             \* the register an increment or decrement works in
  raced,           \* history: two workers were at the counter at the same time
  sock,            \* external: what the address holds
  peer             \* external: what recv() finds at the end of the stream

slotVars  == <<socketIsOpen, socket, flag>>
loopVars  == <<recvRet, closeRequest, wsCloseRequest>>
wsVars    == <<isWebSocket, wsHandler>>
timerVars == <<timer, armed>>
countVars == <<nWebSockets, reg, raced>>
netVars   == <<sock, peer>>
connVars  == <<pc, slotVars, loopVars, wsVars, timerVars, countVars, netVars>>

\* pc values at which the thread is inside a call that may block: a callback
\* of the application, a send() or a close() on the socket.
BlockingCalls == {"http", "ws", "respond", "open", "onClose", "close"}

PCs == BlockingCalls \cup
       {"flags_wait", "loop", "recv", "upgrade", "incTest", "incLoad", "incStore",
        "check", "decStore", "closed"}

\* pc values between the first read of the counter and the store that rests
\* on it: isWebsocketAvailable() to the end of incWebsocketCount(), and
\* decWebsocketCount().
Incrementing == {"respond", "incTest", "incLoad", "incStore"}
Counting == Incrementing \cup {"decStore"}

ConnTypeOK ==
  /\ pc \in [Workers -> PCs]
  /\ socketIsOpen \in [Workers -> BOOLEAN]
  /\ socket \in [Workers -> Sockets \cup {NoSocket}]
  /\ flag \in [Workers -> BOOLEAN]
  /\ recvRet \in [Workers -> {"data", "zero", "error"}]
  /\ closeRequest \in [Workers -> BOOLEAN]
  /\ wsCloseRequest \in [Workers -> BOOLEAN]
  /\ isWebSocket \in [Workers -> BOOLEAN]
  /\ wsHandler \in [Workers -> {"null", "live", "deleted"}]
  /\ timer \in [Workers -> {"stopped", "running", "expired"}]
  /\ armed \in [Workers -> BOOLEAN]
  /\ nWebSockets \in Int
  /\ reg \in [Workers -> Int]
  /\ raced \in BOOLEAN
  /\ sock \in [Sockets -> {"free", "queued", "open"}]
  /\ peer \in [Sockets -> {"up", "eof", "lost"}]

\* The constructor starts the thread, which runs into flags_wait_any().
ConnInit ==
  /\ pc = [w \in Workers |-> "flags_wait"]
  /\ socketIsOpen = [w \in Workers |-> FALSE]
  /\ socket = [w \in Workers |-> NoSocket]
  /\ flag = [w \in Workers |-> FALSE]
  /\ recvRet = [w \in Workers |-> "data"]
  /\ closeRequest = [w \in Workers |-> FALSE]
  /\ wsCloseRequest = [w \in Workers |-> FALSE]
  /\ isWebSocket = [w \in Workers |-> FALSE]
  /\ wsHandler = [w \in Workers |-> "null"]
  /\ timer = [w \in Workers |-> "stopped"]
  /\ armed = [w \in Workers |-> FALSE]
  /\ nWebSockets = 0
  /\ reg = [w \in Workers |-> 0]
  /\ raced = FALSE
  /\ sock = [s \in Sockets |-> "free"]
  /\ peer = [s \in Sockets |-> "up"]

-----------------------------------------------------------------------------
(* Helpers.                                                                *)

Goto(w, label) == pc' = [pc EXCEPT ![w] = label]

At(w, label) == pc[w] = label

\* _timerWSTimeout.reset(), with start() where the code starts it.
ResetTimer(w) ==
  /\ timer' = [timer EXCEPT ![w] = "running"]
  /\ armed' = [armed EXCEPT ![w] = isWebSocket[w]]

\* Worker w begins to read and write the counter.
EnterCounting(w) ==
  raced' = (raced \/ \E u \in Workers \ {w} : pc[u] \in Counting)

\* The stack releases the socket; what its stream held is gone.
FreeSocket(s) ==
  /\ sock' = [sock EXCEPT ![s] = "free"]
  /\ peer' = [peer EXCEPT ![s] = "up"]

\* The thread does not want the processor.  A recv() on a connection that
\* is still up blocks as long as the client is silent; one on a finished or
\* broken connection returns at once.
Blocked(w) ==
  \/ At(w, "flags_wait") /\ ~flag[w]
  \/ At(w, "recv") /\ peer[socket[w]] = "up"
  \/ pc[w] \in BlockingCalls

-----------------------------------------------------------------------------
(* start(), called by the accept thread on an idle worker.  Clearing the   *)
(* parser and the request belongs to the modules of the request.           *)

\* Mutant: the thread is not woken.
StartConnectionNoFlag(w, s) ==
  /\ socketIsOpen' = [socketIsOpen EXCEPT ![w] = TRUE]
  /\ socket' = [socket EXCEPT ![w] = s]
  /\ wsHandler' = [wsHandler EXCEPT ![w] = "null"]
  /\ UNCHANGED <<pc, flag, loopVars, isWebSocket, timerVars, countVars, netVars>>

StartConnection(w, s) ==
  /\ socketIsOpen' = [socketIsOpen EXCEPT ![w] = TRUE]
  /\ socket' = [socket EXCEPT ![w] = s]
  /\ wsHandler' = [wsHandler EXCEPT ![w] = "null"]
  /\ flag' = [flag EXCEPT ![w] = TRUE]
  /\ UNCHANGED <<pc, loopVars, isWebSocket, timerVars, countVars, netVars>>

-----------------------------------------------------------------------------
(* receiveData(): the outer loop and the receive call.                     *)

\* ThisThread::flags_wait_any(0x01) clears the flag; the locals are reset.
FlagsWait(w) ==
  /\ At(w, "flags_wait") /\ flag[w]
  /\ flag' = [flag EXCEPT ![w] = FALSE]
  /\ closeRequest' = [closeRequest EXCEPT ![w] = FALSE]
  /\ wsCloseRequest' = [wsCloseRequest EXCEPT ![w] = FALSE]
  /\ Goto(w, "loop")
  /\ UNCHANGED <<socketIsOpen, socket, recvRet, wsVars, timerVars, countVars,
                 netVars>>

\* while(_socketIsOpen)
LoopTest(w) ==
  /\ At(w, "loop")
  /\ Goto(w, IF socketIsOpen[w] THEN "recv" ELSE "flags_wait")
  /\ UNCHANGED <<slotVars, loopVars, wsVars, timerVars, countVars, netVars>>

\* recv() returns bytes of a connection that is not a websocket: a part of
\* a request, a request for an HTTP handler, or an upgrade request.
RecvHttp(w) ==
  /\ At(w, "recv") /\ peer[socket[w]] = "up" /\ ~isWebSocket[w]
  /\ recvRet' = [recvRet EXCEPT ![w] = "data"]
  /\ \/ Goto(w, "check")
     \/ Goto(w, "http")
     \/ nWebSockets >= WsFloor /\ Goto(w, "upgrade")
  /\ UNCHANGED <<slotVars, closeRequest, wsCloseRequest, wsVars, timerVars,
                 countVars, netVars>>

\* recv() returns a frame: the watchdog is reset, handleWebSocket() reports
\* whether the frame asks for closing.
RecvWs(w) ==
  /\ At(w, "recv") /\ peer[socket[w]] = "up" /\ isWebSocket[w]
  /\ recvRet' = [recvRet EXCEPT ![w] = "data"]
  /\ ResetTimer(w)
  /\ \E close \in BOOLEAN :
       /\ wsCloseRequest' = [wsCloseRequest EXCEPT ![w] = close]
       /\ Goto(w, IF close THEN "check" ELSE "ws")
  /\ UNCHANGED <<slotVars, closeRequest, wsVars, countVars, netVars>>

\* recv() returns 0 after the client closed, an error after a failure.
RecvEnd(w) ==
  /\ At(w, "recv") /\ peer[socket[w]] # "up"
  /\ recvRet' = [recvRet EXCEPT ![w] =
                   IF peer[socket[w]] = "eof" THEN "zero" ELSE "error"]
  /\ Goto(w, "check")
  /\ UNCHANGED <<slotVars, closeRequest, wsCloseRequest, wsVars, timerVars,
                 countVars, netVars>>

\* NSAPI_ERROR_WOULD_BLOCK: sleep, then break out of the inner loop.
RecvWouldBlock(w) ==
  /\ RecvMayWouldBlock
  /\ At(w, "recv") /\ peer[socket[w]] = "up"
  /\ Goto(w, "flags_wait")
  /\ UNCHANGED <<slotVars, loopVars, wsVars, timerVars, countVars, netVars>>

\* The HTTP handler returns; then the "Connection" header is looked at.
HttpHandlerReturns(w) ==
  /\ At(w, "http")
  /\ \E close \in BOOLEAN :
       closeRequest' = [closeRequest EXCEPT ![w] = @ \/ close]
  /\ Goto(w, "check")
  /\ UNCHANGED <<slotVars, recvRet, wsCloseRequest, wsVars, timerVars,
                 countVars, netVars>>

\* onMessage(), or the send() that answers a ping, returns.
WsHandlerReturns(w) ==
  /\ At(w, "ws")
  /\ Goto(w, "check")
  /\ UNCHANGED <<slotVars, loopVars, wsVars, timerVars, countVars, netVars>>

-----------------------------------------------------------------------------
(* handleUpgradeRequest().  Whatever its outcome, the caller then resets   *)
(* and starts the watchdog.                                                *)

\* Mutant: isWebsocketAvailable() is not asked.
UpgradeAcceptedAlways(w) ==
  /\ At(w, "upgrade")
  /\ EnterCounting(w)
  /\ Goto(w, "respond")
  /\ UNCHANGED <<slotVars, loopVars, wsVars, timerVars, nWebSockets, reg,
                 netVars>>

\* The headers are there and a handler exists, isWebsocketAvailable(): the
\* response is sent.
UpgradeAccepted(w) ==
  /\ At(w, "upgrade")
  /\ nWebSockets < WsMax
  /\ EnterCounting(w)
  /\ Goto(w, "respond")
  /\ UNCHANGED <<slotVars, loopVars, wsVars, timerVars, nWebSockets, reg,
                 netVars>>

\* One of these conditions does not hold: nothing is answered.
UpgradeRefused(w) ==
  /\ At(w, "upgrade")
  /\ Goto(w, "check")
  /\ ResetTimer(w)
  /\ UNCHANGED <<slotVars, loopVars, wsVars, countVars, netVars>>

\* _isWebSocket = true; incWebsocketCount() is called.
UpgradeSent(w) ==
  /\ At(w, "respond")
  /\ isWebSocket' = [isWebSocket EXCEPT ![w] = TRUE]
  /\ Goto(w, "incTest")
  /\ UNCHANGED <<slotVars, loopVars, wsHandler, timerVars, countVars, netVars>>

\* sendUpgradeResponse() fails: _isWebSocket stays false.
UpgradeFailed(w) ==
  /\ At(w, "respond")
  /\ Goto(w, "check")
  /\ ResetTimer(w)
  /\ UNCHANGED <<slotVars, loopVars, wsVars, countVars, netVars>>

\* After incWebsocketCount(), whose result is ignored: createFn() and
\* setOrigin(); onOpen() is called.
CreateHandler(w) ==
  /\ wsHandler' = [wsHandler EXCEPT ![w] = "live"]
  /\ Goto(w, "open")

\* incWebsocketCount(): the test.  Another worker may run before the load of
\* the increment, and between that and its store.
IncTest(w) ==
  /\ At(w, "incTest")
  /\ IF nWebSockets < WsMax
       THEN Goto(w, "incLoad") /\ UNCHANGED wsHandler
       ELSE CreateHandler(w)
  /\ UNCHANGED <<slotVars, loopVars, isWebSocket, timerVars, countVars, netVars>>

IncLoad(w) ==
  /\ At(w, "incLoad")
  /\ reg' = [reg EXCEPT ![w] = nWebSockets]
  /\ Goto(w, "incStore")
  /\ UNCHANGED <<slotVars, loopVars, wsVars, timerVars, nWebSockets, raced,
                 netVars>>

IncStore(w) ==
  /\ At(w, "incStore")
  /\ nWebSockets' = reg[w] + 1
  /\ reg' = [reg EXCEPT ![w] = 0]
  /\ CreateHandler(w)
  /\ UNCHANGED <<slotVars, loopVars, isWebSocket, timerVars, raced, netVars>>

\* Mutant: the watchdog is not reset after the upgrade.
OnOpenNoReset(w) ==
  /\ At(w, "open")
  /\ Goto(w, "check")
  /\ UNCHANGED <<slotVars, loopVars, wsVars, timerVars, countVars, netVars>>

\* onOpen() returns; back in receiveData() the watchdog is reset.
OnOpen(w) ==
  /\ At(w, "open")
  /\ Goto(w, "check")
  /\ ResetTimer(w)
  /\ UNCHANGED <<slotVars, loopVars, wsVars, countVars, netVars>>

-----------------------------------------------------------------------------
(* receiveData(): "check for connection close".                            *)

\* Mutants: the watchdog, or the end of the stream, is not looked at.
WsMustCloseNoWatchdog(w) == wsCloseRequest[w] \/ recvRet[w] = "zero"
HttpMustCloseOnRequest(w) == closeRequest[w]

WsMustClose(w) ==
  wsCloseRequest[w] \/ recvRet[w] = "zero" \/ timer[w] = "expired"

HttpMustClose(w) ==
  recvRet[w] = "zero" \/ closeRequest[w]

\* The scope of recv_ret ends with the branch: its value is forgotten.
CheckClose(w) ==
  /\ At(w, "check")
  /\ Goto(w, IF isWebSocket[w]
               THEN IF WsMustClose(w) THEN "onClose" ELSE "loop"
               ELSE IF HttpMustClose(w) THEN "close" ELSE "loop")
  /\ recvRet' = [recvRet EXCEPT ![w] = "data"]
  /\ UNCHANGED <<slotVars, closeRequest, wsCloseRequest, wsVars, timerVars,
                 countVars, netVars>>

\* _webSocketHandler->onClose() and sendFrame(WSop_close) return; the load of
\* decWebsocketCount().
OnClose(w) ==
  /\ At(w, "onClose")
  /\ reg' = [reg EXCEPT ![w] = nWebSockets]
  /\ EnterCounting(w)
  /\ Goto(w, "decStore")
  /\ UNCHANGED <<slotVars, loopVars, wsVars, timerVars, nWebSockets, netVars>>

\* Mutant: _isWebSocket stays true for the next connection.
DecStoreKeepsWebSocket(w) ==
  /\ At(w, "decStore")
  /\ nWebSockets' = reg[w] - 1
  /\ reg' = [reg EXCEPT ![w] = 0]
  /\ wsHandler' = [wsHandler EXCEPT ![w] = "deleted"]
  /\ armed' = [armed EXCEPT ![w] = FALSE]
  /\ Goto(w, "close")
  /\ UNCHANGED <<slotVars, loopVars, isWebSocket, timer, raced, netVars>>

\* decWebsocketCount(): the store; delete _webSocketHandler, which keeps its
\* value; _isWebSocket = false.
DecStore(w) ==
  /\ At(w, "decStore")
  /\ nWebSockets' = reg[w] - 1
  /\ reg' = [reg EXCEPT ![w] = 0]
  /\ wsHandler' = [wsHandler EXCEPT ![w] = "deleted"]
  /\ isWebSocket' = [isWebSocket EXCEPT ![w] = FALSE]
  /\ armed' = [armed EXCEPT ![w] = FALSE]
  /\ Goto(w, "close")
  /\ UNCHANGED <<slotVars, loopVars, timer, raced, netVars>>

\* Mutant: _socketIsOpen = false before the close() instead of after it.
CloseSocketLate(w) ==
  /\ At(w, "close")
  /\ IF socketIsOpen[w]
       THEN /\ socketIsOpen' = [socketIsOpen EXCEPT ![w] = FALSE]
            /\ UNCHANGED <<pc, netVars>>
       ELSE /\ FreeSocket(socket[w])
            /\ Goto(w, "closed")
            /\ UNCHANGED socketIsOpen
  /\ UNCHANGED <<socket, flag, loopVars, wsVars, timerVars, countVars>>

\* _socket->close(): the object deletes itself, its address may be reused.
CloseSocket(w) ==
  /\ At(w, "close")
  /\ FreeSocket(socket[w])
  /\ Goto(w, "closed")
  /\ UNCHANGED <<slotVars, loopVars, wsVars, timerVars, countVars>>

\* _socketIsOpen = false, and for a websocket _timerWSTimeout.stop().
ConnectionClosed(w) ==
  /\ At(w, "closed")
  /\ socketIsOpen' = [socketIsOpen EXCEPT ![w] = FALSE]
  /\ timer' = [timer EXCEPT ![w] =
                 IF wsHandler[w] = "deleted" THEN "stopped" ELSE @]
  /\ Goto(w, "loop")
  /\ UNCHANGED <<socket, flag, loopVars, wsVars, armed, countVars, netVars>>

-----------------------------------------------------------------------------
(* The steps of the worker that wait for nobody outside the device; those  *)
(* that need the client; and the passing of time.                          *)

WorkerStep(w) ==
  \/ FlagsWait(w) \/ LoopTest(w) \/ RecvEnd(w)
  \/ HttpHandlerReturns(w) \/ WsHandlerReturns(w)
  \/ UpgradeAccepted(w) \/ UpgradeRefused(w)
  \/ UpgradeSent(w) \/ UpgradeFailed(w)
  \/ IncTest(w) \/ IncLoad(w) \/ IncStore(w) \/ OnOpen(w)
  \/ CheckClose(w) \/ OnClose(w) \/ DecStore(w)
  \/ CloseSocket(w) \/ ConnectionClosed(w)

WorkerReceives(w) == RecvHttp(w) \/ RecvWs(w) \/ RecvWouldBlock(w)

TimerExpires(w) ==
  /\ timer[w] = "running"
  /\ timer' = [timer EXCEPT ![w] = "expired"]
  /\ UNCHANGED <<pc, slotVars, loopVars, wsVars, armed, countVars, netVars>>

(* The clients, external.                                                  *)

\* A client connects; the stack keeps it in the backlog of listen().
ClientConnects(s) ==
  /\ sock[s] = "free"
  /\ sock' = [sock EXCEPT ![s] = "queued"]
  /\ UNCHANGED <<pc, slotVars, loopVars, wsVars, timerVars, countVars, peer>>

\* The client closes its end ("eof"), or the connection breaks ("lost").
ClientLeaves(s) ==
  /\ sock[s] # "free" /\ peer[s] = "up"
  /\ \E end \in Ends : peer' = [peer EXCEPT ![s] = end]
  /\ UNCHANGED <<pc, slotVars, loopVars, wsVars, timerVars, countVars, sock>>
=============================================================================
