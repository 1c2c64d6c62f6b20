-------------------------- MODULE HttpServerProofs --------------------------
(* Proofs about HttpServer, for any number of workers and sockets.         *)
EXTENDS HttpServer, FiniteSetTheorems, TLAPS

-----------------------------------------------------------------------------
(* The inductive invariant of the server: what the properties rest on.    *)

\* An idle worker has no connection's traces left on it.
IdleIsClean ==
  \A w \in Workers :
    ~socketIsOpen[w] =>
      pc[w] \in {"flags_wait", "loop"} /\ ~flag[w] /\ ~isWebSocket[w]

\* A pending flag is one that the thread is about to take.
FlagIsAwaited ==
  \A w \in Workers : flag[w] => socketIsOpen[w] /\ At(w, "flags_wait")

\* Which branches a websocket, and only a websocket, goes through.
Branches ==
  \A w \in Workers :
    /\ pc[w] \in {"ws", "incTest", "incLoad", "incStore", "open", "onClose",
                  "decStore"} =>
         isWebSocket[w]
    /\ pc[w] \in {"http", "upgrade", "respond", "close", "closed"} =>
         ~isWebSocket[w]

Armed ==
  \A w \in Workers :
    isWebSocket[w] /\ pc[w] \notin Incrementing \cup {"open"} => armed[w]

\* The accept thread's locals live from accept() to the end of the body.
MainLocals ==
  /\ mainPc = "accept" => cltSock = NoSocket /\ it = 1
  /\ mainPc = "scan" => cltSock \in Sockets

SocketsKnown == \A w \in Workers : Serving(w) => socket[w] \in Sockets

\* The websockets that are counted, once nobody is within an update.
Counted == {w \in Workers : isWebSocket[w] /\ pc[w] \notin Incrementing}

\* As long as the workers were at the counter one at a time: it is exact, what
\* a worker loaded is what the counter still is, and there is room for the
\* websocket whose increment is under way.
OneAtATime ==
  \A u, w \in Workers : pc[u] \in Counting /\ pc[w] \in Counting => u = w

LoadIsFresh ==
  \A w \in Workers :
    pc[w] \in {"incStore", "decStore"} => reg[w] = nWebSockets

RoomIsKept ==
  /\ nWebSockets <= WsMax
  /\ \A w \in Workers : pc[w] \in Incrementing => nWebSockets < WsMax

CountInv ==
  ~raced =>
    /\ OneAtATime
    /\ nWebSockets = Cardinality(Counted)
    /\ LoadIsFresh
    /\ RoomIsKept

WorkerInv ==
  /\ IdleIsClean
  /\ FlagIsAwaited
  /\ ~RecvMayWouldBlock => NoLostWakeup
  /\ Branches
  /\ LiveHandler
  /\ Armed

OwnerInv == MainLocals /\ SocketsKnown /\ OneOwner

IInv == TypeOK /\ WorkerInv /\ OwnerInv /\ CountInv

-----------------------------------------------------------------------------
(* Types.                                                                  *)

USE DEF Workers, Goto, At

\* Every step of a thread or a client keeps the types.
LEMMA TypeStep == TypeOK /\ [Next]_vars => TypeOK'
<1> SUFFICES ASSUME TypeOK, [Next]_vars PROVE TypeOK'
  OBVIOUS
<1> USE NWorkersAssumption, WsMaxAssumption, EndsAssumption
        DEF TypeOK, ConnTypeOK, PCs, BlockingCalls, slotVars, loopVars,
            wsVars, timerVars, countVars, netVars, connVars, mainVars,
            ResetTimer, FreeSocket, NextAccept, StartConnection, EnterCounting
<1>1. ASSUME NEW w \in Workers, WorkerStep(w), UNCHANGED mainVars
      PROVE TypeOK'
  <2>1. CASE FlagsWait(w) BY <1>1, <2>1 DEF FlagsWait
  <2>2. CASE LoopTest(w) BY <1>1, <2>2 DEF LoopTest
  <2>3. CASE RecvEnd(w) BY <1>1, <2>3 DEF RecvEnd
  <2>4. CASE HttpHandlerReturns(w) BY <1>1, <2>4 DEF HttpHandlerReturns
  <2>5. CASE WsHandlerReturns(w) BY <1>1, <2>5 DEF WsHandlerReturns
  <2>6. CASE UpgradeAccepted(w) BY <1>1, <2>6 DEF UpgradeAccepted
  <2>7. CASE UpgradeRefused(w) BY <1>1, <2>7 DEF UpgradeRefused
  <2>15. CASE UpgradeSent(w) BY <1>1, <2>15 DEF UpgradeSent
  <2>16. CASE UpgradeFailed(w) BY <1>1, <2>16 DEF UpgradeFailed
  <2>17. CASE IncTest(w)
    <3>1. CASE nWebSockets < WsMax BY <1>1, <2>17, <3>1 DEF IncTest
    <3>2. CASE ~(nWebSockets < WsMax)
      <4>1. /\ CreateHandler(w)
            /\ UNCHANGED <<slotVars, loopVars, isWebSocket, timerVars, countVars, netVars>>
        BY <2>17, <3>2 DEF IncTest
      <4> QED BY <1>1, <4>1 DEF CreateHandler
    <3> QED BY <3>1, <3>2
  <2>18. CASE IncLoad(w) BY <1>1, <2>18 DEF IncLoad
  <2>8. CASE IncStore(w) BY <1>1, <2>8 DEF IncStore, CreateHandler
  <2>9. CASE OnOpen(w) BY <1>1, <2>9 DEF OnOpen
  <2>10. CASE CheckClose(w) BY <1>1, <2>10 DEF CheckClose
  <2>11. CASE OnClose(w) BY <1>1, <2>11 DEF OnClose
  <2>12. CASE DecStore(w) BY <1>1, <2>12 DEF DecStore
  <2>13. CASE CloseSocket(w) BY <1>1, <2>13 DEF CloseSocket
  <2>14. CASE ConnectionClosed(w) BY <1>1, <2>14 DEF ConnectionClosed
  <2> QED
    BY <1>1, <2>1, <2>2, <2>3, <2>4, <2>5, <2>6, <2>7, <2>8, <2>9, <2>10,
       <2>11, <2>12, <2>13, <2>14, <2>15, <2>16, <2>17, <2>18 DEF WorkerStep
<1>2. ASSUME NEW w \in Workers, WorkerReceives(w), UNCHANGED mainVars
      PROVE TypeOK'
  <2>1. CASE RecvHttp(w) BY <1>2, <2>1 DEF RecvHttp
  <2>2. CASE RecvWs(w) BY <1>2, <2>2 DEF RecvWs
  <2>3. CASE RecvWouldBlock(w) BY <1>2, <2>3 DEF RecvWouldBlock
  <2> QED BY <1>2, <2>1, <2>2, <2>3 DEF WorkerReceives
<1>3. ASSUME NEW w \in Workers, TimerExpires(w), UNCHANGED mainVars
      PROVE TypeOK'
  BY <1>3 DEF TimerExpires
<1>4. ASSUME NEW s \in Sockets, Connect(s) \/ ClientLeaves(s),
             UNCHANGED mainVars
      PROVE TypeOK'
  <2>1. CASE Connect(s) BY <2>1, <1>4 DEF Connect, ClientConnects
  <2>2. CASE ClientLeaves(s)
    <3>1. PICK end \in Ends : peer' = [peer EXCEPT ![s] = end]
      BY <2>2 DEF ClientLeaves
    <3> QED BY <3>1, <2>2, <1>4 DEF ClientLeaves
  <2> QED BY <1>4, <2>1, <2>2
<1>5. CASE MainStep
  <2>1. ASSUME NEW s \in Sockets, Accept(s) PROVE TypeOK'
    BY <2>1 DEF Accept
  <2>2. CASE ScanBusy BY <2>2 DEF ScanBusy
  <2>3. CASE ScanIdle BY <2>3 DEF ScanIdle
  <2>4. CASE ScanRefuse
    <3>1. sock' \in [Sockets -> {"free", "queued", "open"}]
      BY <2>4 DEF ScanRefuse
    <3>2. peer' \in [Sockets -> {"up", "eof", "lost"}]
      BY <2>4 DEF ScanRefuse
    <3>3. it' \in 1..(NWorkers + 1)
      BY <2>4 DEF ScanRefuse
    <3> QED BY <2>4, <3>1, <3>2, <3>3 DEF ScanRefuse
  <2>5. CASE ScanWild BY <2>5, SocketsAssumption DEF ScanWild
  <2> QED BY <1>5, <2>1, <2>2, <2>3, <2>4, <2>5 DEF MainStep
<1>6. CASE UNCHANGED vars
  BY <1>6 DEF vars
<1> QED
  BY <1>1, <1>2, <1>3, <1>4, <1>5, <1>6 DEF Next

\* The variables start with their types.
LEMMA InitTypes == Init => TypeOK
<1> SUFFICES ASSUME Init PROVE TypeOK
  OBVIOUS
<1>1. raced \in BOOLEAN
  BY DEF Init, ConnInit
<1>2. /\ mainPc \in {"accept", "scan"} /\ it \in 1..(NWorkers + 1)
      /\ cltSock \in IF mainPc = "scan" THEN Sockets ELSE {NoSocket}
      /\ lost \subseteq Sockets
  BY NWorkersAssumption DEF Init
<1>3. ConnTypeOK
  BY <1>1 DEF Init, ConnInit, ConnTypeOK, PCs, BlockingCalls
<1> QED BY <1>2, <1>3 DEF TypeOK

\* Every variable keeps its type, whatever the clients do.
THEOREM TypeCorrect == Spec => []TypeOK
BY InitTypes, TypeStep, PTL DEF Spec

-----------------------------------------------------------------------------
(* The parts of the inductive invariant that speak of each worker alone.   *)

\* Every step keeps what each worker can rely on: an idle worker is clean,
\* a flag is awaited, a websocket has its handler and its watchdog.
LEMMA WorkerInvStep ==
  TypeOK /\ WorkerInv /\ [Next]_vars => WorkerInv'
<1> SUFFICES ASSUME TypeOK, WorkerInv, [Next]_vars PROVE WorkerInv'
  OBVIOUS
<1> USE DEF TypeOK, ConnTypeOK, PCs, BlockingCalls, slotVars, loopVars,
            wsVars, timerVars, countVars, netVars, connVars, mainVars,
            ResetTimer, FreeSocket, NextAccept, StartConnection, WorkerInv,
            IdleIsClean, FlagIsAwaited, NoLostWakeup, Branches, LiveHandler,
            Armed, Incrementing
<1>1. ASSUME NEW w \in Workers, WorkerStep(w), UNCHANGED mainVars
      PROVE WorkerInv'
  <2>1. CASE FlagsWait(w) BY <1>1, <2>1 DEF FlagsWait
  <2>2. CASE LoopTest(w) BY <1>1, <2>2 DEF LoopTest
  <2>3. CASE RecvEnd(w) BY <1>1, <2>3 DEF RecvEnd
  <2>4. CASE HttpHandlerReturns(w) BY <1>1, <2>4 DEF HttpHandlerReturns
  <2>5. CASE WsHandlerReturns(w) BY <1>1, <2>5 DEF WsHandlerReturns
  <2>6. CASE UpgradeAccepted(w) BY <1>1, <2>6 DEF UpgradeAccepted
  <2>7. CASE UpgradeRefused(w) BY <1>1, <2>7 DEF UpgradeRefused
  <2>15. CASE UpgradeSent(w) BY <1>1, <2>15 DEF UpgradeSent
  <2>16. CASE UpgradeFailed(w) BY <1>1, <2>16 DEF UpgradeFailed
  <2>17. CASE IncTest(w)
    <3>1. /\ UNCHANGED <<socketIsOpen, flag, isWebSocket, armed>>
          /\ At(w, "incTest")
      BY <2>17 DEF IncTest
    <3>2. CASE Goto(w, "incLoad") /\ UNCHANGED wsHandler
      BY <3>1, <3>2
    <3>3. CASE Goto(w, "open") /\ wsHandler' = [wsHandler EXCEPT ![w] = "live"]
      BY <3>1, <3>3
    <3> QED BY <2>17, <3>2, <3>3 DEF IncTest, CreateHandler
  <2>18. CASE IncLoad(w) BY <1>1, <2>18 DEF IncLoad
  <2>8. CASE IncStore(w) BY <1>1, <2>8 DEF IncStore, CreateHandler
  <2>9. CASE OnOpen(w) BY <1>1, <2>9 DEF OnOpen
  <2>10. CASE CheckClose(w) BY <1>1, <2>10 DEF CheckClose
  <2>11. CASE OnClose(w) BY <1>1, <2>11 DEF OnClose
  <2>12. CASE DecStore(w) BY <1>1, <2>12 DEF DecStore
  <2>13. CASE CloseSocket(w) BY <1>1, <2>13 DEF CloseSocket
  <2>14. CASE ConnectionClosed(w) BY <1>1, <2>14 DEF ConnectionClosed
  <2> QED
    BY <1>1, <2>1, <2>2, <2>3, <2>4, <2>5, <2>6, <2>7, <2>8, <2>9, <2>10,
       <2>11, <2>12, <2>13, <2>14, <2>15, <2>16, <2>17, <2>18 DEF WorkerStep
<1>2. ASSUME NEW w \in Workers, WorkerReceives(w), UNCHANGED mainVars
      PROVE WorkerInv'
  <2>1. CASE RecvHttp(w)
    <3>1. PICK l \in {"check", "http", "upgrade"} : Goto(w, l)
      BY <2>1 DEF RecvHttp
    <3> QED BY <1>2, <2>1, <3>1 DEF RecvHttp
  <2>2. CASE RecvWs(w) BY <1>2, <2>2 DEF RecvWs
  <2>3. CASE RecvWouldBlock(w) BY <1>2, <2>3 DEF RecvWouldBlock
  <2> QED BY <1>2, <2>1, <2>2, <2>3 DEF WorkerReceives
<1>3. ASSUME NEW w \in Workers, TimerExpires(w), UNCHANGED mainVars
      PROVE WorkerInv'
  BY <1>3 DEF TimerExpires
<1>4. ASSUME NEW s \in Sockets, Connect(s) \/ ClientLeaves(s),
             UNCHANGED mainVars
      PROVE WorkerInv'
  <2>1. CASE Connect(s) BY <2>1, <1>4 DEF Connect, ClientConnects
  <2>2. CASE ClientLeaves(s)
    <3>1. PICK end \in Ends : peer' = [peer EXCEPT ![s] = end]
      BY <2>2 DEF ClientLeaves
    <3> QED BY <3>1, <2>2, <1>4 DEF ClientLeaves
  <2> QED BY <1>4, <2>1, <2>2
<1>5. CASE MainStep
  <2>1. ASSUME NEW s \in Sockets, Accept(s) PROVE WorkerInv'
    BY <2>1 DEF Accept
  <2>2. CASE ScanBusy BY <2>2 DEF ScanBusy
  <2>3. CASE ScanIdle
    <3>1. it \in Workers /\ Blocked(it) /\ ~socketIsOpen[it]
      BY <2>3 DEF ScanIdle, MainMayRun
    <3>2. At(it, "flags_wait")
      BY <3>1 DEF Blocked
    <3> QED BY <2>3, <3>1, <3>2 DEF ScanIdle
  <2>4. CASE ScanRefuse BY <2>4 DEF ScanRefuse
  <2>5. CASE ScanWild BY <2>5 DEF ScanWild
  <2> QED BY <1>5, <2>1, <2>2, <2>3, <2>4, <2>5 DEF MainStep
<1>6. CASE UNCHANGED vars
  BY <1>6 DEF vars
<1> QED
  BY <1>1, <1>2, <1>3, <1>4, <1>5, <1>6 DEF Next

-----------------------------------------------------------------------------
(* Who holds which connection.                                             *)

\* A step that moves no connection: workers stay on their side of close().
LEMMA OwnerFrame ==
  ASSUME TypeOK, OwnerInv,
         UNCHANGED <<mainVars, socket, socketIsOpen, sock>>,
         \A w \in Workers : (pc[w] = "closed") <=> (pc'[w] = "closed")
  PROVE  OwnerInv'
BY DEF TypeOK, ConnTypeOK, OwnerInv, MainLocals, SocketsKnown, OneOwner,
       Accepted, Serves, Serving, mainVars

\* Every step keeps each connection with exactly one thread.
LEMMA OwnerInvStep ==
  TypeOK /\ WorkerInv /\ OwnerInv /\ [Next]_vars => OwnerInv'
<1> SUFFICES ASSUME TypeOK, WorkerInv, OwnerInv, [Next]_vars PROVE OwnerInv'
  OBVIOUS
<1> USE DEF slotVars, loopVars, wsVars, timerVars, countVars, netVars,
            connVars, mainVars
<1>1. ASSUME NEW w \in Workers, WorkerStep(w), UNCHANGED mainVars
      PROVE OwnerInv'
  <2> USE OwnerFrame DEF TypeOK, ConnTypeOK
  <2>1. CASE FlagsWait(w) BY <1>1, <2>1 DEF FlagsWait
  <2>2. CASE LoopTest(w) BY <1>1, <2>2 DEF LoopTest
  <2>3. CASE RecvEnd(w) BY <1>1, <2>3 DEF RecvEnd
  <2>4. CASE HttpHandlerReturns(w) BY <1>1, <2>4 DEF HttpHandlerReturns
  <2>5. CASE WsHandlerReturns(w) BY <1>1, <2>5 DEF WsHandlerReturns
  <2>6. CASE UpgradeAccepted(w) BY <1>1, <2>6 DEF UpgradeAccepted
  <2>7. CASE UpgradeRefused(w) BY <1>1, <2>7 DEF UpgradeRefused
  <2>8. CASE UpgradeSent(w) BY <1>1, <2>8 DEF UpgradeSent
  <2>9. CASE UpgradeFailed(w) BY <1>1, <2>9 DEF UpgradeFailed
  <2>17. CASE IncTest(w)
    <3>1. CASE nWebSockets < WsMax BY <1>1, <2>17, <3>1 DEF IncTest
    <3>2. CASE ~(nWebSockets < WsMax)
      <4>1. /\ At(w, "incTest") /\ CreateHandler(w)
            /\ UNCHANGED <<slotVars, loopVars, isWebSocket, timerVars, countVars, netVars>>
        BY <2>17, <3>2 DEF IncTest
      <4> QED BY <1>1, <4>1 DEF CreateHandler
    <3> QED BY <3>1, <3>2
  <2>18. CASE IncLoad(w) BY <1>1, <2>18 DEF IncLoad
  <2>10. CASE IncStore(w) BY <1>1, <2>10 DEF IncStore, CreateHandler
  <2>11. CASE OnOpen(w) BY <1>1, <2>11 DEF OnOpen
  <2>12. CASE CheckClose(w) BY <1>1, <2>12 DEF CheckClose
  <2>13. CASE OnClose(w) BY <1>1, <2>13 DEF OnClose
  <2>14. CASE DecStore(w) BY <1>1, <2>14 DEF DecStore
  <2>15. CASE CloseSocket(w)
    <3>1. Serving(w) /\ socket[w] \in Sockets
      BY <2>15 DEF CloseSocket, Serving, WorkerInv, IdleIsClean, OwnerInv,
                   SocketsKnown
    <3> QED
      BY <1>1, <2>15, <3>1
      DEF CloseSocket, FreeSocket, OwnerInv, MainLocals, SocketsKnown,
          OneOwner, Accepted, Serves, Serving
  <2>16. CASE ConnectionClosed(w)
    BY <1>1, <2>16
    DEF ConnectionClosed, OwnerInv, MainLocals, SocketsKnown, OneOwner,
        Accepted, Serves, Serving
  <2> QED
    BY <1>1, <2>1, <2>2, <2>3, <2>4, <2>5, <2>6, <2>7, <2>8, <2>9, <2>10,
       <2>11, <2>12, <2>13, <2>14, <2>15, <2>16, <2>17, <2>18 DEF WorkerStep
<1>2. ASSUME NEW w \in Workers, WorkerReceives(w), UNCHANGED mainVars
      PROVE OwnerInv'
  <2> USE OwnerFrame DEF TypeOK, ConnTypeOK
  <2>1. CASE RecvHttp(w)
    <3>1. PICK l \in {"check", "http", "upgrade"} : Goto(w, l)
      BY <2>1 DEF RecvHttp
    <3> QED BY <1>2, <2>1, <3>1 DEF RecvHttp
  <2>2. CASE RecvWs(w) BY <1>2, <2>2 DEF RecvWs
  <2>3. CASE RecvWouldBlock(w) BY <1>2, <2>3 DEF RecvWouldBlock
  <2> QED BY <1>2, <2>1, <2>2, <2>3 DEF WorkerReceives
<1>3. ASSUME NEW w \in Workers, TimerExpires(w), UNCHANGED mainVars
      PROVE OwnerInv'
  BY <1>3, OwnerFrame DEF TimerExpires
<1>4. ASSUME NEW s \in Sockets, Connect(s) \/ ClientLeaves(s),
             UNCHANGED mainVars
      PROVE OwnerInv'
  <2>1. CASE Connect(s)
    BY <2>1, <1>4
    DEF Connect, ClientConnects, TypeOK, ConnTypeOK, OwnerInv, MainLocals,
        SocketsKnown, OneOwner, Accepted, Serves, Serving
  <2>2. CASE ClientLeaves(s)
    BY <2>2, <1>4, OwnerFrame DEF ClientLeaves
  <2> QED BY <1>4, <2>1, <2>2
<1>5. CASE MainStep
  <2> USE NWorkersAssumption, SocketsAssumption
          DEF TypeOK, ConnTypeOK, OwnerInv, MainLocals, SocketsKnown,
              OneOwner, Accepted, Serves, Serving
  <2>1. ASSUME NEW s \in Sockets, Accept(s) PROVE OwnerInv'
    BY <2>1 DEF Accept
  <2>2. CASE ScanBusy BY <2>2 DEF ScanBusy
  <2>3. CASE ScanIdle
    <3>1. /\ it \in Workers /\ ~socketIsOpen[it] /\ pc[it] # "closed"
          /\ cltSock \in Sockets
      BY <2>3 DEF ScanIdle, WorkerInv, IdleIsClean
    <3>2. \A w \in Workers : \A s \in Sockets :
            Serves(w, s)' <=> IF w = it THEN s = cltSock ELSE Serves(w, s)
      BY <2>3, <3>1 DEF ScanIdle, StartConnection
    <3>3. \A s \in Sockets :
            ~Accepted(s)' /\ sock'[s] = sock[s] /\ (s \in lost' <=> s \in lost)
      BY <2>3 DEF ScanIdle, StartConnection, NextAccept
    <3>4. \A s \in Sockets : Accepted(s) <=> s = cltSock
      BY <2>3 DEF ScanIdle
    <3>5. OneOwner'
      <4> SUFFICES ASSUME NEW s \in Sockets
                   PROVE  /\ sock'[s] = "open" =>
                               s \in lost \/ \E w \in Workers : Serves(w, s)'
                          /\ s \in lost =>
                               /\ sock'[s] = "open"
                               /\ \A w \in Workers : ~Serves(w, s)'
                          /\ \A w \in Workers : Serves(w, s)' =>
                               /\ sock'[s] = "open"
                               /\ \A u \in Workers : Serves(u, s)' => u = w
        BY <3>3 DEF OneOwner
      <4>1. /\ sock[s] = "open" =>
                 s = cltSock \/ s \in lost \/ \E w \in Workers : Serves(w, s)
            /\ s = cltSock =>
                 /\ sock[s] = "open" /\ s \notin lost
                 /\ \A w \in Workers : ~Serves(w, s)
            /\ s \in lost =>
                 sock[s] = "open" /\ \A w \in Workers : ~Serves(w, s)
            /\ \A w \in Workers : Serves(w, s) =>
                 /\ sock[s] = "open"
                 /\ \A u \in Workers : Serves(u, s) => u = w
            /\ ~Serves(it, s)
        BY <3>1, <3>4
      <4> HIDE DEF Serves, Accepted, OneOwner, OwnerInv, Serving
      <4>2. CASE s = cltSock BY <4>1, <4>2, <3>1, <3>2, <3>3
      <4>3. CASE s # cltSock BY <4>1, <4>3, <3>1, <3>2, <3>3
      <4> QED BY <4>2, <4>3
    <3>6. MainLocals'
      BY <2>3 DEF ScanIdle, NextAccept
    <3>7. SocketsKnown'
      BY <2>3, <3>1 DEF ScanIdle, StartConnection
    <3> QED BY <3>5, <3>6, <3>7
  <2>4. CASE ScanRefuse BY <2>4 DEF ScanRefuse, FreeSocket, NextAccept
  <2>5. CASE ScanWild BY <2>5 DEF ScanWild, NextAccept
  <2> QED BY <1>5, <2>1, <2>2, <2>3, <2>4, <2>5 DEF MainStep
<1>6. CASE UNCHANGED vars
  BY <1>6, OwnerFrame DEF vars
<1> QED
  BY <1>1, <1>2, <1>3, <1>4, <1>5, <1>6 DEF Next

-----------------------------------------------------------------------------
(* The counter.                                                            *)

\* There are finitely many workers.
LEMMA CountedIsFinite == IsFiniteSet(Counted)
<1>1. IsFiniteSet(Workers) /\ Counted \subseteq Workers
  BY NWorkersAssumption, FS_Interval DEF Counted
<1> QED
  BY <1>1, FS_Subset

\* A step that leaves the counter, its loads and who is a websocket alone and
\* keeps every worker on its side of an update.
LEMMA CountFrame ==
  ASSUME TypeOK, CountInv, UNCHANGED <<countVars, isWebSocket>>,
         \A w \in Workers :
           pc'[w] # pc[w] => {pc[w], pc'[w]} \cap Counting = {}
  PROVE  CountInv'
<1> SUFFICES ASSUME ~raced'
             PROVE  /\ OneAtATime'
                    /\ (nWebSockets = Cardinality(Counted))'
                    /\ LoadIsFresh'
                    /\ RoomIsKept'
  BY DEF CountInv
<1>1. /\ \A w \in Workers : \A l \in Counting :
           (pc'[w] = l) <=> (pc[w] = l)
      /\ UNCHANGED <<nWebSockets, reg>> /\ ~raced
  BY DEF countVars
<1>2. Counted' = Counted
  BY <1>1 DEF Counted, Counting
<1>3. OneAtATime' /\ LoadIsFresh' /\ RoomIsKept'
  BY <1>1 DEF CountInv, OneAtATime, LoadIsFresh, RoomIsKept, Counting,
              Incrementing
<1> QED
  BY <1>1, <1>2, <1>3 DEF CountInv

\* The steps at the counter: one case for each, and each part of the invariant.
LEMMA CountingStep ==
  ASSUME TypeOK, Branches, CountInv, NEW w \in Workers, ~raced',
         \/ UpgradeAccepted(w) \/ UpgradeSent(w) \/ UpgradeFailed(w)
         \/ IncTest(w) \/ IncLoad(w) \/ IncStore(w) \/ OnClose(w) \/ DecStore(w)
  PROVE  CountInv'
<1> USE WsMaxAssumption
        DEF TypeOK, ConnTypeOK, countVars, Counting, Incrementing,
            EnterCounting, CreateHandler
<1>1. /\ ~raced /\ OneAtATime /\ nWebSockets = Cardinality(Counted)
      /\ LoadIsFresh /\ RoomIsKept
  BY DEF UpgradeAccepted, UpgradeSent, UpgradeFailed, IncTest, IncLoad,
         IncStore, OnClose, DecStore, CountInv
<1>2. CASE UpgradeAccepted(w) \/ OnClose(w)
  <2>6. raced' = (raced \/ \E u \in Workers \ {w} : pc[u] \in Counting)
    BY <1>2 DEF UpgradeAccepted, OnClose
  <2>7. \A u \in Workers \ {w} : pc[u] \notin Counting
    BY <2>6, Zenon
  <2>1. /\ \A u \in Workers \ {w} : pc[u] \notin Counting /\ pc'[u] = pc[u]
        /\ UNCHANGED <<isWebSocket, nWebSockets>> /\ pc[w] \notin Counting
    <3>1. CASE UpgradeAccepted(w)
      BY <2>7, <3>1 DEF UpgradeAccepted, wsVars
    <3>2. CASE OnClose(w) BY <2>7, <3>2 DEF OnClose, wsVars
    <3> QED BY <1>2, <3>1, <3>2
  <2>3. OneAtATime'
    BY <2>1 DEF OneAtATime
  <2>4. CASE UpgradeAccepted(w)
    <3>1. pc[w] = "upgrade" /\ pc'[w] = "respond" /\ nWebSockets < WsMax
      BY <2>4 DEF UpgradeAccepted
    <3>2. ~isWebSocket[w]
      BY <3>1 DEF Branches
    <3>3. Counted' = Counted
      BY <2>1, <3>1, <3>2 DEF Counted
    <3>4. LoadIsFresh' /\ RoomIsKept'
      BY <2>1, <3>1 DEF LoadIsFresh, RoomIsKept
    <3> QED BY <1>1, <2>1, <2>3, <3>3, <3>4 DEF CountInv
  <2>5. CASE OnClose(w)
    <3>1. pc'[w] = "decStore" /\ reg'[w] = nWebSockets
      BY <2>5 DEF OnClose
    <3>2. Counted' = Counted
      BY <2>1, <3>1 DEF Counted
    <3>3. LoadIsFresh' /\ RoomIsKept'
      BY <1>1, <2>1, <3>1 DEF LoadIsFresh, RoomIsKept
    <3> QED BY <1>1, <2>1, <2>3, <3>2, <3>3 DEF CountInv
  <2> QED
    BY <1>2, <2>4, <2>5
<1>3. CASE UpgradeSent(w) \/ UpgradeFailed(w) \/ IncTest(w) \/ IncLoad(w)
  <2>1. /\ pc[w] \in Incrementing
        /\ \A u \in Workers \ {w} : pc[u] \notin Counting /\ pc'[u] = pc[u]
        /\ UNCHANGED nWebSockets
    BY <1>1, <1>3
    DEF UpgradeSent, UpgradeFailed, IncTest, IncLoad, OneAtATime
  <2>2. nWebSockets < WsMax
    BY <1>1, <2>1 DEF RoomIsKept
  <2>3. Counted' = Counted
    <3>1. CASE UpgradeSent(w) BY <2>1, <3>1 DEF Counted, UpgradeSent
    <3>2. CASE UpgradeFailed(w)
      BY <2>1, <3>2 DEF Counted, Branches, UpgradeFailed, wsVars
    <3>3. CASE IncTest(w) BY <2>1, <2>2, <3>3 DEF Counted, IncTest
    <3>4. CASE IncLoad(w) BY <2>1, <3>4 DEF Counted, IncLoad, wsVars
    <3> QED BY <1>3, <3>1, <3>2, <3>3, <3>4
  <2>4. OneAtATime'
    BY <2>1 DEF OneAtATime
  <2>5. LoadIsFresh'
    <3>1. pc'[w] \in {"incStore", "decStore"} => reg'[w] = nWebSockets
      <4>1. CASE UpgradeSent(w) BY <4>1 DEF UpgradeSent
      <4>2. CASE UpgradeFailed(w) BY <4>2 DEF UpgradeFailed
      <4>3. CASE IncTest(w) BY <2>2, <4>3 DEF IncTest
      <4>4. CASE IncLoad(w) BY <4>4 DEF IncLoad
      <4> QED BY <1>3, <4>1, <4>2, <4>3, <4>4
    <3> QED BY <2>1, <3>1 DEF LoadIsFresh
  <2>6. RoomIsKept'
    BY <2>1, <2>2 DEF RoomIsKept
  <2> QED
    BY <1>1, <2>1, <2>3, <2>4, <2>5, <2>6 DEF CountInv
<1>4. CASE IncStore(w) \/ DecStore(w)
  <2>1. /\ pc[w] \in Counting /\ pc'[w] \notin Counting
        /\ \A u \in Workers \ {w} : /\ pc[u] \notin Counting /\ pc'[u] = pc[u]
                                    /\ isWebSocket'[u] <=> isWebSocket[u]
        /\ reg[w] = nWebSockets /\ isWebSocket[w]
    <3>1. pc[w] \in Counting /\ reg[w] = nWebSockets /\ isWebSocket[w]
      BY <1>1, <1>4 DEF IncStore, DecStore, LoadIsFresh, Branches
    <3>2. \A u \in Workers \ {w} : pc[u] \notin Counting
      BY <1>1, <3>1 DEF OneAtATime
    <3>3. CASE IncStore(w) BY <3>1, <3>2, <3>3 DEF IncStore
    <3>4. CASE DecStore(w) BY <3>1, <3>2, <3>4 DEF DecStore
    <3> QED BY <1>4, <3>3, <3>4
  <2>2. OneAtATime' /\ LoadIsFresh'
    BY <2>1 DEF OneAtATime, LoadIsFresh
  <2>3. CASE IncStore(w)
    <3>1. nWebSockets < WsMax /\ nWebSockets' = nWebSockets + 1
      BY <1>1, <2>1, <2>3 DEF IncStore, RoomIsKept
    <3>2. w \notin Counted /\ Counted' = Counted \cup {w}
      BY <2>1, <2>3 DEF IncStore, Counted
    <3>3. (nWebSockets = Cardinality(Counted))'
      BY <1>1, <3>1, <3>2, CountedIsFinite, FS_AddElement
    <3>4. RoomIsKept'
      BY <2>1, <3>1 DEF RoomIsKept
    <3> QED BY <2>2, <3>3, <3>4 DEF CountInv
  <2>4. CASE DecStore(w)
    <3>1. nWebSockets <= WsMax /\ nWebSockets' = nWebSockets - 1
      BY <1>1, <2>1, <2>4 DEF DecStore, RoomIsKept
    <3>2. w \in Counted /\ Counted' = Counted \ {w}
      BY <2>1, <2>4 DEF DecStore, Counted
    <3>3. (nWebSockets = Cardinality(Counted))'
      BY <1>1, <3>1, <3>2, CountedIsFinite, FS_RemoveElement
    <3>4. RoomIsKept'
      BY <2>1, <3>1 DEF RoomIsKept
    <3> QED BY <2>2, <3>3, <3>4 DEF CountInv
  <2> QED BY <1>4, <2>3, <2>4
<1> QED BY <1>2, <1>3, <1>4

\* Every step keeps the counter exact while nobody raced for it.
LEMMA CountInvStep ==
  TypeOK /\ Branches /\ CountInv /\ [Next]_vars => CountInv'
<1> SUFFICES ASSUME TypeOK, Branches, CountInv, [Next]_vars PROVE CountInv'
  OBVIOUS
<1> USE DEF slotVars, loopVars, wsVars, timerVars, netVars, connVars, mainVars
<1>1. ASSUME NEW w \in Workers,
             WorkerStep(w) \/ WorkerReceives(w) \/ TimerExpires(w)
      PROVE CountInv'
  <2>1. CASE \/ UpgradeAccepted(w) \/ UpgradeSent(w) \/ UpgradeFailed(w)
             \/ IncTest(w) \/ IncLoad(w) \/ IncStore(w) \/ OnClose(w)
             \/ DecStore(w)
    BY <2>1, CountingStep DEF CountInv
  <2>2. CASE \/ FlagsWait(w) \/ LoopTest(w) \/ RecvEnd(w)
             \/ HttpHandlerReturns(w) \/ WsHandlerReturns(w)
             \/ UpgradeRefused(w) \/ OnOpen(w) \/ CheckClose(w)
             \/ CloseSocket(w) \/ ConnectionClosed(w) \/ WorkerReceives(w)
             \/ TimerExpires(w)
    <3>1. /\ UNCHANGED <<countVars, isWebSocket>>
          /\ pc'[w] # pc[w] => {pc[w], pc'[w]} \cap Counting = {}
          /\ \A u \in Workers \ {w} : pc'[u] = pc[u]
      <4> USE DEF TypeOK, ConnTypeOK, Counting, Incrementing
      <4>1. CASE \/ FlagsWait(w) \/ RecvEnd(w) \/ HttpHandlerReturns(w)
                 \/ WsHandlerReturns(w) \/ UpgradeRefused(w) \/ OnOpen(w)
                 \/ CloseSocket(w) \/ ConnectionClosed(w) \/ TimerExpires(w)
        <5>1. CASE FlagsWait(w) BY <5>1 DEF FlagsWait
        <5>2. CASE RecvEnd(w) BY <5>2 DEF RecvEnd
        <5>3. CASE HttpHandlerReturns(w) BY <5>3 DEF HttpHandlerReturns
        <5>4. CASE WsHandlerReturns(w) BY <5>4 DEF WsHandlerReturns
        <5>5. CASE UpgradeRefused(w) BY <5>5 DEF UpgradeRefused
        <5>6. CASE OnOpen(w) BY <5>6 DEF OnOpen
        <5>7. CASE CloseSocket(w) BY <5>7 DEF CloseSocket
        <5>8. CASE ConnectionClosed(w) BY <5>8 DEF ConnectionClosed
        <5>9. CASE TimerExpires(w) BY <5>9 DEF TimerExpires
        <5> QED BY <4>1, <5>1, <5>2, <5>3, <5>4, <5>5, <5>6, <5>7, <5>8, <5>9
      <4>2. CASE LoopTest(w) BY <4>2 DEF LoopTest
      <4>3. CASE CheckClose(w) BY <4>3 DEF CheckClose
      <4>4. CASE RecvHttp(w)
        <5>1. PICK l \in {"check", "http", "upgrade"} : Goto(w, l)
          BY <4>4 DEF RecvHttp
        <5> QED BY <4>4, <5>1 DEF RecvHttp
      <4>5. CASE RecvWs(w)
        <5>1. PICK l \in {"check", "ws"} : Goto(w, l)
          BY <4>5 DEF RecvWs
        <5> QED BY <4>5, <5>1 DEF RecvWs
      <4>6. CASE RecvWouldBlock(w) BY <4>6 DEF RecvWouldBlock
      <4> QED
        BY <2>2, <4>1, <4>2, <4>3, <4>4, <4>5, <4>6 DEF WorkerReceives
    <3> QED BY <3>1, CountFrame
  <2> QED BY <1>1, <2>1, <2>2 DEF WorkerStep
<1>2. CASE UNCHANGED <<countVars, isWebSocket, pc>>
  BY <1>2, CountFrame
<1>3. ASSUME NEW s \in Sockets, Connect(s) \/ ClientLeaves(s)
      PROVE CountInv'
  BY <1>2, <1>3 DEF Connect, ClientConnects, ClientLeaves
<1>4. CASE MainStep
  BY <1>2, <1>4 DEF MainStep, Accept, ScanBusy, ScanIdle, ScanRefuse,
                    ScanWild, StartConnection
<1> QED
  BY <1>1, <1>2, <1>3, <1>4 DEF Next, vars

-----------------------------------------------------------------------------
(* The inductive invariant and what follows from it.                       *)

\* The server starts with the inductive invariant.
LEMMA InitIInv == Init => IInv
<1> SUFFICES ASSUME Init PROVE IInv
  OBVIOUS
<1> USE NWorkersAssumption, WsMaxAssumption, SocketsAssumption
        DEF Init, ConnInit
<1>1. TypeOK
  BY InitTypes
<1>2. WorkerInv
  BY DEF WorkerInv, IdleIsClean, FlagIsAwaited, NoLostWakeup, Branches,
         LiveHandler, Armed
<1>3. OwnerInv
  BY DEF OwnerInv, MainLocals, SocketsKnown, OneOwner, Accepted, Serves,
         Serving
<1>4. CountInv
  <2>1. Counted = {}
    BY DEF Counted
  <2> QED
    BY <2>1, FS_EmptySet
    DEF CountInv, OneAtATime, LoadIsFresh, RoomIsKept, Incrementing, Counting
<1> QED
  BY <1>1, <1>2, <1>3, <1>4 DEF IInv

\* Every step keeps the inductive invariant.
LEMMA IInvStep == IInv /\ [Next]_vars => IInv'
BY TypeStep, WorkerInvStep, OwnerInvStep, CountInvStep DEF IInv, WorkerInv

\* The strengthening holds in every reachable state.
THEOREM Invariance == Spec => []IInv
BY InitIInv, IInvStep, PTL DEF Spec

\* No connection is shared or used after its close(), and none is leaked but
\* those that start() was given outside the pool.
THEOREM Ownership == Spec => []OneOwner
<1>1. IInv => OneOwner
  BY DEF IInv, OwnerInv
<1> QED
  BY <1>1, Invariance, PTL

\* When recv() on a blocking socket does not return WOULD_BLOCK, no worker
\* waits for a flag while it has a connection.
THEOREM Wakeup == ~RecvMayWouldBlock => (Spec => []NoLostWakeup)
<1> SUFFICES ASSUME ~RecvMayWouldBlock PROVE Spec => []NoLostWakeup
  OBVIOUS
<1>1. IInv => NoLostWakeup
  BY DEF IInv, WorkerInv
<1> QED
  BY <1>1, Invariance, PTL

\* The handler of a websocket is the one its own upgrade created.
THEOREM HandlerIsLive == Spec => []LiveHandler
<1>1. IInv => LiveHandler
  BY DEF IInv, WorkerInv
<1> QED
  BY <1>1, Invariance, PTL

\* The watchdog that closes a websocket was reset after its upgrade.
THEOREM WatchdogIsFresh == Spec => []FreshWatchdog
<1>1. IInv => FreshWatchdog
  BY DEF IInv, WorkerInv, Armed, FreshWatchdog, Incrementing
<1> QED
  BY <1>1, Invariance, PTL

\* Without a race the counter is the number of websockets, which does not
\* exceed its maximum.
THEOREM CountIsRight == Spec => []CountIsExact
<1>1. IInv => CountIsExact
  <2> SUFFICES ASSUME IInv, ~raced
               PROVE  /\ (\A w \in Workers : pc[w] \notin Counting) =>
                           nWebSockets = Cardinality(WebSockets)
                      /\ Cardinality(WebSockets) <= WsMax
    BY DEF CountIsExact
  <2>1. /\ OneAtATime /\ nWebSockets = Cardinality(Counted) /\ RoomIsKept
        /\ nWebSockets \in Int
    BY DEF IInv, CountInv, TypeOK, ConnTypeOK
  <2>2. CASE \A w \in Workers : pc[w] \notin Incrementing
    <3>1. Counted = WebSockets
      BY <2>2 DEF Counted, WebSockets
    <3> QED BY <2>1, <3>1 DEF RoomIsKept
  <2>3. ASSUME NEW w \in Workers, pc[w] \in Incrementing
        PROVE pc[w] \in Counting /\ Cardinality(WebSockets) <= WsMax
    <3>1. \A u \in Workers : pc[u] \in Incrementing => u = w
      BY <2>1, <2>3 DEF OneAtATime, Counting
    <3>2. \/ WebSockets = Counted
          \/ WebSockets = Counted \cup {w} /\ w \notin Counted
      BY <2>3, <3>1 DEF WebSockets, Counted
    <3>3. nWebSockets < WsMax
      BY <2>1, <2>3 DEF RoomIsKept
    <3> QED
      <4>1. pc[w] \in Counting
        BY <2>3 DEF Counting
      <4>2. CASE WebSockets = Counted
        BY <2>1, <3>3, <4>1, <4>2, WsMaxAssumption
      <4>3. CASE WebSockets = Counted \cup {w} /\ w \notin Counted
        <5>1. Cardinality(WebSockets) = nWebSockets + 1
          BY <2>1, <4>3, CountedIsFinite, FS_AddElement
        <5> QED BY <2>1, <3>3, <4>1, <5>1, WsMaxAssumption
      <4> QED BY <3>2, <4>2, <4>3
  <2> QED BY <2>2, <2>3
<1> QED
  BY <1>1, Invariance, PTL

-----------------------------------------------------------------------------
(* The hand-off and the refinement.                                        *)

\* The accept thread starts a connection only on a worker that waits for it.
THEOREM HandoffIsSafe == Spec => Handoff
<1> DEFINE Safe == \A w \in Workers :
      ~socketIsOpen[w] /\ socketIsOpen'[w] =>
        At(w, "flags_wait") /\ ~flag[w] /\ ~isWebSocket[w] /\ flag'[w]
<1>1. IInv /\ [Next]_vars => [Safe]_vars
  <2> SUFFICES ASSUME IInv, Next PROVE Safe
    OBVIOUS
  <2> USE DEF IInv, TypeOK, ConnTypeOK, slotVars, connVars
  <2>1. CASE ScanIdle
    <3>1. it \in Workers /\ Blocked(it) /\ ~socketIsOpen[it]
      BY <2>1 DEF ScanIdle, MainMayRun
    <3>2. At(it, "flags_wait") /\ ~flag[it] /\ ~isWebSocket[it]
      BY <3>1 DEF WorkerInv, IdleIsClean, Blocked, BlockingCalls
    <3> QED BY <2>1, <3>1, <3>2 DEF ScanIdle, StartConnection
  <2>2. CASE UNCHANGED socketIsOpen
    BY <2>2
  <2>3. ASSUME NEW w \in Workers, ConnectionClosed(w) PROVE Safe
    BY <2>3 DEF ConnectionClosed
  <2>4. ASSUME NEW w \in Workers,
               WorkerStep(w) \/ WorkerReceives(w) \/ TimerExpires(w)
        PROVE Safe
    BY <2>2, <2>3, <2>4
    DEF WorkerStep, FlagsWait, LoopTest, RecvEnd, HttpHandlerReturns,
        WsHandlerReturns, UpgradeAccepted, UpgradeRefused, UpgradeSent,
        UpgradeFailed, IncTest, IncLoad, IncStore, CreateHandler, OnOpen, CheckClose, OnClose, DecStore,
        CloseSocket, WorkerReceives, RecvHttp, RecvWs, RecvWouldBlock,
        TimerExpires
  <2>5. ASSUME NEW s \in Sockets, Connect(s) \/ ClientLeaves(s) PROVE Safe
    BY <2>2, <2>5 DEF Connect, ClientConnects, ClientLeaves
  <2>6. CASE MainStep
    BY <2>1, <2>2, <2>6
    DEF MainStep, Accept, ScanBusy, ScanRefuse, ScanWild
  <2> QED BY <2>4, <2>5, <2>6 DEF Next
<1> QED
  BY <1>1, Invariance, PTL DEF Spec, Handoff

\* What the refinement mapping reads: a step that leaves it alone stutters.
LEMMA PoolStutter ==
  ASSUME TypeOK,
         UNCHANGED <<mainVars, socket, socketIsOpen, sock>>,
         \A w \in Workers : (pc[w] = "closed") <=> (pc'[w] = "closed")
  PROVE  UNCHANGED Pool!vars
<1>1. Backlog' = Backlog
  BY DEF Backlog
<1>2. \A w \in Workers : Serving(w)' <=> Serving(w)
  BY DEF Serving
<1> QED
  BY <1>1, <1>2 DEF Pool!vars, mainVars

\* Every step of the server is a step of the abstract pool or changes
\* nothing the pool sees.
LEMMA PoolStep == IInv /\ [Next]_vars => [Pool!Next]_(Pool!vars)
<1> SUFFICES ASSUME IInv, [Next]_vars PROVE [Pool!Next]_(Pool!vars)
  OBVIOUS
<1> USE SocketsAssumption, NWorkersAssumption
        DEF slotVars, loopVars, wsVars, timerVars, countVars, netVars,
            connVars, mainVars, IInv, TypeOK, ConnTypeOK
<1>1. ASSUME NEW w \in Workers, WorkerStep(w), UNCHANGED mainVars
      PROVE [Pool!Next]_(Pool!vars)
  <2>1. CASE CloseSocket(w)
    <3>1. Serving(w) /\ socket[w] \in Sockets /\ sock[socket[w]] = "open"
      BY <2>1 DEF CloseSocket, Serving, WorkerInv, IdleIsClean, OwnerInv,
                  SocketsKnown, OneOwner, Serves
    <3>2. Backlog' = Backlog
      BY <2>1, <3>1 DEF CloseSocket, FreeSocket, Backlog
    <3>3. \A u \in Workers : Serving(u)' <=> Serving(u) /\ u # w
      BY <2>1 DEF CloseSocket, Serving
    <3>4. Pool!Close(w)
      BY <1>1, <2>1, <3>1, <3>2, <3>3 DEF CloseSocket, Pool!Close
    <3> QED BY <3>4 DEF Pool!Next
  <2>2. CASE ConnectionClosed(w)
    <3>1. socketIsOpen[w] /\ ~Serving(w) /\ Backlog' = Backlog
      BY <2>2 DEF ConnectionClosed, WorkerInv, IdleIsClean, Serving, Backlog
    <3>2. \A u \in Workers : Serving(u)' <=> Serving(u)
      BY <2>2 DEF ConnectionClosed, Serving
    <3>3. \A u \in Workers : socketIsOpen'[u] <=> socketIsOpen[u] /\ u # w
      BY <2>2 DEF ConnectionClosed
    <3>4. Pool!Release(w)
      BY <1>1, <2>2, <3>1, <3>2, <3>3 DEF ConnectionClosed, Pool!Release
    <3> QED BY <3>4 DEF Pool!Next
  <2>3. CASE ~CloseSocket(w) /\ ~ConnectionClosed(w)
    <3>1. /\ UNCHANGED <<socket, socketIsOpen, sock>>
          /\ pc[w] # "closed" /\ \E l \in PCs \ {"closed"} : Goto(w, l)
      BY <1>1, <2>3
      DEF WorkerStep, FlagsWait, LoopTest, RecvEnd, HttpHandlerReturns,
          WsHandlerReturns, UpgradeAccepted, UpgradeRefused, UpgradeSent,
          UpgradeFailed, IncTest, IncLoad, IncStore, CreateHandler, OnOpen, CheckClose, OnClose, DecStore,
          PCs, BlockingCalls
    <3> QED BY <1>1, <3>1, PoolStutter
  <2> QED BY <2>1, <2>2, <2>3
<1>2. ASSUME NEW w \in Workers, WorkerReceives(w), UNCHANGED mainVars
      PROVE UNCHANGED Pool!vars
  <2>1. /\ UNCHANGED <<socket, socketIsOpen, sock>>
        /\ pc[w] # "closed" /\ \E l \in PCs \ {"closed"} : Goto(w, l)
    BY <1>2 DEF WorkerReceives, RecvHttp, RecvWs, RecvWouldBlock, PCs,
                BlockingCalls
  <2> QED BY <1>2, <2>1, PoolStutter
<1>3. ASSUME NEW w \in Workers, TimerExpires(w), UNCHANGED mainVars
      PROVE UNCHANGED Pool!vars
  BY <1>3, PoolStutter DEF TimerExpires
<1>4. ASSUME NEW s \in Sockets, Connect(s) \/ ClientLeaves(s),
             UNCHANGED mainVars
      PROVE [Pool!Next]_(Pool!vars)
  <2>1. CASE Connect(s)
    <3>1. sock[s] = "free" /\ Backlog' = Backlog \cup {s} /\ s \notin Backlog
      BY <2>1 DEF Connect, ClientConnects, Backlog
    <3>2. ~Accepted(s) /\ s \notin lost /\ \A w \in Workers : ~Serves(w, s)
      BY <3>1 DEF OwnerInv, OneOwner
    <3>3. s # cltSock
      BY <3>2 DEF Accepted, OwnerInv, MainLocals
    <3>4. \A w \in Workers : Serving(w)' <=> Serving(w)
      BY <2>1 DEF Connect, ClientConnects, Serving
    <3>5. Pool!Arrive(s)
      BY <1>4, <2>1, <3>1, <3>2, <3>3, <3>4
      DEF Connect, ClientConnects, Serves, Pool!Arrive
    <3> QED BY <3>5 DEF Pool!Next
  <2>2. CASE ClientLeaves(s)
    BY <2>2, <1>4, PoolStutter DEF ClientLeaves
  <2> QED BY <1>4, <2>1, <2>2
<1>5. CASE MainStep
  <2>1. ASSUME NEW s \in Sockets, Accept(s) PROVE Pool!Take(s)
    <3>1. s \in Backlog /\ Backlog' = Backlog \ {s}
      BY <2>1 DEF Accept, Backlog
    <3>2. \A w \in Workers : Serving(w)' <=> Serving(w)
      BY <2>1 DEF Accept, Serving
    <3> QED
      BY <2>1, <3>1, <3>2 DEF Accept, OwnerInv, MainLocals, Pool!Take
  <2>2. CASE ScanBusy
    <3>1. Backlog' = Backlog /\ \A w \in Workers : Serving(w)' <=> Serving(w)
      BY <2>2 DEF ScanBusy, Backlog, Serving
    <3>2. 1..(it' - 1) = (1..(it - 1)) \cup {it}
      BY <2>2 DEF ScanBusy
    <3>3. Pool!Look(it)
      BY <2>2, <3>1, <3>2 DEF ScanBusy, OwnerInv, MainLocals, Pool!Look
    <3> QED BY <2>2, <3>3 DEF ScanBusy, Pool!Next
  <2>3. CASE ScanIdle
    <3>1. it \in Workers /\ ~socketIsOpen[it] /\ pc[it] # "closed"
      BY <2>3 DEF ScanIdle, WorkerInv, IdleIsClean
    <3>2. Backlog' = Backlog
      BY <2>3 DEF ScanIdle, StartConnection, Backlog
    <3>3. \A w \in Workers : Serving(w)' <=> Serving(w) \/ w = it
      BY <2>3, <3>1 DEF ScanIdle, StartConnection, Serving
    <3>4. \A w \in Workers :
            /\ socketIsOpen'[w] <=> socketIsOpen[w] \/ w = it
            /\ socket'[w] = IF w = it THEN cltSock ELSE socket[w]
      BY <2>3, <3>1 DEF ScanIdle, StartConnection
    <3>5. 1..(it' - 1) = {} /\ cltSock' = NoSocket /\ cltSock # NoSocket
      BY <2>3 DEF ScanIdle, NextAccept, OwnerInv, MainLocals
    <3>6. PICK w \in Workers : w = it
      BY <3>1
    <3>7. {u \in Workers : socketIsOpen'[u]} =
            {u \in Workers : socketIsOpen[u]} \cup {w}
      BY <3>4, <3>6
    <3>8. [u \in Workers |-> IF Serving(u)' THEN socket'[u] ELSE NoSocket] =
            [[u \in Workers |-> IF Serving(u) THEN socket[u] ELSE NoSocket]
               EXCEPT ![w] = cltSock]
      BY <3>3, <3>4, <3>6
    <3>9. Pool!Assign(w)
      <4>1. lost' = lost /\ w \notin {u \in Workers : socketIsOpen[u]}
        BY <2>3, <3>1, <3>6 DEF ScanIdle
      <4> HIDE DEF Serving, Backlog, IInv
      <4> QED BY <4>1, <3>1, <3>2, <3>5, <3>6, <3>7, <3>8 DEF Pool!Assign
    <3> QED BY <3>9 DEF Pool!Next
  <2>4. CASE ScanRefuse
    <3>1. cltSock \in Sockets /\ sock[cltSock] = "open"
      BY <2>4 DEF ScanRefuse, OwnerInv, MainLocals, OneOwner, Accepted
    <3>2. Backlog' = Backlog /\ \A w \in Workers : Serving(w)' <=> Serving(w)
      BY <2>4, <3>1 DEF ScanRefuse, FreeSocket, Backlog, Serving
    <3>3. 1..(it - 1) = Workers /\ 1..(it' - 1) = {} /\ cltSock' = NoSocket
      BY <2>4 DEF ScanRefuse, NextAccept
    <3>4. Pool!Refuse
      BY <2>4, <3>1, <3>2, <3>3 DEF ScanRefuse, Pool!Refuse
    <3> QED BY <3>4 DEF Pool!Next
  <2>5. CASE ScanWild
    <3>1. Backlog' = Backlog /\ \A w \in Workers : Serving(w)' <=> Serving(w)
      BY <2>5 DEF ScanWild, Backlog, Serving
    <3>2. 1..(it - 1) = Workers /\ 1..(it' - 1) = {} /\ cltSock' = NoSocket
      BY <2>5 DEF ScanWild, NextAccept
    <3>3. cltSock \in Sockets
      BY <2>5 DEF ScanWild, OwnerInv, MainLocals
    <3>4. Pool!Lose
      BY <2>5, <3>1, <3>2, <3>3 DEF ScanWild, Pool!Lose
    <3> QED BY <3>4 DEF Pool!Next
  <2> QED BY <1>5, <2>1, <2>2, <2>3, <2>4, <2>5 DEF MainStep, Pool!Next
<1>6. CASE UNCHANGED vars
  BY <1>6, PoolStutter DEF vars
<1> QED
  BY <1>1, <1>2, <1>3, <1>4, <1>5, <1>6 DEF Next

\* The server implements the abstract pool of connections.
THEOREM ImplementsPool == Spec => PoolSpec
<1>1. Init => Pool!Init
  <2> SUFFICES ASSUME Init PROVE Pool!Init
    OBVIOUS
  <2>1. Backlog = {} /\ \A w \in Workers : ~Serving(w) /\ ~socketIsOpen[w]
    BY DEF Init, ConnInit, Backlog, Serving
  <2> QED BY <2>1 DEF Init, Pool!Init
<1> QED
  BY <1>1, PoolStep, Invariance, PTL DEF Spec, PoolSpec, Pool!Spec
=============================================================================
