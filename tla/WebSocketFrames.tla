-------------------------- MODULE WebSocketFrames ---------------------------
(***************************************************************************)
(* Who writes what to the connections that one ClientConnection serves one *)
(* after the other: the worker thread, which answers requests and sends    *)
(* frames from the callbacks of its WebSocketHandler, and application      *)
(* threads that call HttpServer::wsSendTextAll().                          *)
(*                                                                         *)
(* ClientConnection::sendFrame() takes no lock: it looks at _socketIsOpen  *)
(* and _isWebSocket, then sends a header and a payload with two calls of   *)
(* send(), each of which may take several calls of _socket->send().  Every *)
(* access to a variable of the object is a step; bytes are numbered units. *)
(***************************************************************************)
EXTENDS Integers, Sequences, FiniteSets

CONSTANTS Worker,      \* the thread of receiveData()
          Apps,        \* the threads that broadcast
          Origins,     \* the paths of the websocket handlers
          MaxSession,  \* bound: connections served
          MaxFrames,   \* bound: calls by each thread, close frames not counted
          HeaderLen,   \* units of a frame's header
          PayloadLen   \* units of a payload

\* No path: the connection was not upgraded.
NoOrigin == "none"

ASSUME ThreadAssumption == Worker \notin Apps
ASSUME OriginAssumption == Origins # {} /\ NoOrigin \notin Origins
ASSUME BoundAssumption == MaxSession \in Nat /\ MaxFrames \in Nat
ASSUME LengthAssumption ==
  HeaderLen \in Nat \ {0} /\ PayloadLen \in Nat \ {0}

Threads == Apps \cup {Worker}
Sessions == 1..MaxSession

VARIABLES
  session,       \* _socket: the connection it points to, the n-th one served
  socketIsOpen,  \* _socketIsOpen
  isWebSocket,   \* _isWebSocket
  wsOrigin,      \* _wsOrigin
  stage,         \* where receiveData() is
  url,           \* the path each connection was upgraded for, or "none"
  closed,        \* the connections whose socket was closed and deleted
  out,           \* external: what each connection carries to its client
  call,          \* the sendFrame() each thread is in
  count,         \* how many calls of sendFrame() each thread began
  quiet,         \* history: the threads whose call began outside an upgrade
                 \* and saw no step of another thread
  returned       \* history: the frames for which sendFrame() returned true, and
                 \* of these the ones whose call was quiet

objVars == <<session, socketIsOpen, isWebSocket, wsOrigin, url, closed>>
vars == <<objVars, stage, out, call, count, quiet, returned>>

\* A frame is known by its sender, the sender's count and the origin it is
\* meant for; a unit is a frame's header or payload unit number i.
Frame(t) == [by |-> t, n |-> count[t], to |-> call[t].to, len |-> call[t].len]
Unit(f, i) == [frame |-> f, i |-> i]
FrameLen(f) == HeaderLen + f.len

\* What the worker sends for HTTP is a unit of a frame that nobody counts.
Plain(i) == Unit([by |-> Worker, n |-> 0, to |-> NoOrigin, len |-> 0], i)
Response == Plain(0)
Switching == Plain(1)

\* How far a call is: the units of the header or of the payload that are
\* sent, and the result so far.
NewCall(at, to, len) ==
  [at |-> at, to |-> to, len |-> len, sent |-> 0, ok |-> TRUE]
NoCall == NewCall("none", NoOrigin, 0)

Stages == {"idle", "http", "origin", "ws", "goodbye", "close", "closed"}

AnyOrigin == Origins \cup {NoOrigin}
Lengths == {0, PayloadLen}
AllFrames == [by : Threads, n : Nat, to : AnyOrigin, len : Lengths]
Units == [frame : AllFrames, i : Nat]
Steps == {"none", "asked", "check", "header", "payload"}
CallRecords ==
  [at : Steps, to : AnyOrigin, len : Lengths, sent : Nat, ok : BOOLEAN]
PartLen(c) ==
  CASE c.at = "header" -> HeaderLen
    [] c.at = "payload" -> c.len
    [] OTHER -> 0
Calls == {c \in CallRecords : c.sent <= PartLen(c)}

TypeOK ==
  /\ session \in 0..MaxSession
  /\ socketIsOpen \in BOOLEAN /\ isWebSocket \in BOOLEAN
  /\ wsOrigin \in AnyOrigin
  /\ stage \in Stages
  /\ url \in [Sessions -> AnyOrigin]
  /\ closed \subseteq Sessions
  /\ out \in [Sessions -> Seq(Units)]
  /\ call \in [Threads -> Calls]
  /\ count \in [Threads -> 0..(MaxFrames + MaxSession)]
  /\ quiet \subseteq Threads
  /\ returned \in [all : SUBSET AllFrames, quiet : SUBSET AllFrames]

Init ==
  /\ session = 0
  /\ socketIsOpen = FALSE /\ isWebSocket = FALSE
  /\ wsOrigin = NoOrigin
  /\ stage = "idle"
  /\ url = [k \in Sessions |-> NoOrigin]
  /\ closed = {}
  /\ out = [k \in Sessions |-> << >>]
  /\ call = [t \in Threads |-> NoCall]
  /\ count = [t \in Threads |-> 0]
  /\ quiet = {}
  /\ returned = [all |-> {}, quiet |-> {}]

-----------------------------------------------------------------------------
(* The life of the connection, as receiveData() takes it through.          *)

\* start() of the next connection.
Start ==
  /\ stage = "idle" /\ session < MaxSession
  /\ session' = session + 1
  /\ socketIsOpen' = TRUE
  /\ stage' = "http"
  /\ UNCHANGED <<isWebSocket, wsOrigin, url, closed, out, call, count, returned>>

\* A response of an HTTP handler, in one piece.
HttpRespond ==
  /\ stage = "http" /\ Len(out[session]) = 0
  /\ out' = [out EXCEPT ![session] = Append(@, Response)]
  /\ UNCHANGED <<objVars, stage, call, count, returned>>

HttpClose ==
  /\ stage = "http"
  /\ stage' = "close"
  /\ UNCHANGED <<objVars, out, call, count, returned>>

\* _isWebSocket = sendUpgradeResponse()
Upgrade(o) ==
  /\ stage = "http"
  /\ out' = [out EXCEPT ![session] = Append(@, Switching)]
  /\ isWebSocket' = TRUE
  /\ url' = [url EXCEPT ![session] = o]
  /\ stage' = "origin"
  /\ UNCHANGED <<session, socketIsOpen, wsOrigin, closed, call, count, returned>>

\* _wsOrigin = _request.get_url().c_str(), after the handler was created.
SetOrigin ==
  /\ stage = "origin"
  /\ wsOrigin' = url[session]
  /\ stage' = "ws"
  /\ UNCHANGED <<session, socketIsOpen, isWebSocket, url, closed, out, call,
                 count, returned>>

\* A callback of the handler sends a frame, or a ping is answered.
WorkerSends ==
  /\ stage = "ws" /\ call[Worker].at = "none" /\ count[Worker] < MaxFrames
  /\ count' = [count EXCEPT ![Worker] = @ + 1]
  /\ call' = [call EXCEPT ![Worker] = NewCall("check", url[session], PayloadLen)]
  /\ UNCHANGED <<objVars, stage, out, returned>>

\* Mutant: the socket is closed before the close frame is sent.
GoodbyeAfterClose ==
  /\ stage = "ws" /\ call[Worker].at = "none"
  /\ count' = [count EXCEPT ![Worker] = @ + 1]
  /\ call' = [call EXCEPT ![Worker] = NewCall("check", url[session], 0)]
  /\ closed' = closed \cup {session}
  /\ stage' = "goodbye"
  /\ UNCHANGED <<session, socketIsOpen, isWebSocket, wsOrigin, url, out,
                 returned>>

\* onClose() has returned: sendFrame(WSop_close), without payload.
Goodbye ==
  /\ stage = "ws" /\ call[Worker].at = "none"
  /\ count' = [count EXCEPT ![Worker] = @ + 1]
  /\ call' = [call EXCEPT ![Worker] = NewCall("check", url[session], 0)]
  /\ stage' = "goodbye"
  /\ UNCHANGED <<objVars, out, returned>>

\* delete _webSocketHandler; _isWebSocket = false
LeaveWebSocket ==
  /\ stage = "goodbye" /\ call[Worker].at = "none"
  /\ isWebSocket' = FALSE
  /\ stage' = "close"
  /\ UNCHANGED <<session, socketIsOpen, wsOrigin, url, closed, out, call,
                 count, returned>>

\* _socket->close() deletes the socket.
CloseSocket ==
  /\ stage = "close"
  /\ closed' = closed \cup {session}
  /\ stage' = "closed"
  /\ UNCHANGED <<session, socketIsOpen, isWebSocket, wsOrigin, url, out, call,
                 count, returned>>

\* _socketIsOpen = false
Closed ==
  /\ stage = "closed"
  /\ socketIsOpen' = FALSE
  /\ stage' = "idle"
  /\ UNCHANGED <<session, isWebSocket, wsOrigin, url, closed, out, call, count,
                 returned>>

-----------------------------------------------------------------------------
(* wsSendTextAll() and sendFrame().                                        *)

\* The loop's isWebSocket(), and textWs() looks at it once more.
Broadcast(a, o) ==
  /\ call[a].at = "none" /\ count[a] < MaxFrames
  /\ isWebSocket
  /\ count' = [count EXCEPT ![a] = @ + 1]
  /\ call' = [call EXCEPT ![a] = NewCall("asked", o, PayloadLen)]
  /\ UNCHANGED <<objVars, stage, out, returned>>

\* _wsOrigin.compare(url) == 0
CompareOrigin(a) ==
  /\ call[a].at = "asked"
  /\ call' = [call EXCEPT ![a] =
                IF wsOrigin = @.to THEN [@ EXCEPT !.at = "check"] ELSE NoCall]
  /\ UNCHANGED <<objVars, stage, out, count, returned>>

\* sendFrame() returns false at once unless this is an open websocket.
CheckOpen(t) ==
  /\ call[t].at = "check"
  /\ call' = [call EXCEPT ![t] =
                IF socketIsOpen /\ isWebSocket THEN [@ EXCEPT !.at = "header"]
                                               ELSE NoCall]
  /\ UNCHANGED <<objVars, stage, out, count, returned>>

Base(t) == IF call[t].at = "header" THEN 0 ELSE HeaderLen
Goal(t) == PartLen(call[t])

\* What follows a send() that came to its end: the payload is sent whatever
\* became of the header, and the call returns ok.
AfterSend(t, ok) ==
  IF call[t].at = "header" /\ call[t].len > 0
    THEN /\ call' = [call EXCEPT ![t] =
                       [@ EXCEPT !.at = "payload", !.sent = 0, !.ok = ok]]
         /\ UNCHANGED returned
    ELSE /\ call' = [call EXCEPT ![t] = NoCall]
         /\ returned' =
              IF ok THEN [all |-> returned.all \cup {Frame(t)},
                          quiet |-> IF t \in quiet
                                      THEN returned.quiet \cup {Frame(t)}
                                      ELSE returned.quiet]
                    ELSE returned

\* Units n + 1, ..., n + m of the call's header or payload.
Part(t, n, m) == [i \in 1..m |-> Unit(Frame(t), Base(t) + n + i)]

\* Mutant: the loop of send() begins anew after a part was sent.
SendPartAnew(t) ==
  /\ call[t].at \in {"header", "payload"} /\ session \notin closed
  /\ \E m \in 1..(Goal(t) - call[t].sent) :
       /\ out' = [out EXCEPT ![session] = @ \o Part(t, 0, m)]
       /\ IF call[t].sent + m = Goal(t)
            THEN AfterSend(t, call[t].ok)
            ELSE /\ call' = [call EXCEPT ![t].sent = @ + m]
                 /\ UNCHANGED returned
  /\ UNCHANGED <<objVars, stage, count>>

\* Mutant: every part is asked to be as long as the whole.
SendPartWhole(t) ==
  /\ call[t].at \in {"header", "payload"} /\ session \notin closed
  /\ \E m \in 1..Goal(t) :
       /\ out' = [out EXCEPT ![session] = @ \o Part(t, call[t].sent, m)]
       /\ IF call[t].sent + m = Goal(t)
            THEN AfterSend(t, call[t].ok)
            ELSE /\ call' = [call EXCEPT ![t].sent = @ + m]
                 /\ UNCHANGED returned
  /\ UNCHANGED <<objVars, stage, count>>

\* One _socket->send() in the loop of send() takes m units; WOULD_BLOCK
\* changes nothing.
SendPart(t) ==
  /\ call[t].at \in {"header", "payload"} /\ session \notin closed
  /\ \E m \in 1..(Goal(t) - call[t].sent) :
       /\ out' = [out EXCEPT ![session] = @ \o Part(t, call[t].sent, m)]
       /\ IF call[t].sent + m = Goal(t)
            THEN AfterSend(t, call[t].ok)
            ELSE /\ call' = [call EXCEPT ![t].sent = @ + m]
                 /\ UNCHANGED returned
  /\ UNCHANGED <<objVars, stage, count>>

\* _socket->send() fails; so it does, at best, on a socket already deleted.
SendFails(t) ==
  /\ call[t].at \in {"header", "payload"}
  /\ AfterSend(t, FALSE)
  /\ UNCHANGED <<objVars, stage, out, count>>

-----------------------------------------------------------------------------

WorkerStep ==
  \/ Start \/ HttpRespond \/ HttpClose \/ SetOrigin
  \/ \E o \in Origins : Upgrade(o)
  \/ WorkerSends \/ Goodbye \/ LeaveWebSocket \/ CloseSocket \/ Closed
  \/ CheckOpen(Worker) \/ SendPart(Worker) \/ SendFails(Worker)

AppStep(a) ==
  \/ \E o \in Origins : Broadcast(a, o)
  \/ CompareOrigin(a) \/ CheckOpen(a) \/ SendPart(a) \/ SendFails(a)

\* A step of t disturbs the calls of all others.
Disturb(t) ==
  quiet' = IF count'[t] = count[t] THEN quiet \cap {t}
           ELSE IF stage = "origin" THEN {} ELSE {t}

Next ==
  \/ WorkerStep /\ Disturb(Worker)
  \/ \E a \in Apps : AppStep(a) /\ Disturb(a)

Spec == Init /\ [][Next]_vars

-----------------------------------------------------------------------------
(* Properties.                                                             *)

\* A frame stands on connection k as one piece, header and payload, with
\* nothing of another frame between its units.
StandsOn(f, k) ==
  \E p \in 0..(Len(out[k]) - FrameLen(f)) :
    \A i \in 1..FrameLen(f) : out[k][p + i] = Unit(f, i)

Reaches(f) == \E k \in Sessions : url[k] = f.to /\ StandsOn(f, k)

\* When sendFrame() returns true, and nobody else touched the connection
\* during the call, the frame stands in one piece on a websocket of the
\* origin it was sent to, whatever parts send() sent it in
\* (ClientConnection.cpp:239-253, 444-490).
QuietFrameReaches == \A f \in returned.quiet : Reaches(f)

\* However threads interleave, no unit of a thread is sent twice or out of
\* order on a connection: for every thread, frames and the units within
\* them go up.
Before(u, v) ==
  \/ u.frame.n < v.frame.n
  \/ u.frame.n = v.frame.n /\ u.i < v.i

NothingTwice ==
  \A k \in Sessions : \A i, j \in 1..Len(out[k]) :
    i < j /\ out[k][i].frame.by = out[k][j].frame.by =>
      Before(out[k][i], out[k][j])

\* What the worker writes goes to a connection it still holds: it never
\* calls send() after its own close() (ClientConnection.cpp:166, 171).
WorkerHoldsItsSocket ==
  call[Worker].at \in {"header", "payload"} =>
    session \notin closed /\ socketIsOpen /\ isWebSocket

\* ClientConnection.cpp:442 says of sendFrame(): "@return true if ok".
TrueIfOk == \A f \in returned.all : Reaches(f)
=============================================================================
