-------------------------- MODULE WebSocketReceive --------------------------
(***************************************************************************)
(* ClientConnection::handleWebSocket(): what becomes of the frames that a  *)
(* client sends.  TCP hands them over in pieces of its own choosing: one   *)
(* recv() may return several frames, or end within one.  The code takes    *)
(* the first bytes of every recv() for the header of a frame and looks at  *)
(* that frame only.  Messages split into fragments are discarded; the flag *)
(* _mPrevFin remembers whether the frame before was the last of a message. *)
(***************************************************************************)
EXTENDS Integers, Sequences, SequencesExt

CONSTANTS MaxFrames,   \* bound: frames a client sends on a connection
          MaxSession   \* bound: websockets served one after the other

ASSUME BoundAssumption == MaxFrames \in Nat /\ MaxSession \in Nat

VARIABLES
  mPrevFin,   \* _mPrevFin: never initialised, never reset
  session,    \* the number of the connection
  isWebSocket,\* _isWebSocket
  sent,       \* external: the frames the client sent on this connection
  wire,       \* external: the units on their way, headers and payloads
  delivered,  \* what onMessage() was given on this connection
  ponged,     \* the frames whose bytes were sent back
  cuts,       \* history: how the results of recv() were cut
  firsts      \* history: the frames recv() began with, with _mPrevFin then

vars == <<mPrevFin, session, isWebSocket, sent, wire, delivered, ponged, cuts,
          firsts>>

\* A frame: its opcode ("text" stands for binary too), whether it is the last
\* of its message, and whether its payload is too long for the one-byte length.
Opcodes == {"text", "continuation", "ping", "pong", "close"}
Frames == [op : Opcodes, fin : BOOLEAN, long : BOOLEAN]

Cuts == {"frame", "several", "part"}

Units == [kind : {"header", "payload"}, n : 1..MaxFrames]
Header(n) == [kind |-> "header", n |-> n]
Payload(n) == [kind |-> "payload", n |-> n]

Init ==
  /\ mPrevFin \in BOOLEAN
  /\ session = 0
  /\ isWebSocket = FALSE
  /\ sent = << >> /\ wire = << >>
  /\ delivered = << >> /\ ponged = {} /\ cuts = {} /\ firsts = {}

TypeOK ==
  /\ mPrevFin \in BOOLEAN /\ isWebSocket \in BOOLEAN /\ cuts \subseteq Cuts
  /\ session \in 0..MaxSession
  /\ sent \in Seq(Frames) /\ Len(sent) <= MaxFrames
  /\ wire \in Seq(Units)
  /\ delivered \in Seq(0..MaxFrames)
  /\ ponged \subseteq 1..MaxFrames
  /\ firsts \subseteq [n : 1..MaxFrames, prev : BOOLEAN]

-----------------------------------------------------------------------------
(* The client, external: it keeps the rules of fragmentation, control      *)
(* frames may stand between the fragments of a message.                    *)

Control(f) == f.op \in {"ping", "pong", "close"}

\* Behind its n-th frame the client is within a message: the last data frame
\* there was not the end of one.
Within(n) ==
  \E i \in 1..n :
    /\ ~Control(sent[i]) /\ ~sent[i].fin
    /\ \A j \in (i + 1)..n : Control(sent[j])

\* The message the next data frame belongs to has begun and not ended.
Fragmenting == Within(Len(sent))

Legal(f) ==
  IF Control(f) THEN f.fin /\ ~f.long
                ELSE (f.op = "continuation") <=> Fragmenting

ClientSends(f) ==
  /\ isWebSocket /\ Len(sent) < MaxFrames /\ Legal(f)
  /\ sent' = Append(sent, f)
  /\ wire' = wire \o <<Header(Len(sent) + 1), Payload(Len(sent) + 1)>>
  /\ UNCHANGED <<mPrevFin, session, isWebSocket, delivered, ponged, cuts,
                 firsts>>

-----------------------------------------------------------------------------
(* receiveData() and handleWebSocket().                                    *)

\* handleUpgradeRequest() makes the connection a websocket.
Upgrade ==
  /\ ~isWebSocket /\ session < MaxSession
  /\ session' = session + 1
  /\ isWebSocket' = TRUE
  /\ sent' = << >> /\ wire' = << >>
  /\ delivered' = << >> /\ ponged' = {} /\ cuts' = {} /\ firsts' = {}
  /\ UNCHANGED mPrevFin

\* What the code takes for the header: the bytes of a payload may look like
\* any header.
SeenHeaders(unit) ==
  IF unit.kind = "header" THEN {sent[unit.n]} ELSE Frames

\* Mutant: the pointer to the payload is one frame too far.
MessageBehind(chunk) ==
  IF /\ Head(chunk).kind = "header"
     /\ Len(chunk) > 1
    THEN Head(chunk).n + 1
    ELSE 0

\* What onMessage() is given: the message, or 0 for bytes that are not one
\* (an earlier recv() left them in the buffer, or they are no frame at all).
Message(chunk) ==
  IF /\ Head(chunk).kind = "header"
     /\ Len(chunk) > 1
    THEN Head(chunk).n
    ELSE 0

\* What recv() returned: one frame, several, or a part of one at an end.
Cut(chunk) ==
  IF Head(chunk).kind = "payload" \/ Last(chunk).kind = "header" THEN "part"
  ELSE IF Len(chunk) = 2 THEN "frame" ELSE "several"

\* The branches of handleWebSocket() for the header f of the first frame.
Ping(f, chunk) ==
  /\ f.op = "ping"
  /\ ponged' = ponged \cup {u.n : u \in Range(chunk)}
  /\ UNCHANGED <<mPrevFin, isWebSocket, delivered>>

\* handleWebSocket() returns true: the caller closes the connection.
Close(f) ==
  /\ f.op = "close"
  /\ isWebSocket' = FALSE
  /\ UNCHANGED <<mPrevFin, delivered, ponged>>

\* Mutant: the flag is not updated.
FragmentNotRemembered(f) ==
  /\ f.op \notin {"ping", "close"}
  /\ ~f.fin \/ ~mPrevFin
  /\ UNCHANGED <<mPrevFin, isWebSocket, delivered, ponged>>

\* if (!fin || !_mPrevFin): not an error, just discard it.
Fragment(f) ==
  /\ f.op \notin {"ping", "close"}
  /\ ~f.fin \/ ~mPrevFin
  /\ mPrevFin' = f.fin
  /\ UNCHANGED <<isWebSocket, delivered, ponged>>

\* Mutant: a whole message is delivered whatever its opcode.
WholeAnyOpcode(f, chunk) ==
  /\ f.op \notin {"ping", "close"}
  /\ f.fin /\ mPrevFin
  /\ delivered' = IF ~f.long THEN Append(delivered, Message(chunk))
                             ELSE delivered
  /\ UNCHANGED <<mPrevFin, isWebSocket, ponged>>

\* A frame that is a whole message: discarded when its length is extended,
\* delivered when it is text.
Whole(f, chunk) ==
  /\ f.op \notin {"ping", "close"}
  /\ f.fin /\ mPrevFin
  /\ delivered' = IF ~f.long /\ f.op = "text"
                    THEN Append(delivered, Message(chunk)) ELSE delivered
  /\ UNCHANGED <<mPrevFin, isWebSocket, ponged>>

\* recv() returns the first m units on the wire.
Receive(m) ==
  /\ isWebSocket
  /\ LET chunk == SubSeq(wire, 1, m)
     IN  /\ wire' = SubSeq(wire, m + 1, Len(wire))
         /\ cuts' = cuts \cup {Cut(chunk)}
         /\ firsts' = firsts \cup {[n |-> Head(chunk).n, prev |-> mPrevFin]}
         /\ \E f \in SeenHeaders(Head(chunk)) :
              Ping(f, chunk) \/ Close(f) \/ Fragment(f) \/ Whole(f, chunk)
  /\ UNCHANGED <<session, sent>>

\* The client closes, or the watchdog expires.
Leave ==
  /\ isWebSocket
  /\ isWebSocket' = FALSE
  /\ UNCHANGED <<mPrevFin, session, sent, wire, delivered, ponged, cuts, firsts>>

Next ==
  \/ Upgrade
  \/ \E f \in Frames : ClientSends(f)
  \/ \E m \in 1..Len(wire) : Receive(m)
  \/ Leave

Spec == Init /\ [][Next]_vars

-----------------------------------------------------------------------------
(* Properties.                                                             *)

\* The frames that are a short text message of their own.
Messages ==
  {n \in 1..Len(sent) : LET f == sent[n]
                        IN  f.op = "text" /\ f.fin /\ ~f.long}

\* As long as no recv() ended within a frame, every message the handler is
\* given is one that the client sent as such, in the order it sent them, and
\* none twice (ClientConnection.cpp:255-310).
NothingInvented ==
  "part" \notin cuts =>
    /\ Range(delivered) \subseteq Messages
    /\ \A i, j \in 1..Len(delivered) : i < j => delivered[i] < delivered[j]

\* As long as every recv() returns one frame, every short text message of
\* its own is delivered, unless it was the first frame looked at and
\* _mPrevFin was false from before: _mPrevFin is neither initialised nor
\* reset (ClientConnection.h:89, ClientConnection.cpp:273).
OnlyFirstIsLost ==
  cuts \subseteq {"frame"} =>
    \A x \in firsts :
      x.n \in Messages \ Range(delivered) =>
        /\ ~x.prev
        /\ \A y \in firsts : y.n < x.n => sent[y.n].op \in {"ping", "close"}
=============================================================================
