---------------------------- MODULE ClientOutput ----------------------------
(***************************************************************************)
(* What one thread sends on one connection: the responses of an            *)
(* HttpResponseBuilder (sendContent(), sendHeaderAndFile()), the handshake *)
(* of sendUpgradeResponse() and the frames of sendFrame(), one call after  *)
(* the other, each with the loop of ClientConnection::send() below it.     *)
(* The socket takes a call of send() in parts, may have no room for a      *)
(* while, and may fail, for good or for one call; a file may turn out      *)
(* shorter than its size said.  The client reads what it got: responses by *)
(* their Content-Length, then frames by their headers.                     *)
(*                                                                         *)
(* A header is a sequence of lines, the empty line last; a payload is a    *)
(* sequence of bytes, named by their call and their place in it.           *)
(***************************************************************************)
EXTENDS FrameHeader, FileTypes, SequencesExt

CONSTANTS
  Files,      \* the files: records of name, size and onDisk
  Contents,   \* lengths of the strings given to sendContent()
  Frames,     \* the calls of sendFrame(): records of opcode, length and fin
  MaxCalls,   \* bound: calls on one connection
  MaxResponses, \* bound: responses among them, without the handshake
  ChunkSize   \* maxChunkSize, 1536 in the code

\* The greatest int.
MaxInt == 2147483647

ASSUME FilesAssumption ==
  \A f \in Files : f.size \in Nat /\ f.onDisk \in 0..f.size
ASSUME ContentsAssumption == Contents \subseteq Nat
ASSUME FramesAssumption ==
  Frames \subseteq [opcode : 0..15, length : 0..MaxInt, fin : BOOLEAN]
ASSUME CallsAssumption == MaxCalls \in Nat /\ MaxResponses \in Nat
ASSUME ChunkAssumption == ChunkSize \in Nat \ {0}

VARIABLES
  kind,         \* the call: "file", "content", "missing" (file.open()
                \* failed), "upgrade" or "frame"
  pc,           \* the step of the call; "idle" between calls
  size,         \* fileSize, content.length() or length
  onDisk,       \* external: the bytes the file holds
  pos,          \* external: the read position of the file
  bytesRead,    \* bytesRead
  buf,          \* what send() is called with
  bytesSent,    \* bytesSent of that send()
  headers,      \* headers["Content-Length"] and headers["Content-Type"] of
                \* the builder, -1 and "" when they are not in the map
  isWebSocket,  \* _isWebSocket
  ret,          \* what the last call returned
  out,          \* external: what the socket took
  calls,        \* history: of each call, what was due and what it means
  due,          \* history: what was due from all of them, one after the other
  failures      \* history: the calls of send() and file.read() that failed

local == <<kind, size, onDisk, pos, bytesRead>>
sending == <<buf, bytesSent>>
history == <<calls, due, failures>>
vars == <<local, pc, sending, headers, isWebSocket, ret, out, history>>

NoHeaders == [length |-> -1, type |-> ""]

Line(name, value) == [unit |-> name, value |-> value]
Blank == Line("blank", 0)

TypeLine(type) == [unit |-> "type", type |-> type]
Byte(call, i) == [unit |-> "byte", call |-> call, i |-> i]

\* The n bytes behind byte number from of the payload of a call.
Bytes(call, from, n) == [i \in 1..n |-> Byte(call, from + i)]

\* The bytes of a frame's header.
Octets(h) == [i \in 1..Len(h) |-> [unit |-> "octet", value |-> h[i]]]

ContentTypes ==
  {FileTypeMapping[i].value : i \in DOMAIN FileTypeMapping} \cup {Html, ""}

Units ==
  [unit : {"status", "length", "accept", "blank", "octet"}, value : Nat]
    \cup [unit : {"type"}, type : ContentTypes]
    \cup [unit : {"byte"}, call : Nat, i : Nat]

\* How the client will take what a call sends.
Meanings ==
  [kind : {"response"}, head : {101, 200, 404, 500}, types : SUBSET ContentTypes,
   end : {"length", "close", "none"}]
    \cup [kind : {"frame"}, head : Frames, types : {{}}, end : {"length"}]

Sendings == {"header", "chunk", "payload"}

TypeOK ==
  /\ kind \in {"none", "file", "content", "missing", "upgrade", "frame"}
  /\ pc \in Sendings \cup {"idle", "read"}
  /\ size \in Nat /\ onDisk \in 0..size /\ pos \in 0..onDisk
  /\ bytesRead \in 0..size
  /\ bytesSent \in 0..Len(buf)
  /\ pc \in Sendings \/ (buf = << >> /\ bytesSent = 0)
  /\ headers \in [length : Nat \cup {-1}, type : ContentTypes]
  /\ isWebSocket \in BOOLEAN
  /\ ret \in {"none", "size", "errno", "error", "true", "false"}
  /\ buf \in Seq(Units) /\ out \in Seq(Units) /\ due \in Seq(Units)
  /\ calls \in Seq([due : Seq(Units), body : Seq(Units), means : Meanings])
  /\ Len(calls) <= MaxCalls
  /\ failures \subseteq (1..Len(calls)) \X (Sendings \cup {"read"})

Init ==
  /\ kind = "none" /\ pc = "idle"
  /\ size = 0 /\ onDisk = 0 /\ pos = 0 /\ bytesRead = 0
  /\ buf = << >> /\ bytesSent = 0
  /\ headers = NoHeaders
  /\ isWebSocket = FALSE
  /\ ret = "none"
  /\ out = << >>
  /\ calls = << >> /\ due = << >> /\ failures = {}

-----------------------------------------------------------------------------
(* The calls.                                                              *)

This == Len(calls)

\* send() is called with units; the call goes on as kind k, for n bytes.
Call(k, n, held, units) ==
  /\ pc = "idle" /\ This < MaxCalls
  /\ kind' = k /\ size' = n /\ onDisk' = held /\ pos' = 0 /\ bytesRead' = 0
  /\ pc' = "header"
  /\ buf' = units /\ bytesSent' = 0
  /\ ret' = "none"
  /\ UNCHANGED <<out, failures>>

\* The call that begins: what is due to the client, and how it will read it:
\* by its end, which its length tells, or only that the connection closes, or
\* nothing at all.
Due(units, n, means) ==
  LET body == Bytes(This + 1, 0, n)
  IN  /\ calls' = Append(calls, [due |-> units \o body, body |-> body,
                                 means |-> means])
      /\ due' = due \o (units \o body)

Response(status, types, end) ==
  [kind |-> "response", head |-> status, types |-> types, end |-> end]
Frame(f) ==
  [kind |-> "frame", head |-> f, types |-> {}, end |-> "length"]

\* sendHeader(): the status line, the entries of the map, an empty line.
HeaderLines(status, h) ==
  <<Line("status", status)>>
  \o (IF h.length = -1 THEN << >> ELSE <<Line("length", h.length)>>)
  \o (IF h.type = "" THEN << >> ELSE <<TypeLine(h.type)>>)
  \o <<Blank>>

\* A handler has a builder of its own, or goes on with the one before.
Builders == {NoHeaders, headers}

SendContent ==
  \E n \in Contents, status \in {200, 500}, h \in Builders :
    LET new == [h EXCEPT !.length = n, !.type = Html]
        units == HeaderLines(status, new)
    IN  /\ ~isWebSocket /\ This < MaxResponses
        /\ Call("content", n, n, units)
        /\ headers' = new
        /\ Due(units, n, Response(status, {Html}, "length"))
        /\ UNCHANGED isWebSocket

\* Mutant: a Content-Length that is in the map already stays.
SendFileKeepsLength ==
  \E f \in Files, h \in Builders :
    LET new == [h EXCEPT !.length = IF h.length = -1 THEN f.size ELSE h.length,
                         !.type = TypeOfFile(f.name, h.type)]
        units == HeaderLines(200, new)
    IN  /\ ~isWebSocket /\ This < MaxResponses
        /\ Call("file", f.size, f.onDisk, units)
        /\ headers' = new
        /\ Due(units, f.size, Response(200, TypesMeant(f.name), "length"))
        /\ UNCHANGED isWebSocket

\* sendHeaderAndFile(): file.open() and file.size().
SendFile ==
  \E f \in Files, h \in Builders :
    LET new == [h EXCEPT !.length = f.size, !.type = TypeOfFile(f.name, h.type)]
        units == HeaderLines(200, new)
    IN  /\ ~isWebSocket /\ This < MaxResponses
        /\ Call("file", f.size, f.onDisk, units)
        /\ headers' = new
        /\ Due(units, f.size, Response(200, TypesMeant(f.name), "length"))
        /\ UNCHANGED isWebSocket

\* sendHeaderAndFile() when the file cannot be opened: the map is sent as it
\* is, without a length or with one that stands there from before.
SendMissing ==
  \E h \in Builders :
    LET units == HeaderLines(404, h)
    IN  /\ ~isWebSocket /\ This < MaxResponses
        /\ Call("missing", 0, 0, units)
        /\ headers' = h
        /\ Due(units, 0, Response(404, {}, IF h = NoHeaders THEN "close" ELSE "none"))
        /\ UNCHANGED isWebSocket

\* sendUpgradeResponse(), the key being short enough.
SendUpgradeResponse ==
  LET units == <<Line("status", 101), Line("accept", 0), Blank>>
  IN  /\ ~isWebSocket
      /\ Call("upgrade", 0, 0, units)
      /\ Due(units, 0, Response(101, {}, "length"))
      /\ UNCHANGED <<headers, isWebSocket>>

\* sendFrame() on a websocket.
SendFrame ==
  \E f \in Frames :
    LET units == Octets(CreateHeader(f.opcode, f.length, f.fin))
    IN  /\ isWebSocket
        /\ Call("frame", f.length, f.length, units)
        /\ Due(units, f.length, Frame(f))
        /\ UNCHANGED <<headers, isWebSocket>>

\* sendFrame() on a connection that is none.
SendFrameRefused ==
  /\ ~isWebSocket
  /\ pc = "idle"
  /\ ret' = "false"
  /\ UNCHANGED <<local, pc, sending, headers, isWebSocket, out, history>>

-----------------------------------------------------------------------------
(* The loop of ClientConnection::send().                                   *)

Sending == pc \in Sendings /\ bytesSent < Len(buf)
Sent == pc \in Sendings /\ bytesSent = Len(buf)

\* Mutant: the loop sends from the beginning of the buffer each time.
SendPartAnew ==
  /\ Sending
  /\ \E m \in 1..(Len(buf) - bytesSent) :
       /\ out' = out \o SubSeq(buf, 1, m)
       /\ bytesSent' = bytesSent + m
  /\ UNCHANGED <<local, pc, buf, headers, isWebSocket, ret, history>>

\* The socket takes a part; NSAPI_ERROR_WOULD_BLOCK changes nothing.
SendPart ==
  /\ Sending
  /\ \E m \in 1..(Len(buf) - bytesSent) :
       /\ out' = out \o SubSeq(buf, bytesSent + 1, bytesSent + m)
       /\ bytesSent' = bytesSent + m
  /\ UNCHANGED <<local, pc, buf, headers, isWebSocket, ret, history>>

\* send() is called with the bytes units of the payload.
SendNext(step, units) == pc' = step /\ buf' = units /\ bytesSent' = 0

\* The call returns; its local variables are gone.
Return(r) ==
  /\ pc' = "idle" /\ ret' = r
  /\ kind' = "none" /\ size' = 0 /\ onDisk' = 0 /\ pos' = 0 /\ bytesRead' = 0
  /\ buf' = << >> /\ bytesSent' = 0

Failed(step) == <<This, step>> \in failures

Payload == Bytes(This, 0, size)

\* Mutant: a chunk that was not sent is read again.
SendFailsAgain ==
  /\ Sending /\ pc = "chunk"
  /\ failures' = failures \cup {<<This, pc>>}
  /\ pos' = bytesRead
  /\ SendNext("read", << >>)
  /\ UNCHANGED <<kind, size, onDisk, bytesRead, headers, isWebSocket, ret, out,
                 calls, due>>

\* Any other error: send() returns it.  Without its header nothing of a body
\* is sent, but the payload of a frame is; the loop over a file reads on.
SendFails ==
  /\ Sending
  /\ failures' = failures \cup {<<This, pc>>}
  /\ \/ /\ pc = "header" /\ kind \in {"file", "missing"}
        /\ Return("size")
     \/ /\ pc \in {"header", "payload"} /\ kind = "content"
        /\ Return("error")
     \/ /\ pc = "header" /\ kind = "upgrade"
        /\ Return("false")
     \/ /\ pc = "header" /\ kind = "frame" /\ size > 0
        /\ SendNext("payload", Payload)
        /\ UNCHANGED <<local, ret>>
     \/ /\ pc = "header" /\ kind = "frame" /\ size = 0
        /\ Return("false")
     \/ /\ pc = "payload" /\ kind = "frame"
        /\ Return("false")
     \/ /\ pc = "chunk"
        /\ SendNext("read", << >>)
        /\ UNCHANGED <<local, ret>>
  /\ UNCHANGED <<headers, isWebSocket, out, calls, due>>

\* send() returns the number of units: what follows the header.
HeaderSent ==
  /\ pc = "header" /\ Sent
  /\ \/ /\ kind = "file"
        /\ SendNext("read", << >>)
        /\ UNCHANGED <<local, ret>>
     \/ /\ kind = "missing"
        /\ Return("size")
     \/ /\ kind = "content" \/ (kind = "frame" /\ size > 0)
        /\ SendNext("payload", Payload)
        /\ UNCHANGED <<local, ret>>
     \/ /\ kind = "upgrade" \/ (kind = "frame" /\ size = 0)
        /\ Return("true")
  /\ isWebSocket' = (isWebSocket \/ kind = "upgrade")
  /\ UNCHANGED <<headers, out, history>>

\* Mutant: a frame counts as sent when its payload was.
PayloadSentTrue ==
  /\ pc = "payload" /\ Sent
  /\ Return(IF kind = "content" THEN "size" ELSE "true")
  /\ UNCHANGED <<headers, isWebSocket, out, history>>

PayloadSent ==
  /\ pc = "payload" /\ Sent
  /\ Return(IF kind = "content" THEN "size"
            ELSE IF Failed("header") THEN "false" ELSE "true")
  /\ UNCHANGED <<headers, isWebSocket, out, history>>

-----------------------------------------------------------------------------
(* The loop over the file.                                                 *)

Least(a, b) == IF a < b THEN a ELSE b

Want == Least(size - bytesRead, ChunkSize)

\* while (bytesRead < fileSize): a chunk is read and send() is called.
ReadChunk ==
  /\ pc = "read" /\ bytesRead < size
  /\ onDisk - pos >= Want
  /\ SendNext("chunk", Bytes(This, pos, Want))
  /\ pos' = pos + Want
  /\ UNCHANGED <<kind, size, onDisk, bytesRead, headers, isWebSocket, ret, out,
                 history>>

\* Mutant: a read that yields too little is tried again.
ReadShortAgain ==
  /\ pc = "read" /\ bytesRead < size
  /\ onDisk - pos < Want
  /\ pos' = onDisk
  /\ failures' = failures \cup {<<This, "read">>}
  /\ UNCHANGED <<kind, pc, size, onDisk, bytesRead, sending, headers,
                 isWebSocket, ret, out, calls, due>>

\* The file ends early: errno is returned.
ReadShort ==
  /\ pc = "read" /\ bytesRead < size
  /\ onDisk - pos < Want
  /\ Return("errno")
  /\ failures' = failures \cup {<<This, "read">>}
  /\ UNCHANGED <<headers, isWebSocket, out, calls, due>>

\* Mutant: the size of a chunk is counted, not what was read.
ChunkSentWhole ==
  /\ pc = "chunk" /\ Sent
  /\ bytesRead' = bytesRead + ChunkSize
  /\ SendNext("read", << >>)
  /\ UNCHANGED <<kind, size, onDisk, pos, headers, isWebSocket, ret, out,
                 history>>

ChunkSent ==
  /\ pc = "chunk" /\ Sent
  /\ bytesRead' = bytesRead + Len(buf)
  /\ SendNext("read", << >>)
  /\ UNCHANGED <<kind, size, onDisk, pos, headers, isWebSocket, ret, out,
                 history>>

FileSent ==
  /\ pc = "read" /\ bytesRead >= size
  /\ Return("size")
  /\ UNCHANGED <<headers, isWebSocket, out, history>>

-----------------------------------------------------------------------------
NewCall == SendContent \/ SendFile \/ SendMissing \/ SendUpgradeResponse
           \/ SendFrame \/ SendFrameRefused

Step == SendPart \/ SendFails \/ HeaderSent \/ PayloadSent \/ ReadChunk
        \/ ReadShort \/ ChunkSent \/ FileSent

Next == NewCall \/ Step

Spec == Init /\ [][Next]_vars

\* A connection that takes no data now takes some after a while, or fails.
FairSpec == Spec /\ WF_vars(Step)

-----------------------------------------------------------------------------
(* Properties of what is sent.                                             *)

\* Until a send() or a read() fails, the client has a beginning of all that
\* was due to it, in order and without a gap, however the socket cut the parts
\* (ClientConnection.cpp:239-253, HttpResponseBuilder.h:195-209).
NoGap ==
  failures = {} => IsPrefix(out, due)

Before(a, b) == a.call < b.call \/ (a.call = b.call /\ a.i < b.i)

\* A failed call of send() leaves a gap, never a byte sent twice or out of
\* order: call by call, what the client gets of the payloads goes up.
GoesUp ==
  \A i, j \in 1..Len(out) :
    i < j /\ out[i].unit = "byte" /\ out[j].unit = "byte" =>
      Before(out[i], out[j])

\* When a call says that all was sent, and a response's header was, all of it
\* is what the client has got last: the return value of sendFrame() tells of
\* both parts, that of sendHeaderAndFile() of a file that was read to its end
\* (ClientConnection.cpp:477-489, HttpResponseBuilder.h:189-221).
SizeMeansSent ==
  ret = "true" \/ (ret = "size" /\ ~Failed("header")) =>
    IsSuffix(calls[This].due, out)

\* The call returns: although a chunk that could not be sent is not counted
\* in bytesRead, the loop comes to the end of the file.
Returns == pc # "idle" ~> pc = "idle"

-----------------------------------------------------------------------------
(* The client, external: what it takes the units from p on for.            *)

End == Len(out) + 1

Cut == [kind |-> "cut"]

\* The values of the header lines called name between p and q.
Values(name, p, q) == {out[i].value : i \in {j \in p..q : out[j].unit = name}}

Types(p, q) == {out[i].type : i \in {j \in p..q : out[j].unit = "type"}}

Until(p, n) == SubSeq(out, p, p + n - 1)

\* The head of a response ends with the first empty line.
Blanks(p) == {i \in p..Len(out) : out[i].unit = "blank"}
HeadEnd(p) == CHOOSE i \in Blanks(p) : \A j \in Blanks(p) : i <= j

\* Its body ends with its length, or, without one, with the connection.
BodyLength(p) ==
  LET lengths == Values("length", p, HeadEnd(p))
  IN  IF 101 \in Values("status", p, HeadEnd(p)) THEN 0
      ELSE IF lengths = {} THEN Len(out) - HeadEnd(p)
      ELSE CHOOSE n \in lengths : TRUE

ResponseEnd(p) == HeadEnd(p) + BodyLength(p) + 1

ResponseIsCut(p) ==
  Blanks(p) = {} \/ out[p].unit # "status" \/ ResponseEnd(p) > End

ResponseAt(p) ==
  [kind |-> "response", head |-> out[p].value, types |-> Types(p, HeadEnd(p)),
   body |-> Until(HeadEnd(p) + 1, BodyLength(p))]

AreOctets(p, n) ==
  p + n <= End /\ \A i \in p..p + n - 1 : out[i].unit = "octet"

HeaderAt(p) == [i \in 1..10 |-> IF AreOctets(p, i) THEN out[p + i - 1].value ELSE 0]

\* A frame has as many bytes behind its header as that says.
PayloadAt(p) == p + DecodedSize(HeaderAt(p))

FrameEnd(p) == PayloadAt(p) + DecodedLength(HeaderAt(p))

FrameIsCut(p) == ~AreOctets(p, DecodedSize(HeaderAt(p))) \/ FrameEnd(p) > End

FrameAt(p) ==
  [kind |-> "frame", head |-> Decode(HeaderAt(p)), types |-> {},
   body |-> Until(PayloadAt(p), DecodedLength(HeaderAt(p)))]

\* What it reads from a place on, as frames when ws; read is what it reads
\* from a later one.
Places == (1..End) \X BOOLEAN

ReadNext(read, place) ==
  LET p == place[1]
      ws == place[2]
  IN  IF p = End THEN << >>
      ELSE IF ws
      THEN IF FrameIsCut(p) THEN <<Cut>>
           ELSE <<FrameAt(p)>> \o read[<<FrameEnd(p), TRUE>>]
      ELSE IF ResponseIsCut(p) THEN <<Cut>>
           ELSE <<ResponseAt(p)>> \o read[<<ResponseEnd(p), out[p].value = 101>>]

Read[place \in Places] == ReadNext(Read, place)

Messages == Read[<<1, FALSE>>]

\* All was sent, and only the last response may end with the connection.
AllSent ==
  /\ pc = "idle" /\ failures = {}
  /\ \A i \in 1..Len(calls) :
       calls[i].means.end = "length"
       \/ (calls[i].means.end = "close" /\ i = Len(calls))

\* When nothing failed, the client finds in the stream what the handlers sent:
\* the responses one after the other by their Content-Length, whatever the
\* builder had in its map before, then the frames by their headers
\* (HttpResponseBuilder.h:121-235, ClientConnection.cpp:355-411).
ClientReads ==
  AllSent =>
    /\ Len(Messages) = Len(calls)
    /\ \A i \in 1..Len(calls) :
         /\ Messages[i].kind = calls[i].means.kind
         /\ Messages[i].head = calls[i].means.head
         /\ Messages[i].body = calls[i].body

\* A file whose extension stands in the table, in either case, is sent with
\* that type, although the search takes any key that begins the extension or
\* that the extension begins (HttpResponseBuilder.h:238-261).
TypesAreRight ==
  AllSent =>
    \A i \in 1..Len(calls) :
      calls[i].means.types # {} => Messages[i].types = calls[i].means.types
=============================================================================
