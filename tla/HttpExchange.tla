---------------------------- MODULE HttpExchange ----------------------------
(***************************************************************************)
(* A worker serves connections that are not web sockets: the branch of     *)
(* ClientConnection::receiveData() that feeds the parser, calls the        *)
(* handler and looks at the Connection header.  TCP delivers what the      *)
(* client sent in pieces of any size, so every recv() may end anywhere:    *)
(* in a name, a value, a chunk size, or after the start of the next        *)
(* request.  Parser and request object outlive the connection.             *)
(***************************************************************************)
EXTENDS HttpParser, HandlerTable

CONSTANTS
  Requests,       \* the requests that clients send
  Alone,          \* others, each of which is sent by itself
  MaxRequests,    \* how many Requests are sent, over all connections
  MaxKey          \* the units of a key that fit into the buffer, 128 - 37

\* A request is put together of texts, sequences of units.
IsText(s) == s \in Seq(ToSet(s))

ASSUME RequestsAssumption ==
  \A r \in Requests \cup Alone :
    /\ r.blank \in Nat /\ Len(r.method) \in Nat
    /\ IsText(r.url) /\ IsText(r.version) /\ IsText(r.eol) /\ IsText(r.wire)
    /\ IsText(r.headers)
    /\ \A i \in DOMAIN r.headers :
         /\ IsText(r.headers[i].name) /\ IsText(r.headers[i].value)
         /\ \A j \in DOMAIN r.headers[i].value : IsText(r.headers[i].value[j])
ASSUME MaxRequestsAssumption == MaxRequests \in Nat

VARIABLES
  pc,             \* idle, recv, execute, handler, upgrade or websocket
  exec,           \* parser and request object, and the call of execute()
  budget,         \* requests that are left
  sent,           \* history: the requests the client of this connection sends
  stream,         \* history: the same on the wire
  got,            \* history: how many units of them were received
  aligned,        \* history: requests received whole, -1 once recv() cut one
  torn,           \* history: a recv() ended in a URL or a value
  answered,       \* history: the handler was called on this connection
  called,         \* history: which one, at the last time
  refused,        \* history: an upgrade was refused on this connection
  lost,           \* history: the parser returned before the end of its data
  opened          \* the web socket: its URL and what the client was told

vars == <<pc, exec, budget, sent, stream, got, aligned, torn, answered, called,
          refused, lost, opened>>

client == <<budget, sent, stream>>
input == <<got, aligned, torn, lost>>
output == <<answered, called, refused, opened>>

-----------------------------------------------------------------------------
(* What a client sends: blank lines, method, url, version, the line end,   *)
(* header lines, and a body as it goes over the wire next to the data it   *)
(* stands for.  A value is a sequence of parts; every part after the first *)
(* is on a line of its own (a folded value).                               *)

Parts(value, separator) ==
  FlattenSeq([i \in DOMAIN value |->
                IF i = 1 THEN value[i] ELSE separator \o value[i]])

Line(h, eol) ==
  h.name \o <<":", "SP">> \o Parts(h.value, eol \o <<"SP">>) \o eol

Letters(method) == [i \in 1..Len(method) |-> LetterAt(method, i - 1)]

\* HTTP 0.9 has no version.
RequestLine(r) ==
  Letters(r.method) \o <<"SP">> \o r.url
    \o (IF r.version = << >> THEN << >> ELSE <<"SP", "HTTP/">> \o r.version)

Encode(r) ==
  [i \in 1..r.blank |-> "LF"] \o RequestLine(r) \o r.eol
    \o FlattenSeq([i \in DOMAIN r.headers |-> Line(r.headers[i], r.eol)])
    \o r.eol \o r.wire

Tag(name, s) == [i \in DOMAIN s |-> <<name, s[i]>>]

\* What the callbacks should be given for a request, however it is cut.
Events(r) ==
  Tag("url", r.url)
    \o FlattenSeq([i \in DOMAIN r.headers |->
                     Tag("header_field", r.headers[i].name)
                       \o Tag("header_value", Parts(r.headers[i].value, <<"SP">>))])
    \o << <<"headers", "complete">> >>
    \o Tag("body", r.body) \o << <<"message", "complete">> >>

WireOf(requests) == FlattenSeq([i \in DOMAIN requests |-> Encode(requests[i])])
HeardOf(requests) == FlattenSeq([i \in DOMAIN requests |-> Events(requests[i])])

\* The grammar of a request line.  The server part of a URL may be empty as
\* long as something follows.
IsTail(s) == ToSet(s) \cap {"HT", "CTL"} = {}
IsAuthority(s) ==
  /\ \A i \in DOMAIN s : IsServerChar(s[i]) \/ s[i] = "@"
  /\ \A i \in 2..Len(s) : s[i - 1] # "@" \/ s[i] # "@"
IsServer(s) ==
  \E n \in 0..Len(s) :
    /\ IsAuthority(SubSeq(s, 1, n))
    /\ IF n = Len(s) THEN n > 0 ELSE s[n + 1] \in {"/", "?"}
    /\ IsTail(SubSeq(s, n + 1, Len(s)))
IsAbsolute(s) ==
  \E n \in 1..(Len(s) - 3) :
    /\ \A i \in 1..n : IsAlpha(s[i])
    /\ SubSeq(s, n + 1, n + 3) = <<":", "/", "/">>
    /\ IsServer(SubSeq(s, n + 4, Len(s)))
IsUrl(method, s) ==
  CASE method = "CONNECT" -> IsServer(s)
    [] method # "CONNECT" /\ s # << >> /\ s[1] \in {"/", "*"} -> IsTail(s)
    [] OTHER -> IsAbsolute(s)

IsNumber(s) == s # << >> /\ ToSet(s) \subseteq DOMAIN Digit /\ Number(s) <= MaxVersion
IsVersion(s) ==
  \E n \in 1..(Len(s) - 1) :
    /\ s[n] = "." /\ s[1] # "0"
    /\ IsNumber(SubSeq(s, 1, n - 1)) /\ IsNumber(SubSeq(s, n + 1, Len(s)))

IsLength(name) == [i \in DOMAIN name |-> Lower(name[i])] = <<"con", "tent-length">>

Fits(digits) == digits # << >> => ~ Overflows(Number(Front(digits)))

\* The lengths of bodies and chunks fit into 64 bits.
LengthsFit(r) ==
  /\ \A i \in DOMAIN r.headers :
       IsLength(r.headers[i].name) =>
         Fits(SelectSeq(Parts(r.headers[i].value, << >>), LAMBDA ch : ch # "SP"))
  /\ \A i, j \in DOMAIN r.wire :
       ToSet(SubSeq(r.wire, i, j)) \subseteq DOMAIN Digit => Fits(SubSeq(r.wire, i, j))

\* Header lines that contradict each other make a request none.
IsRequest(r) ==
  /\ r.method \in Methods /\ IsUrl(r.method, r.url)
  /\ r.version = << >> \/ IsVersion(r.version)
  /\ Cardinality({i \in DOMAIN r.headers : IsLength(r.headers[i].name)}) <= 1
  /\ LengthsFit(r)

\* Requests the parser takes: the limit leaves room for the head, even when
\* every unit of it is counted twice, and there are no control characters.
HeadSize(r) == Len(Encode(r)) - Len(r.wire)
IsValid(r) ==
  /\ IsRequest(r) /\ 2 * HeadSize(r) <= MaxHeaderSize
  /\ "CTL" \notin ToSet(Encode(r))

-----------------------------------------------------------------------------
Closed == [origin |-> NoHandler, accept |-> << >>]

Init ==
  /\ pc = "idle" /\ budget = MaxRequests
  /\ exec = [parser |-> NewParser, request |-> NewRequest,
             marks |-> MarksAtStart("start_req"), inner |-> 0, skips |-> FALSE,
             heard |-> << >>, ended |-> FALSE, asserted |-> TRUE]
  /\ sent = << >> /\ stream = << >> /\ got = 0 /\ aligned = 0 /\ torn = FALSE /\ lost = FALSE
  /\ answered = FALSE /\ called = NoHandler /\ refused = FALSE /\ opened = Closed

Idle == pc \in {"idle", "websocket"}

\* start(): a connection begins, and a client sends some requests.
Start ==
  /\ Idle
  /\ \/ \E n \in 1..budget :
          /\ sent' \in [1..n -> Requests]
          /\ budget' = budget - n
     \/ /\ budget = MaxRequests /\ budget' = 0
        /\ sent' \in [1..1 -> Alone]
  /\ stream' = WireOf(sent')
  /\ exec' = [exec EXCEPT !.parser = NewParser, !.request = Clear(@),
                          !.heard = << >>]
  /\ pc' = "recv" /\ got' = 0 /\ aligned' = 0 /\ torn' = FALSE /\ lost' = FALSE
  /\ answered' = FALSE /\ called' = NoHandler /\ refused' = FALSE /\ opened' = Closed

\* recv() returns data, and execute() begins.
Receive ==
  /\ pc = "recv" /\ got < Len(stream)
  /\ exec' = Begin(exec)
  /\ pc' = "execute"
  /\ UNCHANGED <<client, input, output>>

Skipped == exec.ended /\ exec.parser.errno = "OK"

\* execute() goes on to the next unit of the data.
Parse ==
  /\ pc = "execute" /\ got + 1 < Len(stream)
  /\ exec' = Round(exec, stream[got + 1], FALSE)
  /\ got' = got + 1
  /\ lost' = (lost \/ Skipped)
  /\ UNCHANGED <<pc, client, aligned, torn, output>>

\* What receiveData() does when execute() has returned.
Branch(r) ==
  IF ~ r.completed THEN "recv" ELSE IF r.isUpgrade THEN "upgrade" ELSE "handler"

IsNext(n) == aligned \in 0..(Len(sent) - 1) /\ n = Len(WireOf(SubSeq(sent, 1, aligned + 1)))

\* The last unit of the data.
ParseLast ==
  LET x == EndOfData(Round(exec, stream[got + 1], TRUE))
  IN  /\ pc = "execute"
      /\ exec' = [x EXCEPT !.marks = MarksAtStart("start_req"), !.inner = 0,
                           !.skips = FALSE, !.ended = FALSE]
      /\ got' = got + 1
      /\ pc' = Branch(x.request)
      /\ aligned' = IF IsNext(got + 1) THEN aligned + 1 ELSE -1
      /\ torn' = (torn \/ x.parser.state \in UrlStates \cup {"header_value"})
      /\ lost' = (lost \/ Skipped)
      /\ UNCHANGED <<client, output>>

\* The handler returns, and the connection ends when the client asked for it.
Handle ==
  /\ pc = "handler"
  /\ exec' = [exec EXCEPT !.parser = Finish(@), !.request = LookUpConnection(@)]
  /\ answered' = TRUE /\ called' = GetHTTPHandler(exec.request.url)
  /\ pc' = IF exec'.request.headers[Connection] = <<"clo", "se">>
             THEN "idle" ELSE "recv"
  /\ UNCHANGED <<client, input, refused, opened>>

\* What the key makes, different for every key: base64 of the SHA-1 digest.
Digest(key) == <<"digest">> \o key

\* Mutant: the key is cut to the size of the buffer.
SendUpgradeResponseCut(key) ==
  Digest(IF Len(key) > MaxKey THEN SubSeq(key, 1, MaxKey) ELSE key)

\* sendUpgradeResponse(): what the client is told, nothing if the key is too
\* long.
SendUpgradeResponse(key) == IF Len(key) > MaxKey THEN << >> ELSE Digest(key)

HeaderValueOf(r, name) == IF name \in DOMAIN r.headers THEN r.headers[name] ELSE << >>

\* handleUpgradeRequest(): a web socket from here on, when the header lines
\* ask for it, there is a handler for the URL, a web socket is available and
\* the response could be sent;
UpgradeAccepted ==
  LET key == HeaderValueOf(exec.request, SecWebSocketKey)
      accept == SendUpgradeResponse(key)
  IN  /\ pc = "upgrade"
      /\ HeaderValueOf(exec.request, Upgrade) = <<"websocket">>
      /\ key # << >>
      /\ GetWSHandler(exec.request.url) # NoHandler
      /\ accept # << >>
      /\ opened' = [origin |-> exec.request.url, accept |-> accept]
      /\ pc' = "websocket"
      /\ UNCHANGED <<exec, client, input, answered, called, refused>>

\* or nothing at all.
UpgradeRefused ==
  /\ pc = "upgrade"
  /\ pc' = "recv" /\ refused' = TRUE
  /\ UNCHANGED <<exec, client, input, answered, called, opened>>

\* recv() returns 0.
ClientCloses ==
  /\ pc = "recv"
  /\ pc' = "idle"
  /\ UNCHANGED <<exec, client, input, output>>

Next ==
  \/ Start
  \/ Receive
  \/ Parse
  \/ ParseLast
  \/ Handle
  \/ UpgradeAccepted
  \/ UpgradeRefused
  \/ ClientCloses

Spec == Init /\ [][Next]_vars

-----------------------------------------------------------------------------
(* Properties.                                                             *)

\* The variables have their types, no more is received than was sent, and
\* the parser never goes on with a head that is larger than its limit.
TypeOK ==
  /\ pc \in {"idle", "recv", "execute", "handler", "upgrade", "websocket"}
  /\ got \in 0..Len(stream) /\ budget \in 0..MaxRequests
  /\ aligned \in -1..Len(sent)
  /\ exec.parser.contentLength \in 0..UllongMax
  /\ exec.request.completed \in BOOLEAN /\ exec.request.isUpgrade \in BOOLEAN
  /\ exec.parser.errno = "OK" => exec.parser.nread <= MaxHeaderSize

\* However recv() cuts the stream into pieces, what http_parser hands to the
\* callbacks of HttpRequestParser, put together, is what the client sent:
\* URL, names, values and bodies in order, nothing lost, doubled or mixed up,
\* and the ends of heads and messages in their places.  This ends with the
\* data behind an upgrade, which the parser leaves to the other protocol.
HeardAsSent == ~ lost => IsPrefix(exec.heard, HeardOf(sent))

\* What http_parser has taken from the data so far: what its callbacks were
\* given, and the string that is under way.
Taken(x) ==
  IF MarksSet(x) = {} THEN x.heard
  ELSE LET name == CHOOSE name \in MarksSet(x) : TRUE
       IN  x.heard \o Tag(name, x.marks[name].text)

\* A unit that recv() returns by itself, so that a call of execute() has no
\* other, and what the callbacks are given then.
ByItself(x, ch) == EndOfData(Round(Begin([x EXCEPT !.heard = << >>]), ch, TRUE))

HasRoom(x) == x.parser.errno # "HEADER_OVERFLOW"

\* A cut does not show: whatever the clients send, request or not, each unit
\* in the middle of the data does to the parser what it does when recv()
\* returns it by itself, and the callbacks are given the same for it, sooner
\* or later.  Only the size of the head is counted differently, and control
\* characters are taken where the end of the value has been looked for.
CutsDoNotShow ==
  [][LET y == ByItself(exec, stream[got + 1])
         takes == pc = "execute" /\ ~ exec.ended /\ ~ (exec.skips /\ stream[got + 1] = "CTL")
     IN  takes /\ HasRoom(exec') /\ HasRoom(y) =>
           /\ \A f \in DOMAIN exec.parser \ {"nread"} : exec'.parser[f] = y.parser[f]
           /\ y.parser.errno = "OK" => Taken(exec') = Taken(exec) \o y.heard]_vars

\* The assert()s of http_parser_execute() hold: a chunk size starts with a
\* fresh count, lengths are known where they are used, the flags agree with
\* the state, and at most one string is under way at the end of the data.
AssertsHold == exec.asserted

First == pc # "idle" /\ ~ answered /\ got <= Len(Encode(sent[1]))

\* A request is acted on when it was received to its last unit and not
\* before, and a request that the parser can take is acted on then.
WholeFirst ==
  pc \in {"recv", "handler", "upgrade"} =>
    LET whole == got >= Len(Encode(sent[1]))
    IN  IF pc = "recv" THEN whole /\ IsValid(sent[1]) => exec.request.completed
        ELSE whole

\* The handler is called, or an upgrade done, for the first request of a
\* connection only if that follows the grammar of requests: parse_url_char()
\* and the states of http_parser_execute() for method and version take
\* nothing else.  (That they take all of it is WholeFirst.)
OnlyRequests ==
  pc \in {"handler", "upgrade"} /\ ~ answered /\ ~ refused => IsRequest(sent[1])

\* The protocol changes with the end of a request that asks for it, and
\* nothing behind that end is taken for HTTP: at the first upgrade of a
\* connection http_parser has told its callbacks about a number of whole
\* requests, the last of which is the one with the upgrade.  And such a
\* request, when it is the first, is not handled like another.
UpgradeAtItsEnd ==
  /\ pc = "upgrade" /\ ~ answered /\ ~ refused =>
       \E n \in DOMAIN sent :
         /\ exec.heard = HeardOf(SubSeq(sent, 1, n))
         /\ sent[n].upgrade
  /\ pc = "handler" /\ First => ~ sent[1].upgrade

HasLines(q, r) ==
  /\ q.url = r.url /\ q.method = r.method
  /\ \A i \in DOMAIN r.headers :
       /\ r.headers[i].name \in DOMAIN q.headers
       /\ q.headers[r.headers[i].name] = Parts(r.headers[i].value, <<"SP">>)

IsUnfolded(r) == \A i \in DOMAIN r.headers : Len(r.headers[i].value) = 1

\* The length of the body is written with digits only, and the heap has
\* memory for it.
HasMemory(r) ==
  /\ Len(r.body) <= HeapSize
  /\ \A i \in DOMAIN r.headers :
       IsLength(r.headers[i].name) =>
         ToSet(Parts(r.headers[i].value, <<"SP">>)) \subseteq DOMAIN Digit

\* The handler of the first request of a connection finds in the request
\* object the request that was sent, with its header lines and no other and
\* with its body, if there is memory for that, when no recv() ended inside
\* the URL or a value and no value is folded: names, chunks and bodies may be
\* cut anywhere.
SeenAsSent ==
  pc = "handler" /\ First /\ ~ torn /\ IsUnfolded(sent[1]) =>
    /\ HasLines(exec.request, sent[1])
    /\ DOMAIN exec.request.headers = {h.name : h \in ToSet(sent[1].headers)}
    /\ HasMemory(sent[1]) => exec.request.body = sent[1].body

\* A parser that has found an error is done with the connection: whatever
\* still comes, and whatever receiveData() does with it, the error stays the
\* same and no callback of HttpRequestParser is called again.
ErrorIsFinal ==
  [][exec.parser.errno # "OK" /\ ~ Idle =>
       exec'.parser.errno = exec.parser.errno /\ exec'.heard = exec.heard]_vars

\* A client that waits for the answer before it sends the next request, in
\* one piece, on a connection the parser keeps alive, has its n-th request
\* answered as the n-th: URL, method and lines are those of that request.
AlignedAnswered ==
  pc = "handler" /\ aligned > 0 /\ IsUnfolded(sent[aligned])
    /\ (\A i \in 1..aligned : IsValid(sent[i]))
    /\ (\A i \in 1..(aligned - 1) : sent[i].keepAlive) =>
    HasLines(exec.request, sent[aligned])

\* Nothing of an earlier connection of the worker is left in the headers and
\* the body: a name is that of a line the client of this connection sent, or
\* "Connection", which receiveData() adds when it looks it up.
NothingOld ==
  pc # "idle" =>
    /\ \A name \in DOMAIN exec.request.headers \ {Connection} :
         \E r \in ToSet(sent) : \E h \in ToSet(r.headers) : name = h.name
    /\ Len(exec.request.body) <= FoldLeft(LAMBDA n, r : n + Len(r.body), 0, sent)

\* The first body of a connection fits into the memory set_body() has
\* allocated for it, if the heap has that memory and atoi() reads the length
\* as http_parser does, which takes "1 0" for 10.
BodyFits ==
  First /\ ~ torn /\ HasMemory(sent[1]) =>
    Len(exec.request.body) <= exec.request.bodySize

\* A URL with a slash, and with none behind a question mark.
IsPlain(url) ==
  /\ "/" \in ToSet(url)
  /\ \A i, j \in DOMAIN url : url[i] = "?" /\ url[j] = "/" => j < i

\* The directory of such a URL.
Directory(url) ==
  SubSeq(url, 1, CHOOSE n \in DOMAIN url : /\ url[n] = "/"
                                           /\ "/" \notin ToSet(SubSeq(url, n + 1, Len(url))))

\* The first request of a connection goes to the handler of the directory its
\* URL is in, whatever the name of the file and the query are, and to the
\* first handler when there is none for the directory.
RightHandler ==
  LET url == sent[1].url
  IN  answered' /\ First /\ ~ torn /\ IsPlain(url) =>
        IF Directory(url) \in ToSet(HTTPHandlers) THEN called' = Directory(url)
        ELSE called' = HTTPHandlers[1]
HandlersAreRight == [][RightHandler]_vars


\* A web socket that the first request of a connection opens has a handler,
\* for the URL that was sent, and the client is told the digest of the key
\* it sent, however recv() cut names and the rest of the request.
HandshakeAsSent ==
  pc = "websocket" /\ First /\ ~ torn /\ IsUnfolded(sent[1]) =>
    /\ opened.origin = sent[1].url /\ opened.origin \in WSHandlers
    /\ \E h \in ToSet(sent[1].headers) :
         h.name = SecWebSocketKey /\ opened.accept = Digest(h.value[1])

\* "headers can be chunked": the handler of the first request of a connection
\* finds every value as it was sent, wherever recv() cut it.
ValuesAsSent ==
  pc = "handler" /\ First /\ IsUnfolded(sent[1]) =>
    \A h \in ToSet(sent[1].headers) :
      h.name \in DOMAIN exec.request.headers /\ exec.request.headers[h.name] = h.value[1]
=============================================================================
