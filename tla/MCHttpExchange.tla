--------------------------- MODULE MCHttpExchange ---------------------------
(* The requests clients send and the handlers of the application, for TLC. *)
EXTENDS HttpExchange

V10 == <<"1", ".", "0">>
V11 == <<"1", ".", "1">>
V09 == << >>
Root == <<"/">>
WsUrl == <<"/", "ws">>

Get(url, version, eol, headers, keepAlive) ==
  [method |-> "GET", url |-> url, version |-> version, eol |-> eol,
   headers |-> headers, wire |-> << >>, body |-> << >>,
   keepAlive |-> keepAlive, upgrade |-> FALSE, blank |-> 0]
Post(url, headers, wire, body) ==
  [Get(url, V11, <<"LF">>, headers, TRUE)
     EXCEPT !.method = "POST", !.wire = wire, !.body = body]
Of(name, value) == [name |-> name, value |-> <<value>>]

Plain == Get(<<"/", "a">>, V11, <<"CR", "LF">>, <<Of(<<"X-", "A">>, <<"x">>)>>, TRUE)
Closing == Get(<<"/", "?", "q">>, V11, <<"LF">>, <<Of(Connection, <<"clo", "se">>)>>, FALSE)
ClosingCapital == Get(Root, V11, <<"LF">>, <<Of(Connection, <<"Clo", "se">>)>>, FALSE)
Http10 == Get(<<"/", "d">>, V10, <<"LF">>, << >>, FALSE)
Http10KeepAlive == Get(Root, V10, <<"LF">>, <<Of(Connection, <<"keep-", "alive">>)>>, TRUE)
Http09 == Get(<<"/", "e">>, V09, <<"LF">>, << >>, FALSE)
Folded ==
  Get(Root, V11, <<"CR", "LF">>,
      <<[name |-> <<"X-", "A">>, value |-> << <<"x">>, <<"y">> >>],
        Of(<<"X-", "B">>, << >>)>>, TRUE)
Opening(url, upgrade, key) ==
  [Get(url, V11, <<"LF">>,
       <<Of(Connection, <<"keep-", "alive", ",", "SP", "Up", "grade">>),
         Of(upgrade, <<"websocket">>), Of(SecWebSocketKey, key)>>, TRUE)
     EXCEPT !.upgrade = TRUE]
WebSocket == Opening(WsUrl, Upgrade, <<"k", "l">>)
Blank == [Get(Root, V11, <<"LF">>, << >>, TRUE) EXCEPT !.blank = 2]
Long == [Blank EXCEPT !.blank = MaxHeaderSize]
WithLength == Post(<<"/", "p">>, <<Of(ContentLength, <<"1", "0">>)>>, <<"b", "c">>, <<"b", "c">>)
LowerLength ==
  Post(Root, <<Of(<<"con", "tent-length">>, <<"1">>)>>, <<"b">>, <<"b">>)
TwoLengths ==
  Post(Root, <<Of(ContentLength, <<"1">>), Of(ContentLength, <<"1">>)>>, <<"b">>, <<"b">>)
InChunks(wire, body) ==
  Post(Root, <<Of(<<"Transfer-", "Encoding">>, <<"chunk", "ed">>)>>,
       wire \o <<"0", "CR", "LF", "CR", "LF">>, body)
Chunked ==
  InChunks(<<"1", "CR", "LF", "b", "CR", "LF",
             "1", "0", "SP", "x", "CR", "LF", "c", "d", "CR", "LF">>, <<"b", "c", "d">>)

\* Lengths that atoi() and the parser read differently, bodies that the heap
\* has no memory for, and lengths that overflow.
SpacedLength ==
  Post(Root, <<Of(ContentLength, <<"1", "SP", "0">>)>>, <<"b", "c">>, <<"b", "c">>)
LargeBody ==
  LET body == <<"b", "c", "d", "e">>
  IN  Post(Root, <<Of(ContentLength, <<"1", "0", "0">>)>>, body, body)
LargeChunks ==
  InChunks(<<"1", "CR", "LF", "b", "CR", "LF",
             "1", "1", "CR", "LF", "c", "d", "e", "CR", "LF",
             "1", "CR", "LF", "f", "CR", "LF">>, <<"b", "c", "d", "e", "f">>)
TooLong == Post(Root, <<Of(ContentLength, <<"1", "1", "0">>)>>, << >>, << >>)
TooLongChunk == InChunks(<<"1", "1", "0", "CR", "LF">>, << >>)

\* A control character, a tab, and lines that reach the limit in the name or
\* in the value.
Control == Get(Root, V11, <<"LF">>, <<Of(<<"X-", "A">>, <<"x", "y", "CTL">>)>>, TRUE)
Tab ==
  Get(Root, V11, <<"LF">>,
      <<Of(Connection, <<"x", ",", "HT", "clo", "se">>),
        Of(<<"X-", "A">>, <<"x", "HT", "y">>)>>, FALSE)
LongLine(name, value) ==
  [Get(Root, V11, <<"CR", "LF">>,
       <<Of([i \in 1..name |-> "x"], [i \in 1..value |-> "y"])>>, TRUE)
     EXCEPT !.blank = MaxHeaderSize - 18]

SomeRequests ==
  {Plain, Closing, ClosingCapital, Http10KeepAlive, Folded, WebSocket, Blank,
   WithLength, Chunked}

\* Variants of these, requests after which the parser takes no other, and
\* upgrades that differ in one thing from WebSocket.
Special ==
  {LowerLength, Http10, Http09, Long, TwoLengths, SpacedLength, LargeBody,
   LargeChunks, TooLong, TooLongChunk, Control, Tab,
   LongLine(8, 1), LongLine(1, 5),
   Opening(Root, Upgrade, <<"k">>),
   Opening(WsUrl, <<"up", "grade">>, <<"k">>),
   Opening(WsUrl, Upgrade, <<"k", "l", "m">>),
   Opening(WsUrl, Upgrade, << >>),
   [Opening(WsUrl, Upgrade, <<"k">>)
      EXCEPT !.headers = Append(@, Of(ContentLength, <<"1">>)),
             !.wire = <<"b">>, !.body = <<"b">>],
   Get(WsUrl, V11, <<"LF">>,
       <<Of(Upgrade, <<"websocket">>), Of(SecWebSocketKey, <<"k">>)>>, TRUE)}

\* Method, URL and version of requests without header lines: all methods and
\* those that begin like one and go on like another with the same letter, URLs
\* over the characters that the parser tells apart, and numbers of versions.
Crossed ==
  UNION {{SubSeq(m, 1, i) \o SubSeq(n, i + 1, Len(n)) : i \in 1..Len(m)} :
           <<m, n>> \in {p \in Methods \X Methods :
                           LetterAt(p[1], 0) = LetterAt(p[2], 0)}}
Versions ==
  SeqOf({"0", "1", "."}, 5)
    \cup {<<"1", "1", "1", "1", ".", "1">>, <<"1", ".", "1", "1", "1", "1">>}
Urls ==
  {prefix \o s : prefix \in {<< >>, <<"/", "a">>, <<"a", ":", "/", "/">>},
                 s \in SeqOf({"a", "/", "?", "#", "@", "*", ":", "<", "HT"}, 3)}
RequestLines ==
  (Crossed \X {Root} \X {V11})
    \cup ({"GET", "CONNECT"} \X Urls \X {V09})
    \cup ({"GET"} \X {Root} \X Versions)

OtherRequests ==
  Special \cup
    {[Get(line[2], line[3], <<"LF">>, << >>, FALSE)
        EXCEPT !.method = line[1], !.upgrade = (line[1] = "CONNECT")] :
       line \in RequestLines}

Handlers == <<Root, <<"/", "a", "/">>, <<"/", "a", "/", "a", "/">> >>
Opened == {WsUrl, <<"/", "ws", "/">>}
=============================================================================
