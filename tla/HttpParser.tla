----------------------------- MODULE HttpParser -----------------------------
(***************************************************************************)
(* http_parser_execute() for requests, with HTTP_PARSER_STRICT 1 and the   *)
(* callbacks of HttpRequestParser.  Its parts are operators on the record  *)
(*                                                                         *)
(*   x = [parser, request, marks, inner, skips, heard, ended, asserted]    *)
(*                                                                         *)
(* where parser is the http_parser object that lives from call to call,    *)
(* marks are the pointers to the start of the string under way (here with  *)
(* the text from there on), and ended says that the call returned before   *)
(* the end of its data.  inner is p - start in the loop over a name or a   *)
(* value, and skips says that this loop found the end of the value and     *)
(* jumps there.  heard is a history of what the callbacks were given and   *)
(* asserted is FALSE once an assert() of the code failed.                  *)
(*                                                                         *)
(* A unit of the data is a piece of text the parser does not tell apart    *)
(* from its parts: "Con" "nection", "clo" "se", "SP", "CR", "LF".  Methods *)
(* are compared letter by letter, so each letter is a unit.  "HT" is a     *)
(* tab, "CTL" stands for the control characters that no header line may    *)
(* have, "<" for the characters that the name of a server may not have.    *)
(***************************************************************************)
EXTENDS HttpParsedRequest, FiniteSets

CONSTANTS
  MaxHeaderSize,  \* HTTP_MAX_HEADER_SIZE, in units
  UllongMax       \* ULLONG_MAX: no content length

ASSUME MaxHeaderSizeAssumption == MaxHeaderSize \in Nat \ {0}
ASSUME UllongMaxAssumption == UllongMax \in Nat /\ UllongMax >= Base

-----------------------------------------------------------------------------
(* The parser object and the characters.                                   *)

\* http_parser_init()
NewParser ==
  [state |-> "start_req", headerState |-> "general", flags |-> {},
   contentLength |-> 0, nread |-> 0, errno |-> "OK", upgrade |-> FALSE,
   method |-> "DELETE", index |-> 0, httpMajor |-> 0, httpMinor |-> 0]

\* method_strings
Methods ==
  {"DELETE", "GET", "HEAD", "POST", "PUT", "CONNECT", "OPTIONS", "TRACE",
   "COPY", "LOCK", "MKCOL", "MOVE", "PROPFIND", "PROPPATCH", "SEARCH", "UNLOCK",
   "BIND", "REBIND", "UNBIND", "ACL", "REPORT", "MKACTIVITY", "CHECKOUT",
   "MERGE", "M-SEARCH", "NOTIFY", "SUBSCRIBE", "UNSUBSCRIBE", "PATCH", "PURGE",
   "MKCALENDAR", "LINK", "UNLINK"}

\* 999, the largest number of three digits
MaxVersion == Base^3 - 1

Lowercase ==
  ("Con" :> "con") @@ ("Clo" :> "clo") @@ ("Up" :> "up")
    @@ ("Transfer-" :> "transfer-") @@ ("Encoding" :> "encoding")
    @@ ("tent-Length" :> "tent-length")
Lower(ch) == IF ch \in DOMAIN Lowercase THEN Lowercase[ch] ELSE ch

\* TOKEN(): everything but separators.
IsToken(ch) ==
  ch \notin {"SP", "CR", "LF", "HT", "CTL", ":", ",", "/", "?", "@", "<", "HTTP/"}

IsAlpha(ch) == IsToken(ch) /\ ch \notin {"0", "1", "*", "#", "-", "."}
IsUrlChar(ch) == ch \notin {"SP", "CR", "LF", "HT", "CTL", "?", "#"}
IsBlank(ch) == ch \in {"SP", "HT"}

\* IS_USERINFO_CHAR(), "[" or "]"
IsServerChar(ch) == IsUrlChar(ch) /\ ch \notin {"/", "@", "<"}

\* The states in a URL that may not end yet, and those in which it may.
UrlBegin ==
  {"req_schema", "req_schema_slash", "req_schema_slash_slash", "req_server_start"}
Query == {"req_query_string_start", "req_query_string"}
Fragment == {"req_fragment_start", "req_fragment"}
UrlEnd ==
  {"req_server", "req_server_with_at", "req_path"} \cup Query \cup Fragment
UrlStates == UrlBegin \cup UrlEnd

\* PARSING_HEADER()
BodyStates == {"chunk_data", "chunk_data_almost_done", "chunk_data_done",
               "body_identity", "message_done"}
ParsingHeader(state) == state \notin BodyStates

-----------------------------------------------------------------------------
(* The macros.                                                             *)

UpdateState(x, state) == [x EXCEPT !.parser.state = state]
SetErrno(x, errno) == [x EXCEPT !.parser.errno = errno, !.ended = TRUE]
Check(x, test) == [x EXCEPT !.asserted = @ /\ test]
AddFlags(x, flags) == [x EXCEPT !.parser.flags = @ \cup flags]

\* Mutant: the size of the head is not limited.
CountWithoutLimit(x, n) == [x EXCEPT !.parser.nread = @ + n]

CountHeaderSize(x, n) ==
  LET y == [x EXCEPT !.parser.nread = @ + n]
  IN  IF y.parser.nread > MaxHeaderSize THEN SetErrno(y, "HEADER_OVERFLOW")
      ELSE y

\* The end of the loop over a name or a value: COUNT_HEADER_SIZE(p - start)
EndInner(x) == [CountHeaderSize(x, x.inner) EXCEPT !.inner = 0, !.skips = FALSE]

\* The test before a length grows by a digit.
Overflows(length) == (UllongMax - Base) \div Base < length

Unset == [set |-> FALSE, text |-> << >>]
Marked == [set |-> TRUE, text |-> << >>]

\* MARK() and a step of p
Mark(x, name) ==
  IF x.marks[name].set THEN x ELSE [x EXCEPT !.marks[name] = Marked]
Advance(x, ch) ==
  [x EXCEPT !.marks =
     [name \in DOMAIN x.marks |->
        IF x.marks[name].set
          THEN [x.marks[name] EXCEPT !.text = Append(@, ch)]
          ELSE x.marks[name]]]

Store(r, name, s) ==
  CASE name = "url" -> SetUrl(r, s)
    [] name = "header_field" -> SetHeaderField(r, s)
    [] name = "header_value" -> SetHeaderValue(r, s)
    [] name = "body" -> SetBody(r, s)

\* CALLBACK_DATA(): the callbacks of HttpRequestParser return 0.
CallbackData(x, name) ==
  LET text == x.marks[name].text
  IN  IF ~ x.marks[name].set THEN x
      ELSE [x EXCEPT !.marks[name] = Unset,
                     !.request = Store(@, name, text),
                     !.heard = @ \o [i \in DOMAIN text |-> <<name, text[i]>>]]

-----------------------------------------------------------------------------
(* The end of a message.                                                   *)

ShouldKeepAlive(parser) ==
  IF parser.httpMajor > 0 /\ parser.httpMinor > 0
    THEN "connection_close" \notin parser.flags
    ELSE "connection_keep_alive" \in parser.flags

\* UPDATE_STATE(NEW_MESSAGE()) and the callback message_complete
NewMessage(x) ==
  [x EXCEPT !.parser.state =
              IF ShouldKeepAlive(x.parser) THEN "start_req" ELSE "dead",
            !.request = SetMessageComplete(@),
            !.heard = Append(@, <<"message", "complete">>)]

\* Mutant: the parser goes on behind an upgrade.
MessageDoneGoesOn(x) == NewMessage(x)

\* The rest of the data is in a different protocol.
MessageDone(x) ==
  LET y == NewMessage(x) IN [y EXCEPT !.ended = x.parser.upgrade]

HasLength(x) == x.parser.contentLength \notin {0, UllongMax}

\* Mutant: a Content-Length is taken for 0.
HeadersDoneNoBody(x) ==
  LET y == [x EXCEPT !.parser.nread = 0]
  IN  IF "chunked" \in x.parser.flags THEN UpdateState(y, "chunk_size_start")
      ELSE MessageDone(y)

\* Mutant: nread is not reset at the end of the head.
HeadersDoneKeepsNread(x) ==
  IF "chunked" \in x.parser.flags THEN UpdateState(x, "chunk_size_start")
  ELSE IF HasLength(x) THEN UpdateState(x, "body_identity")
  ELSE MessageDone(x)

\* A request to CONNECT has no body, whatever it says.
HeadersDone(x) ==
  LET y == [x EXCEPT !.parser.nread = 0]
  IN  IF x.parser.method = "CONNECT" THEN MessageDone(y)
      ELSE IF "chunked" \in x.parser.flags THEN UpdateState(y, "chunk_size_start")
      ELSE IF HasLength(x) THEN UpdateState(y, "body_identity")
      ELSE MessageDone(y)

HeadersAlmostDone(x, ch) ==
  LET flags == x.parser.flags
      upgrade == \/ {"upgrade", "connection_upgrade"} \subseteq flags
                 \/ x.parser.method = "CONNECT"
      y == [x EXCEPT !.parser.upgrade = upgrade,
                     !.request = SetHeadersComplete(@, x.parser.method, upgrade),
                     !.heard = Append(@, <<"headers", "complete">>)]
  IN  IF ch # "LF" THEN SetErrno(x, "STRICT")
      ELSE IF "trailing" \in flags THEN MessageDone(x)
      ELSE IF {"chunked", "content_length"} \subseteq flags
        THEN SetErrno(x, "UNEXPECTED_CONTENT_LENGTH")
      ELSE HeadersDone(y)

-----------------------------------------------------------------------------
(* Header lines.                                                           *)

NameStates ==
  (<<"start", "con">> :> "CON")
    @@ (<<"CON", "nection">> :> "connection")
    @@ (<<"CON", "tent-length">> :> "content_length")
    @@ (<<"start", "transfer-">> :> "matching_transfer_encoding")
    @@ (<<"matching_transfer_encoding", "encoding">> :> "transfer_encoding")
    @@ (<<"start", "up">> :> "matching_upgrade")
    @@ (<<"matching_upgrade", "grade">> :> "upgrade")
Name(headerState, ch) ==
  IF <<headerState, Lower(ch)>> \in DOMAIN NameStates
    THEN NameStates[<<headerState, Lower(ch)>>] ELSE "general"

HeaderFieldStart(x, ch) ==
  CASE ch = "CR" -> UpdateState(x, "headers_almost_done")
    [] ch = "LF" -> HeadersAlmostDone(x, ch)
    [] IsToken(ch) ->
         LET y == UpdateState(Mark(x, "header_field"), "header_field")
         IN  [y EXCEPT !.parser.headerState = Name("start", ch)]
    [] OTHER -> SetErrno(x, "INVALID_HEADER_TOKEN")

\* The loop over a name runs to its end or to the end of the data.
HeaderField(x, ch, last) ==
  LET y == EndInner(x)
      z == [x EXCEPT !.parser.headerState = Name(@, ch), !.inner = @ + 1]
  IN  CASE IsToken(ch) -> IF last THEN EndInner(z) ELSE z
        [] ~ IsToken(ch) /\ y.ended -> y
        [] ch = ":" /\ ~ y.ended ->
             CallbackData(UpdateState(y, "header_value_discard_ws"), "header_field")
        [] OTHER -> SetErrno(y, "INVALID_HEADER_TOKEN")

ConnectionOptionOf(ch) ==
  CASE Lower(ch) = "keep-" -> "matching_connection_keep_alive"
    [] Lower(ch) = "clo" -> "matching_connection_close"
    [] Lower(ch) = "up" -> "matching_connection_upgrade"
    [] OTHER -> "matching_connection_token"

HeaderValueStart(x, ch) ==
  LET y == UpdateState(Mark(x, "header_value"), "header_value")
      With(h) == [y EXCEPT !.parser.headerState = h]
      h == x.parser.headerState
  IN  CASE h = "upgrade" -> AddFlags(With("general"), {"upgrade"})
        [] h = "transfer_encoding" ->
             With(IF Lower(ch) = "chunk" THEN "matching_transfer_encoding_chunked"
                  ELSE "general")
        [] h = "content_length" ->
             IF ch \notin DOMAIN Digit THEN SetErrno(y, "INVALID_CONTENT_LENGTH")
             ELSE IF "content_length" \in x.parser.flags
               THEN SetErrno(y, "UNEXPECTED_CONTENT_LENGTH")
             ELSE AddFlags([y EXCEPT !.parser.contentLength = Digit[ch]],
                           {"content_length"})
        [] h = "connection" -> With(ConnectionOptionOf(ch))
        [] h = "matching_connection_token_start" -> y
        [] OTHER -> With("general")

DiscardWs(x, ch) ==
  CASE IsBlank(ch) -> x
    [] ch = "CR" -> UpdateState(x, "header_value_discard_ws_almost_done")
    [] ch = "LF" -> UpdateState(x, "header_value_discard_lws")
    [] OTHER -> HeaderValueStart(x, ch)

\* What the option of a Connection or Transfer-Encoding line that is
\* complete adds to the flags.
FlagOf ==
  [connection_keep_alive |-> {"connection_keep_alive"},
   connection_close |-> {"connection_close"},
   connection_upgrade |-> {"connection_upgrade"},
   transfer_encoding_chunked |-> {"chunked"}]
Flag(headerState) ==
  IF headerState \in DOMAIN FlagOf THEN FlagOf[headerState] ELSE {}

\* How a name that is being matched ends, and the state behind it.
NextValueState ==
  [matching_transfer_encoding_chunked |-> <<"ed", "transfer_encoding_chunked">>,
   matching_connection_keep_alive |-> <<"alive", "connection_keep_alive">>,
   matching_connection_close |-> <<"se", "connection_close">>,
   matching_connection_upgrade |-> <<"grade", "connection_upgrade">>]

\* The header state after a character of a value.
Value(h, ch) ==
  CASE h \in DOMAIN NextValueState /\ ch = NextValueState[h][1] ->
         NextValueState[h][2]
    [] h = "matching_connection_token_start" ->
         IF IsBlank(ch) THEN h
         ELSE IF IsToken(ch) THEN ConnectionOptionOf(ch) ELSE "general"
    [] h = "matching_connection_token" ->
         IF ch = "," THEN "matching_connection_token_start" ELSE h
    [] h \in {"connection_keep_alive", "connection_close", "connection_upgrade"} ->
         IF ch = "SP" THEN h
         ELSE IF ch = "," THEN "matching_connection_token_start"
         ELSE "matching_connection_token"
    [] h \in {"matching_connection_keep_alive", "matching_connection_close",
              "matching_connection_upgrade"}
         /\ ch # NextValueState[h][1] -> "matching_connection_token"
    [] h = "transfer_encoding_chunked" -> IF ch = "SP" THEN h ELSE "general"
    [] OTHER -> "general"

HeaderAlmostDone(x, ch) ==
  IF ch # "LF" THEN SetErrno(x, "LF_EXPECTED")
  ELSE UpdateState(x, "header_value_lws")

\* A character of a value, which for a length is a digit.
ValueChar(x, ch) ==
  LET h == x.parser.headerState
      length == Base * x.parser.contentLength + Digit[ch]
      f == IF ch = "," /\ h # "transfer_encoding_chunked" THEN Flag(h) ELSE {}
  IN  CASE h # "content_length" ->
             AddFlags([x EXCEPT !.parser.headerState = Value(h, ch)], f)
        [] h = "content_length" /\ ch = "SP" -> x
        [] h = "content_length" /\ ch \in DOMAIN Digit /\ ~ Overflows(x.parser.contentLength) ->
             [x EXCEPT !.parser.contentLength = length]
        [] OTHER -> SetErrno(x, "INVALID_CONTENT_LENGTH")

\* The loop over a value runs to its end or to the end of the data, and in
\* a general value it looks for the end at once: what is not the first
\* character it sees there is not looked at.
HeaderValue(x, ch, last) ==
  LET done == UpdateState(x, "header_almost_done")
      counted == EndInner(done)
      y == ValueChar(x, ch)
      z == [y EXCEPT !.inner = @ + 1,
                     !.skips = @ \/ x.parser.headerState = "general"]
  IN  CASE ch = "CR" -> EndInner(CallbackData(done, "header_value"))
        [] ch = "LF" /\ counted.ended -> counted
        [] ch = "LF" /\ ~ counted.ended ->
             HeaderAlmostDone(CallbackData(counted, "header_value"), ch)
        [] ch = "CTL" /\ ~ x.skips -> SetErrno(x, "INVALID_HEADER_TOKEN")
        [] OTHER -> IF y.ended THEN y ELSE IF last THEN EndInner(z) ELSE z

\* A line that starts with a blank goes on with the value.
HeaderValueLws(x, ch) ==
  IF IsBlank(ch) THEN HeaderValueStart(x, ch)
  ELSE HeaderFieldStart(UpdateState(AddFlags(x, Flag(x.parser.headerState)),
                                    "header_field_start"), ch)

\* The value was empty.
DiscardLws(x, ch) ==
  IF IsBlank(ch) THEN UpdateState(x, "header_value_discard_ws")
  ELSE LET y == UpdateState(AddFlags(x, Flag(x.parser.headerState)),
                            "header_field_start")
       IN  HeaderFieldStart(CallbackData(Mark(y, "header_value"), "header_value"),
                            ch)

-----------------------------------------------------------------------------
(* The request line.                                                       *)

\* The first letter tells a method, another letter at an index another one.
MethodOf ==
  [A |-> "ACL", B |-> "BIND", C |-> "CONNECT", D |-> "DELETE", G |-> "GET",
   H |-> "HEAD", L |-> "LOCK", M |-> "MKCOL", N |-> "NOTIFY", O |-> "OPTIONS",
   P |-> "POST", R |-> "REPORT", S |-> "SUBSCRIBE", T |-> "TRACE", U |-> "UNLOCK"]
OtherMethod ==
  (<<"POST", 1, "U">> :> "PUT") @@ (<<"POST", 1, "A">> :> "PATCH")
    @@ (<<"CONNECT", 1, "H">> :> "CHECKOUT") @@ (<<"CONNECT", 2, "P">> :> "COPY")
    @@ (<<"MKCOL", 1, "O">> :> "MOVE") @@ (<<"MKCOL", 1, "E">> :> "MERGE")
    @@ (<<"MKCOL", 1, "-">> :> "M-SEARCH")
    @@ (<<"MKCOL", 2, "A">> :> "MKACTIVITY")
    @@ (<<"MKCOL", 3, "A">> :> "MKCALENDAR")
    @@ (<<"SUBSCRIBE", 1, "E">> :> "SEARCH") @@ (<<"REPORT", 2, "B">> :> "REBIND")
    @@ (<<"POST", 1, "R">> :> "PROPFIND")
    @@ (<<"PROPFIND", 4, "P">> :> "PROPPATCH") @@ (<<"PUT", 2, "R">> :> "PURGE")
    @@ (<<"LOCK", 1, "I">> :> "LINK") @@ (<<"UNLOCK", 2, "S">> :> "UNSUBSCRIBE")
    @@ (<<"UNLOCK", 2, "B">> :> "UNBIND") @@ (<<"UNLOCK", 3, "I">> :> "UNLINK")

StartReq(x, ch) ==
  LET y == [x EXCEPT !.parser.flags = {}, !.parser.contentLength = UllongMax]
  IN  CASE ch \in {"CR", "LF"} -> x
        [] ch \in DOMAIN MethodOf ->
             UpdateState([y EXCEPT !.parser.method = MethodOf[ch],
                                   !.parser.index = 1], "req_method")
        [] OTHER -> SetErrno(y, "INVALID_METHOD")

\* The letter of a method at an index, "" behind the last one.
LetterAt(method, index) ==
  IF index < Len(method) THEN SubSeq(method, index + 1, index + 1) ELSE ""

\* Mutant: a method may end before its last letter.
ReqMethodPrefix(x, ch) ==
  LET m == x.parser.method
      i == x.parser.index
      y == [x EXCEPT !.parser.index = @ + 1]
  IN  IF ch = "SP" THEN UpdateState(y, "req_spaces_before_url")
      ELSE IF ch = LetterAt(m, i) THEN y
      ELSE IF <<m, i, ch>> \in DOMAIN OtherMethod
        THEN [y EXCEPT !.parser.method = OtherMethod[<<m, i, ch>>]]
      ELSE SetErrno(x, "INVALID_METHOD")

ReqMethod(x, ch) ==
  LET m == x.parser.method
      i == x.parser.index
      y == [x EXCEPT !.parser.index = @ + 1]
  IN  IF ch = "SP" /\ LetterAt(m, i) = "" THEN UpdateState(y, "req_spaces_before_url")
      ELSE IF ch = LetterAt(m, i) THEN y
      ELSE IF <<m, i, ch>> \in DOMAIN OtherMethod
        THEN [y EXCEPT !.parser.method = OtherMethod[<<m, i, ch>>]]
      ELSE SetErrno(x, "INVALID_METHOD")

\* parse_url_char()
ParseUrlChar(state, ch) ==
  LET server == {"req_server_start", "req_server", "req_server_with_at"}
  IN  CASE state = "req_spaces_before_url" /\ ch \in {"/", "*"} -> "req_path"
        [] state \in {"req_spaces_before_url", "req_schema"} /\ IsAlpha(ch) ->
             "req_schema"
        [] state = "req_schema" /\ ch = ":" -> "req_schema_slash"
        [] state = "req_schema_slash" /\ ch = "/" -> "req_schema_slash_slash"
        [] state = "req_schema_slash_slash" /\ ch = "/" -> "req_server_start"
        [] state \in server /\ ch = "/" -> "req_path"
        [] state \in server \cup {"req_path"} /\ ch = "?" ->
             "req_query_string_start"
        [] state \in server \ {"req_server_with_at"} /\ ch = "@" ->
             "req_server_with_at"
        [] state \in server /\ IsServerChar(ch) -> "req_server"
        [] state = "req_path" /\ IsUrlChar(ch) -> state
        [] state \in Query /\ (IsUrlChar(ch) \/ ch = "?") -> "req_query_string"
        [] state \in Query \cup {"req_path"} /\ ch = "#" -> "req_fragment_start"
        [] state \in Fragment /\ (IsUrlChar(ch) \/ ch = "?") -> "req_fragment"
        [] state \in Fragment /\ ch = "#" -> state
        [] OTHER -> "dead"

UrlChar(x, state, ch) ==
  LET next == ParseUrlChar(state, ch)
      y == UpdateState(x, next)
  IN  IF next = "dead" THEN SetErrno(y, "INVALID_URL") ELSE y

SpacesBeforeUrl(x, ch) ==
  IF ch = "SP" THEN x
  ELSE UrlChar(Mark(x, "url"),
               IF x.parser.method = "CONNECT" THEN "req_server_start"
               ELSE "req_spaces_before_url", ch)

Url(x, ch) ==
  LET http09 == [x EXCEPT !.parser.httpMajor = 0, !.parser.httpMinor = 9]
      ends == x.parser.state \in UrlEnd
  IN  CASE ends /\ ch = "SP" ->
             CallbackData(UpdateState(x, "req_http_start"), "url")
        [] ends /\ ch = "CR" ->
             CallbackData(UpdateState(http09, "req_line_almost_done"), "url")
        [] ends /\ ch = "LF" ->
             CallbackData(UpdateState(http09, "header_field_start"), "url")
        [] OTHER -> UrlChar(x, x.parser.state, ch)

\* A first digit starts a number of the version, further ones go on with it.
FirstDigit(x, number, ch, least, state) ==
  IF ch \notin DOMAIN Digit \/ Digit[ch] < least THEN SetErrno(x, "INVALID_VERSION")
  ELSE UpdateState([x EXCEPT !.parser[number] = Digit[ch]], state)

NextDigit(x, number, ch) ==
  LET y == [x EXCEPT !.parser[number] = Base * @ + Digit[ch]]
  IN  IF ch \notin DOMAIN Digit THEN SetErrno(x, "INVALID_VERSION")
      ELSE IF y.parser[number] > MaxVersion THEN SetErrno(y, "INVALID_VERSION")
      ELSE y

HttpMajor(x, ch) ==
  IF ch = "." THEN UpdateState(x, "req_first_http_minor")
  ELSE NextDigit(x, "httpMajor", ch)

HttpMinor(x, ch) ==
  CASE ch = "CR" -> UpdateState(x, "req_line_almost_done")
    [] ch = "LF" -> UpdateState(x, "header_field_start")
    [] OTHER -> NextDigit(x, "httpMinor", ch)

\* States in which one unit is expected: the unit, the next state and the
\* error when it is another.
Expected ==
  [req_line_almost_done |-> <<"LF", "header_field_start", "LF_EXPECTED">>,
   header_value_discard_ws_almost_done
     |-> <<"LF", "header_value_discard_lws", "STRICT">>]
Expect(x, ch) ==
  LET e == Expected[x.parser.state]
  IN  IF ch = e[1] THEN UpdateState(x, e[2]) ELSE SetErrno(x, e[3])

-----------------------------------------------------------------------------
(* The body.                                                               *)

IsChunked(x) == "chunked" \in x.parser.flags

BodyIdentity(x, ch) ==
  LET y == [Mark(Check(x, HasLength(x)), "body") EXCEPT !.parser.contentLength = @ - 1]
  IN  IF y.parser.contentLength = 0
        THEN MessageDone(CallbackData(Advance(y, ch), "body")) ELSE y

ChunkSizeStart(x, ch) ==
  LET y == Check(x, x.parser.nread = 1 /\ IsChunked(x))
  IN  IF ch \notin DOMAIN Digit THEN SetErrno(y, "INVALID_CHUNK_SIZE")
      ELSE UpdateState([y EXCEPT !.parser.contentLength = Digit[ch]], "chunk_size")

ChunkSize(x, ch) ==
  LET y == Check(x, IsChunked(x))
  IN  CASE ch = "CR" -> UpdateState(y, "chunk_size_almost_done")
        [] ch = "SP" -> UpdateState(y, "chunk_parameters")
        [] ch \in DOMAIN Digit /\ Overflows(x.parser.contentLength) ->
             SetErrno(y, "INVALID_CONTENT_LENGTH")
        [] ch \in DOMAIN Digit /\ ~ Overflows(x.parser.contentLength) ->
             [y EXCEPT !.parser.contentLength = Base * @ + Digit[ch]]
        [] OTHER -> SetErrno(y, "INVALID_CHUNK_SIZE")

ChunkParameters(x, ch) ==
  LET y == Check(x, IsChunked(x))
  IN  IF ch = "CR" THEN UpdateState(y, "chunk_size_almost_done") ELSE y

ChunkSizeAlmostDone(x, ch) ==
  LET y == [Check(x, IsChunked(x)) EXCEPT !.parser.nread = 0,
                                          !.request = SetChunked(@)]
  IN  CASE ch # "LF" -> SetErrno(x, "STRICT")
        [] ch = "LF" /\ x.parser.contentLength = 0 ->
             UpdateState(AddFlags(y, {"trailing"}), "header_field_start")
        [] OTHER -> UpdateState(y, "chunk_data")

ChunkData(x, ch) ==
  LET y == [Mark(Check(x, IsChunked(x) /\ HasLength(x)), "body")
              EXCEPT !.parser.contentLength = @ - 1]
  IN  IF y.parser.contentLength = 0 THEN UpdateState(y, "chunk_data_almost_done")
      ELSE y

ChunkDataAlmostDone(x, ch) ==
  LET y == Check(x, IsChunked(x) /\ x.parser.contentLength = 0)
  IN  IF ch # "CR" THEN SetErrno(y, "STRICT")
      ELSE CallbackData(UpdateState(y, "chunk_data_done"), "body")

ChunkDataDone(x, ch) ==
  LET y == Check(x, IsChunked(x))
  IN  IF ch # "LF" THEN SetErrno(y, "STRICT")
      ELSE UpdateState([y EXCEPT !.parser.nread = 0], "chunk_size_start")

-----------------------------------------------------------------------------
(* The call.                                                               *)

\* The switch over the state.
Switch(x, ch, last) ==
  LET s == x.parser.state
  IN  CASE s = "dead" ->
             IF ch \in {"CR", "LF"} THEN x ELSE SetErrno(x, "CLOSED_CONNECTION")
        [] s = "start_req" -> StartReq(x, ch)
        [] s = "req_method" -> ReqMethod(x, ch)
        [] s = "req_spaces_before_url" -> SpacesBeforeUrl(x, ch)
        [] s \in UrlStates -> Url(x, ch)
        [] s = "req_http_start" ->
             CASE ch = "SP" -> x
               [] ch = "HTTP/" -> UpdateState(x, "req_first_http_major")
               [] OTHER -> SetErrno(x, "INVALID_CONSTANT")
        [] s = "req_first_http_major" ->
             FirstDigit(x, "httpMajor", ch, 1, "req_http_major")
        [] s = "req_http_major" -> HttpMajor(x, ch)
        [] s = "req_first_http_minor" ->
             FirstDigit(x, "httpMinor", ch, 0, "req_http_minor")
        [] s = "req_http_minor" -> HttpMinor(x, ch)
        [] s \in DOMAIN Expected -> Expect(x, ch)
        [] s = "header_field_start" -> HeaderFieldStart(x, ch)
        [] s = "header_field" -> HeaderField(x, ch, last)
        [] s = "header_value_discard_ws" -> DiscardWs(x, ch)
        [] s = "header_value_discard_lws" -> DiscardLws(x, ch)
        [] s = "header_value" -> HeaderValue(x, ch, last)
        [] s = "header_almost_done" -> HeaderAlmostDone(x, ch)
        [] s = "header_value_lws" -> HeaderValueLws(x, ch)
        [] s = "headers_almost_done" -> HeadersAlmostDone(x, ch)
        [] s = "body_identity" -> BodyIdentity(x, ch)
        [] s = "chunk_size_start" -> ChunkSizeStart(x, ch)
        [] s = "chunk_size" -> ChunkSize(x, ch)
        [] s = "chunk_parameters" -> ChunkParameters(x, ch)
        [] s = "chunk_size_almost_done" -> ChunkSizeAlmostDone(x, ch)
        [] s = "chunk_data" -> ChunkData(x, ch)
        [] s = "chunk_data_almost_done" -> ChunkDataAlmostDone(x, ch)
        [] s = "chunk_data_done" -> ChunkDataDone(x, ch)

\* One round of the loop over the data.
Round(x, ch, last) ==
  LET y == IF ParsingHeader(x.parser.state) /\ x.inner = 0
             THEN CountHeaderSize(x, 1) ELSE x
  IN  IF x.ended THEN x ELSE IF y.ended THEN y
      ELSE Advance(Switch(y, ch, last), ch)

\* Mutant: the mark of a URL that goes on is not set again.
MarksAtStartNoUrl(state) ==
  [name \in {"url", "header_field", "header_value", "body"} |->
     IF name = state THEN Marked ELSE Unset]

\* A string that was cut by the end of the last data goes on.
MarksAtStart(state) ==
  [name \in {"url", "header_field", "header_value", "body"} |->
     IF name = state \/ (name = "url" /\ state \in UrlStates)
       THEN Marked ELSE Unset]

MarksSet(x) == {name \in DOMAIN x.marks : x.marks[name].set}

\* The callbacks for the marks that are left at the end of the data.
Leftover(x) ==
  LET y == Check(x, Cardinality(MarksSet(x)) <= 1)
      names == CallbackData(CallbackData(y, "header_field"), "header_value")
  IN  CallbackData(CallbackData(names, "url"), "body")

\* Mutant: execute() goes on after an error.
BeginAgain(x) ==
  [x EXCEPT !.marks = MarksAtStart(x.parser.state), !.inner = 0, !.skips = FALSE,
            !.ended = FALSE]

\* execute() begins, with data: in an error state it has nothing to do.
Begin(x) ==
  [x EXCEPT !.marks = MarksAtStart(x.parser.state), !.inner = 0, !.skips = FALSE,
            !.ended = x.parser.errno # "OK"]

\* The data is used up.
EndOfData(x) == IF x.ended THEN x ELSE Leftover(x)

\* Mutant: the end of the data is an error in every state.
FinishAlwaysFails(parser) == [parser EXCEPT !.errno = "INVALID_EOF_STATE"]

\* finish(): http_parser_execute() with no data
Finish(parser) ==
  IF parser.errno # "OK" \/ parser.state \in {"dead", "start_req"} THEN parser
  ELSE [parser EXCEPT !.errno = "INVALID_EOF_STATE"]
=============================================================================
