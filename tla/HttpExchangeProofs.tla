------------------------- MODULE HttpExchangeProofs --------------------------
(* Proofs about the parser and the request: the assert()s of               *)
(* http_parser_execute() hold for every sequence of units that a client    *)
(* may send, wherever recv() ends, and for every limit of the head; an     *)
(* error is final; and a cut does not show, to the parser or its callbacks.*)
EXTENDS HttpExchange, SequenceLemmas, FiniteSetTheorems, TLAPS

-----------------------------------------------------------------------------
(* What holds between two rounds of the loop.                              *)

ChunkStates ==
  {"chunk_size_start", "chunk_size", "chunk_parameters", "chunk_size_almost_done",
   "chunk_data", "chunk_data_almost_done", "chunk_data_done"}
States ==
  {"dead", "start_req", "req_method", "req_spaces_before_url", "req_http_start",
   "req_first_http_major", "req_http_major", "req_first_http_minor",
   "req_http_minor", "req_line_almost_done", "header_field_start", "header_field",
   "header_value_discard_ws", "header_value_discard_ws_almost_done",
   "header_value_discard_lws", "header_value", "header_almost_done",
   "header_value_lws", "headers_almost_done", "body_identity"}
    \cup UrlStates \cup ChunkStates

\* The states in which each string is under way.
MarkStates ==
  [url |-> UrlStates, header_field |-> {"header_field"},
   header_value |-> {"header_value"},
   body |-> {"body_identity", "chunk_data", "chunk_data_almost_done"}]

\* The fields are there, with the types that the code relies on.
IsExec(x) ==
  /\ DOMAIN x = {"parser", "request", "marks", "inner", "skips", "heard", "ended",
                "asserted"}
  /\ x.inner \in Nat /\ x.skips \in BOOLEAN
  /\ DOMAIN x.parser = DOMAIN NewParser
  /\ x.parser.nread \in Nat /\ x.parser.contentLength \in 0..UllongMax
  /\ x.parser.upgrade \in BOOLEAN
  /\ DOMAIN x.request = DOMAIN NewRequest
  /\ x.request.completed \in BOOLEAN /\ x.request.isUpgrade \in BOOLEAN
  /\ DOMAIN x.marks = DOMAIN MarkStates
  /\ \A name \in DOMAIN x.marks :
       DOMAIN x.marks[name] = {"set", "text"} /\ x.marks[name].set \in BOOLEAN
  /\ x.ended \in BOOLEAN

\* A parser without an error: the length that a state counts down is known,
\* the flags agree with the state, and the head is within its limit; a chunk
\* size starts after n units.
IsParsing(p, n) ==
  /\ p.errno = "OK" /\ p.state \in States /\ p.nread <= MaxHeaderSize
  /\ p.state \in {"body_identity", "chunk_data"} => p.contentLength \notin {0, UllongMax}
  /\ p.state \in {"chunk_size", "chunk_parameters", "chunk_size_almost_done"} =>
       p.contentLength # UllongMax
  /\ p.state = "header_value" /\ p.headerState = "content_length" =>
       p.contentLength # UllongMax
  /\ p.state = "chunk_data_almost_done" => p.contentLength = 0
  /\ p.state \in ChunkStates => "chunked" \in p.flags
  /\ p.state = "chunk_size_start" => p.nread = n

\* Only the string of the state is under way, and it is, except that a body
\* which goes on in the next data is marked with its next unit.  Only the
\* loops over a name or a value are left in their middle.
InnerFits(x) == x.inner # 0 => x.parser.state \in {"header_field", "header_value"}
AreMarks(x) ==
  /\ InnerFits(x)
  /\ \A name \in MarksSet(x) : x.parser.state \in MarkStates[name]
  /\ \A name \in DOMAIN MarkStates \ {"body"} :
       x.parser.state \in MarkStates[name] => name \in MarksSet(x)

(* The inductive invariant of the parser: an assert() is reached only with *)
(* what it asserts.                                                        *)

ParserInv ==
  /\ IsExec(exec) /\ AssertsHold
  /\ exec.parser.errno = "OK" => IsParsing(exec.parser, 0)
  /\ IF pc = "execute" THEN ~exec.ended => exec.parser.errno = "OK" /\ AreMarks(exec)
     ELSE ~exec.ended

-----------------------------------------------------------------------------
(* What the parts of the parser leave behind.                              *)

LEMMA Digits ==
  /\ DOMAIN Digit = {"0", "1"}
  /\ \A d \in DOMAIN Digit : Digit[d] \in 0..1
  /\ UllongMax \in Nat /\ UllongMax > 1 /\ Base = 2
BY UllongMaxAssumption DEF Digit, Base

ParserFields ==
  {"state", "headerState", "flags", "contentLength", "nread", "errno", "upgrade",
   "method", "index", "httpMajor", "httpMinor"}

LEMMA FieldsAre ==
  /\ DOMAIN NewParser = ParserFields
  /\ DOMAIN NewRequest = {"url", "method", "isUpgrade", "headers", "headerField",
                          "headerValue", "concatField", "concatValue",
                          "expectedLength", "isChunked", "completed", "body",
                          "bodySize"}
  /\ DOMAIN MarkStates = {"url", "header_field", "header_value", "body"}
BY DEF NewParser, NewRequest, MarkStates, ParserFields

\* From x to y only some fields of the parser change.
Keeps(x, y, fields) ==
  /\ IsExec(y) /\ y.ended = x.ended /\ (x.asserted => y.asserted)
  /\ MarksSet(y) = MarksSet(x) /\ y.inner = x.inner
  /\ \A f \in ParserFields \ fields : y.parser[f] = x.parser[f]

LEMMA UpdateStateDoes ==
  ASSUME NEW x, NEW state, IsExec(x)
  PROVE  /\ Keeps(x, UpdateState(x, state), {"state"})
         /\ UpdateState(x, state).parser.state = state
BY FieldsAre DEF UpdateState, IsExec, Keeps, MarksSet, ParserFields

LEMMA AddFlagsDoes ==
  ASSUME NEW x, NEW flags, IsExec(x)
  PROVE  /\ Keeps(x, AddFlags(x, flags), {"flags"})
         /\ AddFlags(x, flags).parser.flags = x.parser.flags \cup flags
BY FieldsAre DEF AddFlags, IsExec, Keeps, MarksSet, ParserFields

\* Fields of the parser that no other depends on.
LEMMA FieldDoes ==
  ASSUME NEW x, NEW f \in ParserFields \ {"nread", "contentLength", "upgrade"},
         NEW v, IsExec(x)
  PROVE  Keeps(x, [x EXCEPT !.parser[f] = v], {f})
BY FieldsAre DEF IsExec, Keeps, MarksSet, ParserFields

LEMMA HeaderStateDoes ==
  ASSUME NEW x, NEW h, IsExec(x)
  PROVE  /\ Keeps(x, [x EXCEPT !.parser.headerState = h], {"headerState"})
         /\ [x EXCEPT !.parser.headerState = h].parser.headerState = h
BY FieldsAre DEF IsExec, Keeps, MarksSet, ParserFields

LEMMA LengthDoes ==
  ASSUME NEW x, NEW n \in 0..UllongMax, IsExec(x)
  PROVE  /\ Keeps(x, [x EXCEPT !.parser.contentLength = n], {"contentLength"})
         /\ [x EXCEPT !.parser.contentLength = n].parser.contentLength = n
BY FieldsAre DEF IsExec, Keeps, MarksSet, ParserFields

LEMMA NreadDoes ==
  ASSUME NEW x, NEW n \in Nat, IsExec(x)
  PROVE  /\ Keeps(x, [x EXCEPT !.parser.nread = n], {"nread"})
         /\ [x EXCEPT !.parser.nread = n].parser.nread = n
BY FieldsAre DEF IsExec, Keeps, MarksSet, ParserFields

LEMMA UpgradeDoes ==
  ASSUME NEW x, NEW v \in BOOLEAN, IsExec(x)
  PROVE  Keeps(x, [x EXCEPT !.parser.upgrade = v], {"upgrade"})
BY FieldsAre DEF IsExec, Keeps, MarksSet, ParserFields

\* A request object with the fields that are looked at here.
IsRequestObject(r) ==
  /\ DOMAIN r = DOMAIN NewRequest
  /\ r.completed \in BOOLEAN /\ r.isUpgrade \in BOOLEAN

LEMMA RequestDoes ==
  ASSUME NEW x, NEW r, IsExec(x), IsRequestObject(r)
  PROVE  Keeps(x, [x EXCEPT !.request = r], {}) /\ [x EXCEPT !.request = r].request = r
BY FieldsAre DEF IsExec, Keeps, MarksSet, ParserFields, IsRequestObject

LEMMA HeardDoes ==
  ASSUME NEW x, NEW h, IsExec(x)
  PROVE  Keeps(x, [x EXCEPT !.heard = h], {})
BY FieldsAre DEF IsExec, Keeps, MarksSet, ParserFields

LEMMA CheckDoes ==
  ASSUME NEW x, NEW test, IsExec(x), x.asserted, test
  PROVE  Keeps(x, Check(x, test), {}) /\ Check(x, test).parser = x.parser
BY FieldsAre DEF Check, IsExec, Keeps, MarksSet, ParserFields

LEMMA MarkDoes ==
  ASSUME NEW x, NEW name \in DOMAIN MarkStates, IsExec(x)
  PROVE  LET y == Mark(x, name)
         IN  /\ IsExec(y) /\ y.parser = x.parser /\ y.ended = x.ended
             /\ x.asserted => y.asserted
             /\ MarksSet(y) = MarksSet(x) \cup {name} /\ y.inner = x.inner
BY FieldsAre DEF Mark, Marked, IsExec, MarksSet

LEMMA AdvanceDoes ==
  ASSUME NEW x, NEW ch, IsExec(x)
  PROVE  Keeps(x, Advance(x, ch), {})
<1> DEFINE marks == [name \in DOMAIN x.marks |->
                       IF x.marks[name].set
                         THEN [x.marks[name] EXCEPT !.text = Append(@, ch)]
                         ELSE x.marks[name]]
           y == [x EXCEPT !.marks = marks]
<1>1. /\ DOMAIN marks = DOMAIN x.marks
      /\ \A name \in DOMAIN x.marks :
           /\ DOMAIN marks[name] = {"set", "text"}
           /\ marks[name].set = x.marks[name].set
  BY DEF IsExec
<1>2. Advance(x, ch) = y
  BY Zenon DEF Advance
<1> HIDE DEF marks
<1>3. /\ DOMAIN y = DOMAIN x /\ y.marks = marks /\ y.parser = x.parser
      /\ y.request = x.request /\ y.ended = x.ended /\ y.asserted = x.asserted
      /\ y.inner = x.inner /\ y.skips = x.skips
  BY DEF IsExec
<1> HIDE DEF y
<1>4. IsExec(y)
  BY <1>1, <1>3 DEF IsExec
<1>5. MarksSet(y) = MarksSet(x)
  BY <1>1, <1>3 DEF MarksSet
<1> QED
  BY <1>2, <1>3, <1>4, <1>5 DEF Keeps

-----------------------------------------------------------------------------
(* The callbacks.                                                          *)

LEMMA StoreKeeps ==
  ASSUME NEW r, NEW name \in DOMAIN MarkStates, NEW s, IsRequestObject(r)
  PROVE  IsRequestObject(Store(r, name, s))
<1> USE FieldsAre DEF IsRequestObject, Store
<1>1. CASE name = "url"
  BY <1>1 DEF SetUrl
<1>2. CASE name = "header_field"
  BY <1>2 DEF SetHeaderField
<1>3. CASE name = "header_value"
  BY <1>3 DEF SetHeaderValue
<1>4. CASE name = "body"
  BY <1>4 DEF SetBody
<1> QED
  BY <1>1, <1>2, <1>3, <1>4

\* CALLBACK_DATA() leaves the parser alone, and its mark is gone.
Calls(x, y, name) ==
  /\ IsExec(y) /\ y.parser = x.parser /\ y.ended = x.ended
  /\ x.asserted => y.asserted
  /\ MarksSet(y) = MarksSet(x) \ {name} /\ y.inner = x.inner

LEMMA CallbackDoes ==
  ASSUME NEW x, NEW name \in DOMAIN MarkStates, IsExec(x)
  PROVE  Calls(x, CallbackData(x, name), name)
<1>1. name \in DOMAIN x.marks /\ x.marks[name].set \in BOOLEAN
  BY DEF IsExec
<1>2. CASE ~ x.marks[name].set
  <2>1. CallbackData(x, name) = x
    BY <1>2 DEF CallbackData
  <2>2. name \notin MarksSet(x)
    BY <1>2 DEF MarksSet
  <2> QED
    BY <2>1, <2>2 DEF Calls
<1>3. CASE x.marks[name].set
  <2> DEFINE text == x.marks[name].text
             r == Store(x.request, name, text)
             heard == x.heard \o [i \in DOMAIN text |-> <<name, text[i]>>]
             y == [x EXCEPT !.marks[name] = Unset, !.request = r, !.heard = heard]
  <2>1. CallbackData(x, name) = y
    BY <1>3 DEF CallbackData
  <2>2. IsRequestObject(r)
    BY StoreKeeps DEF IsExec, IsRequestObject
  <2> HIDE DEF r, heard
  <2>3. /\ IsExec(y) /\ y.parser = x.parser /\ y.ended = x.ended
        /\ y.asserted = x.asserted /\ y.inner = x.inner
    BY <1>1, <2>2, FieldsAre DEF IsExec, Unset, IsRequestObject
  <2>4. MarksSet(y) = MarksSet(x) \ {name}
    BY <1>1, FieldsAre DEF MarksSet, Unset, IsExec
  <2> QED
    BY <2>1, <2>3, <2>4 DEF Calls
<1> QED
  BY <1>1, <1>2, <1>3

-----------------------------------------------------------------------------
(* Between two rounds.                                                     *)

\* The states that a string other than the body is under way in.
StringStates == UrlStates \cup {"header_field", "header_value"}

LEMMA MarksAgree ==
  ASSUME NEW x, InnerFits(x)
  PROVE  /\ MarksSet(x) = {} /\ x.parser.state \notin StringStates => AreMarks(x)
         /\ \A name \in DOMAIN MarkStates :
              MarksSet(x) = {name} /\ x.parser.state \in MarkStates[name] => AreMarks(x)
<1>1. \A name, other \in DOMAIN MarkStates :
        other # name => MarkStates[other] \cap MarkStates[name] = {}
  BY FieldsAre DEF MarkStates, UrlStates, UrlBegin, UrlEnd, Query, Fragment
<1>2. \A name \in DOMAIN MarkStates \ {"body"} : MarkStates[name] \subseteq StringStates
  BY FieldsAre DEF MarkStates, StringStates
<1> QED
  BY <1>1, <1>2 DEF AreMarks

\* A parser between two rounds of execute(), or one that has come to its end.
IsGoing(x, n) ==
  /\ IsExec(x) /\ x.asserted
  /\ ~x.ended /\ IsParsing(x.parser, n) /\ AreMarks(x)
IsResult(y) ==
  /\ IsExec(y) /\ y.asserted
  /\ y.parser.errno = "OK" => IsParsing(y.parser, 0)
  /\ ~y.ended => y.parser.errno = "OK" /\ AreMarks(y)

LEMMA ErrnoEnds ==
  ASSUME NEW x, NEW errno, IsExec(x), x.asserted, errno # "OK"
  PROVE  IsResult(SetErrno(x, errno))
BY FieldsAre DEF IsResult, SetErrno, IsExec, ParserFields

\* The states that ask nothing of lengths and flags.
PlainStates == States \ (ChunkStates \cup {"body_identity", "header_value"})
QuietStates == PlainStates \ StringStates

LEMMA PlainResult ==
  ASSUME NEW y, IsExec(y), y.asserted, y.parser.errno = "OK",
         y.parser.state \in PlainStates, y.parser.nread <= MaxHeaderSize,
         ~y.ended => AreMarks(y)
  PROVE  IsResult(y)
BY DEF PlainStates, IsResult, IsParsing, ChunkStates

\* What is looked at between two rounds, field by field.
LEMMA GoingIs ==
  ASSUME NEW x, NEW n, IsGoing(x, n)
  PROVE  /\ IsExec(x) /\ x.asserted /\ ~x.ended /\ AreMarks(x)
         /\ x.parser.errno = "OK" /\ x.parser.nread \in Nat
         /\ x.parser.nread <= MaxHeaderSize
         /\ x.parser.contentLength \in 0..UllongMax
         /\ x.parser.upgrade \in BOOLEAN
         /\ InnerFits(x) /\ (MarksSet(x) = {} => x.inner = 0)
<1>1. {"header_field", "header_value"} \subseteq DOMAIN MarkStates \ {"body"}
      /\ MarkStates["header_field"] = {"header_field"}
      /\ MarkStates["header_value"] = {"header_value"}
  BY FieldsAre DEF MarkStates
<1> QED
  BY <1>1 DEF IsGoing, IsParsing, IsExec, AreMarks, InnerFits

LEMMA NoMarks ==
  ASSUME NEW x, NEW n, IsGoing(x, n),
         x.parser.state \notin UrlStates
           \cup {"header_field", "header_value", "body_identity", "chunk_data",
                 "chunk_data_almost_done"}
  PROVE  MarksSet(x) = {}
BY FieldsAre DEF IsGoing, AreMarks, MarksSet, MarkStates, IsExec

\* The parser goes on in a plain state, with what is under way there.
LEMMA MovesTo ==
  ASSUME NEW x, NEW n, IsGoing(x, n), NEW y, NEW fields, Keeps(x, y, fields),
         fields \cap {"errno", "nread"} = {}, y.parser.state \in PlainStates,
         (MarksSet(x) = {} /\ y.parser.state \in QuietStates) \/ AreMarks(y)
  PROVE  IsResult(y)
<1>1. IsExec(y) /\ y.asserted /\ ~y.ended
  BY GoingIs DEF Keeps
<1>2. y.parser.errno = "OK" /\ y.parser.nread <= MaxHeaderSize
  BY GoingIs DEF Keeps, ParserFields
<1>3. AreMarks(y)
  BY GoingIs, MarksAgree DEF Keeps, QuietStates, InnerFits
<1> QED
  BY <1>1, <1>2, <1>3, PlainResult

LEMMA PlainStatesAre ==
  /\ {"dead", "start_req", "req_method", "req_spaces_before_url", "req_http_start",
      "req_first_http_major", "req_http_major", "req_first_http_minor",
      "req_http_minor", "req_line_almost_done", "header_field_start",
      "header_field", "header_value_discard_ws",
      "header_value_discard_ws_almost_done", "header_value_discard_lws",
      "header_almost_done", "header_value_lws", "headers_almost_done"}
       \subseteq PlainStates
  /\ UrlStates \subseteq PlainStates /\ QuietStates \subseteq PlainStates
  /\ {"dead", "start_req", "req_method", "req_spaces_before_url", "req_http_start",
      "req_first_http_major", "req_http_major", "req_first_http_minor",
      "req_http_minor", "req_line_almost_done", "header_field_start",
      "header_value_discard_ws", "header_value_discard_ws_almost_done",
      "header_value_discard_lws", "header_almost_done", "header_value_lws",
      "headers_almost_done"} \subseteq QuietStates
BY DEF PlainStates, QuietStates, StringStates, States, ChunkStates, UrlStates,
       UrlBegin, UrlEnd, Query, Fragment

\* COUNT_HEADER_SIZE() ends with an error, or within the limit.
LEMMA CountDoes ==
  ASSUME NEW x, NEW n \in Nat, IsExec(x), x.asserted
  PROVE  LET y == CountHeaderSize(x, n)
         IN  \/ y.ended /\ IsResult(y)
             \/ /\ Keeps(x, y, {"nread"})
                /\ y.parser.nread = x.parser.nread + n
                /\ y.parser.nread <= MaxHeaderSize
<1> DEFINE m == x.parser.nread + n
           z == [x EXCEPT !.parser.nread = m]
<1>1. m \in Nat
  BY DEF IsExec
<1>2. Keeps(x, z, {"nread"}) /\ z.parser.nread = m
  BY <1>1, NreadDoes, Zenon
<1>3. CountHeaderSize(x, n) = IF z.parser.nread > MaxHeaderSize
                                THEN SetErrno(z, "HEADER_OVERFLOW") ELSE z
  BY DEF CountHeaderSize
<1> HIDE DEF z
<1>4. CASE z.parser.nread > MaxHeaderSize
  <2>1. IsExec(z) /\ z.asserted
    BY <1>2 DEF Keeps
  <2>2. IsResult(SetErrno(z, "HEADER_OVERFLOW"))
    BY <2>1, ErrnoEnds
  <2>3. SetErrno(z, "HEADER_OVERFLOW").ended
    BY <2>1 DEF SetErrno, IsExec
  <2> QED
    BY <1>3, <1>4, <2>2, <2>3
<1>5. CASE ~ (z.parser.nread > MaxHeaderSize)
  BY <1>1, <1>2, <1>3, <1>5, MaxHeaderSizeAssumption
<1> QED
  BY <1>4, <1>5

\* The end of a loop is one as well.
LEMMA EndInnerDoes ==
  ASSUME NEW x, IsExec(x), x.asserted
  PROVE  LET y == EndInner(x)
         IN  \/ y.ended /\ IsResult(y)
             \/ /\ IsExec(y) /\ y.asserted /\ y.inner = 0 /\ y.ended = x.ended
                /\ MarksSet(y) = MarksSet(x) /\ y.parser.nread <= MaxHeaderSize
                /\ \A f \in ParserFields \ {"nread"} : y.parser[f] = x.parser[f]
<1> DEFINE c == CountHeaderSize(x, x.inner)
           y == [c EXCEPT !.inner = 0, !.skips = FALSE]
<1>1. x.inner \in Nat
  BY DEF IsExec
<1>2. \/ c.ended /\ IsResult(c)
      \/ Keeps(x, c, {"nread"}) /\ c.parser.nread <= MaxHeaderSize
  BY <1>1, CountDoes
<1>3. EndInner(x) = y
  BY DEF EndInner
<1> HIDE DEF c
<1>4. IsExec(c) /\ c.asserted
  BY <1>2 DEF IsResult, Keeps
<1>5. /\ IsExec(y) /\ y.inner = 0 /\ y.parser = c.parser /\ MarksSet(y) = MarksSet(c)
      /\ y.ended = c.ended /\ y.asserted = c.asserted
  BY <1>4, FieldsAre DEF IsExec, MarksSet
<1> HIDE DEF y
<1> QED
  BY <1>2, <1>3, <1>4, <1>5 DEF IsResult, Keeps

\* Outside of the loops nothing is left to count.
LEMMA NoInner ==
  ASSUME NEW x, NEW n, IsGoing(x, n),
         x.parser.state \notin {"header_field", "header_value"}
  PROVE  x.inner = 0
BY GoingIs DEF InnerFits

-----------------------------------------------------------------------------
(* The end of a message.                                                   *)

\* At the end of a message no string is under way.
LEMMA MessageDoneKeeps ==
  ASSUME NEW x, IsExec(x), x.asserted, x.parser.errno = "OK",
         x.parser.nread <= MaxHeaderSize, MarksSet(x) = {}, x.inner = 0
  PROVE  IsResult(MessageDone(x))
<1> DEFINE state == IF ShouldKeepAlive(x.parser) THEN "start_req" ELSE "dead"
           r == SetMessageComplete(x.request)
           heard == Append(x.heard, <<"message", "complete">>)
           y == [x EXCEPT !.parser.state = state, !.request = r, !.heard = heard]
           z == [y EXCEPT !.ended = x.parser.upgrade]
<1>1. MessageDone(x) = z
  BY DEF MessageDone, NewMessage
<1>2. state \in {"start_req", "dead"}
  OBVIOUS
<1>3. IsRequestObject(r)
  BY FieldsAre DEF SetMessageComplete, IsRequestObject, IsExec
<1>4. x.parser.upgrade \in BOOLEAN
  BY DEF IsExec
<1> HIDE DEF state, r, heard
<1>5. /\ IsExec(y) /\ y.parser.state = state /\ y.marks = x.marks
      /\ y.asserted = x.asserted /\ y.inner = 0
      /\ y.parser.errno = "OK" /\ y.parser.nread <= MaxHeaderSize
  BY <1>3, FieldsAre DEF IsExec, IsRequestObject, ParserFields
<1> HIDE DEF y
<1>6. /\ IsExec(z) /\ z.parser = y.parser /\ z.marks = x.marks
      /\ z.asserted = x.asserted /\ z.inner = 0
  BY <1>4, <1>5, FieldsAre DEF IsExec
<1> HIDE DEF z
<1>7. AreMarks(z)
  <2>1. MarksSet(z) = {} /\ z.parser.state \in QuietStates
    BY <1>2, <1>5, <1>6, PlainStatesAre DEF MarksSet
  <2> QED
    BY <1>6, <2>1, MarksAgree DEF QuietStates, InnerFits
<1> QED
  BY <1>1, <1>2, <1>5, <1>6, <1>7, PlainResult, PlainStatesAre

-----------------------------------------------------------------------------
(* The request line.                                                       *)

LEMMA StartReqKeeps ==
  ASSUME NEW x, NEW n, NEW ch, IsGoing(x, n), x.parser.state = "start_req"
  PROVE  IsResult(StartReq(x, ch))
<1> DEFINE w == [x EXCEPT !.parser.flags = {}]
           y == [w EXCEPT !.parser.contentLength = UllongMax]
           u == [y EXCEPT !.parser.method = MethodOf[ch]]
           z == [u EXCEPT !.parser.index = 1]
           r == UpdateState(z, "req_method")
<1>1. MarksSet(x) = {} /\ IsExec(x) /\ x.asserted
  BY NoMarks, GoingIs DEF UrlStates, UrlBegin, UrlEnd, Query, Fragment
<1>2. Keeps(x, y, {"flags", "contentLength"})
  <2>1. Keeps(x, w, {"flags"})
    BY <1>1, FieldsAre DEF IsExec, Keeps, MarksSet, ParserFields
  <2> HIDE DEF w
  <2>2. Keeps(w, y, {"contentLength"})
    BY <2>1, LengthDoes, Digits DEF Keeps
  <2> HIDE DEF y
  <2> QED
    BY <2>1, <2>2 DEF Keeps
<1>3. Keeps(x, r, {"flags", "contentLength", "method", "index", "state"})
      /\ r.parser.state = "req_method"
  <2> HIDE DEF y
  <2>1. Keeps(y, u, {"method"})
    BY <1>2, FieldsAre DEF IsExec, Keeps, MarksSet, ParserFields
  <2> HIDE DEF u
  <2>2. Keeps(u, z, {"index"})
    BY <2>1, FieldsAre DEF IsExec, Keeps, MarksSet, ParserFields
  <2> HIDE DEF z
  <2>3. Keeps(z, r, {"state"}) /\ r.parser.state = "req_method"
    BY <2>2, UpdateStateDoes DEF Keeps
  <2> HIDE DEF r
  <2> QED
    BY <1>2, <2>1, <2>2, <2>3 DEF Keeps
<1>4. CASE ch \in {"CR", "LF"}
  <2>1. StartReq(x, ch) = x
    BY <1>4 DEF StartReq, MethodOf
  <2> QED
    BY <2>1, GoingIs, PlainResult, PlainStatesAre
<1>5. CASE ch \notin {"CR", "LF"} /\ ch \in DOMAIN MethodOf
  <2>1. StartReq(x, ch) = r
    BY <1>5 DEF StartReq
  <2> HIDE DEF r
  <2> QED
    BY <1>1, <1>3, <2>1, MovesTo, PlainStatesAre
<1>6. CASE ch \notin {"CR", "LF"} /\ ch \notin DOMAIN MethodOf
  <2>1. StartReq(x, ch) = SetErrno(y, "INVALID_METHOD")
    BY <1>6 DEF StartReq
  <2>2. IsExec(y) /\ y.asserted
    BY <1>1, <1>2 DEF Keeps
  <2> HIDE DEF y
  <2> QED
    BY <2>1, <2>2, ErrnoEnds
<1> QED
  BY <1>4, <1>5, <1>6

\* The parser moves to another plain state, with no string under way,
LEMMA GoesTo ==
  ASSUME NEW x, NEW n, IsGoing(x, n), MarksSet(x) = {}, NEW state \in QuietStates
  PROVE  IsResult(UpdateState(x, state))
<1>1. /\ Keeps(x, UpdateState(x, state), {"state"})
      /\ UpdateState(x, state).parser.state = state
  BY GoingIs, UpdateStateDoes
<1> DEFINE y == UpdateState(x, state)
<1> HIDE DEF y
<1> QED
  BY <1>1, MovesTo, PlainStatesAre

\* or changes something that the invariant does not look at,
LEMMA StaysIn ==
  ASSUME NEW x, NEW n, IsGoing(x, n), x.parser.state \in PlainStates,
         NEW y, NEW fields, Keeps(x, y, fields),
         fields \cap {"errno", "nread", "state"} = {}
  PROVE  IsResult(y)
<1>1. y.parser.state = x.parser.state
  BY DEF Keeps, ParserFields
<1>2. AreMarks(y)
  BY <1>1, GoingIs DEF Keeps, AreMarks, InnerFits
<1> QED
  BY <1>1, <1>2, MovesTo

\* or nothing at all, or it ends with an error.
LEMMA StaysOrEnds ==
  ASSUME NEW x, NEW n, IsGoing(x, n)
  PROVE  /\ x.parser.state \in PlainStates => IsResult(x)
         /\ \A errno : errno # "OK" => IsResult(SetErrno(x, errno))
BY GoingIs, PlainResult, ErrnoEnds

LEMMA ReqMethodKeeps ==
  ASSUME NEW x, NEW n, NEW ch, IsGoing(x, n), x.parser.state = "req_method"
  PROVE  IsResult(ReqMethod(x, ch))
<1> DEFINE m == x.parser.method
           i == x.parser.index
           y == [x EXCEPT !.parser.index = @ + 1]
           other == OtherMethod[<<m, i, ch>>]
           z == [y EXCEPT !.parser.method = other]
           r == UpdateState(y, "req_spaces_before_url")
<1>1. MarksSet(x) = {} /\ IsExec(x) /\ x.asserted
  BY NoMarks, GoingIs DEF UrlStates, UrlBegin, UrlEnd, Query, Fragment
<1>2. Keeps(x, y, {"index"})
  BY <1>1, FieldsAre DEF IsExec, Keeps, MarksSet, ParserFields
<1>3. Keeps(x, z, {"index", "method"})
  <2> HIDE DEF y, other
  <2>1. Keeps(y, z, {"method"})
    BY <1>2, FieldsAre DEF IsExec, Keeps, MarksSet, ParserFields
  <2> HIDE DEF z
  <2> QED
    BY <1>2, <2>1 DEF Keeps
<1>4. Keeps(x, r, {"index", "state"}) /\ r.parser.state = "req_spaces_before_url"
  <2> HIDE DEF y
  <2>1. Keeps(y, r, {"state"}) /\ r.parser.state = "req_spaces_before_url"
    BY <1>2, UpdateStateDoes DEF Keeps
  <2> HIDE DEF r
  <2> QED
    BY <1>2, <2>1 DEF Keeps
<1>5. \/ ReqMethod(x, ch) = r
      \/ ReqMethod(x, ch) = y
      \/ ReqMethod(x, ch) = z
      \/ ReqMethod(x, ch) = SetErrno(x, "INVALID_METHOD")
  BY DEF ReqMethod
<1> HIDE DEF r, y, z
<1>6. IsResult(r)
  BY <1>1, <1>4, MovesTo, PlainStatesAre
<1>7. IsResult(y)
  BY <1>2, StaysIn, PlainStatesAre
<1>8. IsResult(z)
  BY <1>3, StaysIn, PlainStatesAre
<1> QED
  BY <1>5, <1>6, <1>7, <1>8, StaysOrEnds

LEMMA NextUrlState ==
  ASSUME NEW state, NEW ch
  PROVE  ParseUrlChar(state, ch) \in UrlStates \cup {"dead"}
BY DEF ParseUrlChar, UrlStates, UrlBegin, UrlEnd, Query, Fragment, IsAlpha,
       IsToken, IsUrlChar, IsServerChar

\* Only the string of the state is under way.
LEMMA OnlyMark ==
  ASSUME NEW x, NEW n, IsGoing(x, n), NEW name \in DOMAIN MarkStates,
         x.parser.state \in MarkStates[name]
  PROVE  /\ MarksSet(x) \subseteq {name}
         /\ name # "body" => MarksSet(x) = {name}
<1>1. \A other \in DOMAIN MarkStates :
        other # name => MarkStates[other] \cap MarkStates[name] = {}
  BY FieldsAre DEF MarkStates, UrlStates, UrlBegin, UrlEnd, Query, Fragment
<1>2. MarksSet(x) \subseteq DOMAIN MarkStates
  BY GoingIs DEF MarksSet, IsExec
<1> QED
  BY <1>1, <1>2, GoingIs DEF AreMarks

\* A string ends, and the parser goes on in a plain state.
LEMMA StringEnds ==
  ASSUME NEW x, NEW n, IsGoing(x, n), NEW y, NEW fields, Keeps(x, y, fields),
         fields \cap {"errno", "nread"} = {}, y.parser.state \in QuietStates,
         NEW name \in DOMAIN MarkStates, MarksSet(x) \subseteq {name}, x.inner = 0
  PROVE  /\ IsResult(CallbackData(y, name))
         /\ MarksSet(CallbackData(y, name)) = {}
         /\ ~CallbackData(y, name).ended /\ CallbackData(y, name).inner = 0
         /\ CallbackData(y, name).parser = y.parser
<1> DEFINE z == CallbackData(y, name)
<1>1. IsExec(y) /\ y.asserted /\ ~y.ended
  BY GoingIs DEF Keeps
<1>2. y.parser.errno = "OK" /\ y.parser.nread <= MaxHeaderSize
  BY GoingIs DEF Keeps, ParserFields
<1>3. Calls(y, z, name)
  BY <1>1, CallbackDoes
<1> HIDE DEF z
<1>4. MarksSet(z) = {}
  BY <1>3 DEF Calls, Keeps
<1>5. IsExec(z) /\ z.asserted /\ ~z.ended /\ z.parser = y.parser /\ z.inner = 0
  BY <1>1, <1>3 DEF Calls, Keeps
<1>6. AreMarks(z)
  BY <1>4, <1>5, MarksAgree DEF QuietStates, InnerFits
<1>7. IsResult(z)
  BY <1>2, <1>5, <1>6, PlainResult, PlainStatesAre
<1> QED
  BY <1>4, <1>5, <1>7 DEF z

LEMMA UrlCharKeeps ==
  ASSUME NEW x, NEW state, NEW ch, IsExec(x), x.asserted, x.parser.errno = "OK", x.inner = 0,
         x.parser.nread <= MaxHeaderSize, MarksSet(x) = {"url"}
  PROVE  IsResult(UrlChar(x, state, ch))
<1> DEFINE next == ParseUrlChar(state, ch)
           y == UpdateState(x, next)
<1>1. Keeps(x, y, {"state"}) /\ y.parser.state = next
  BY UpdateStateDoes, Zenon
<1>2. UrlChar(x, state, ch) = IF next = "dead" THEN SetErrno(y, "INVALID_URL") ELSE y
  BY DEF UrlChar
<1>3. next \in UrlStates \cup {"dead"}
  BY NextUrlState
<1> HIDE DEF y, next
<1>4. IsExec(y) /\ y.asserted
  BY <1>1 DEF Keeps
<1>5. CASE next = "dead"
  BY <1>2, <1>4, <1>5, ErrnoEnds
<1>6. CASE next # "dead"
  <2>1. y.parser.errno = "OK" /\ y.parser.nread <= MaxHeaderSize
    BY <1>1 DEF Keeps, ParserFields
  <2>2. y.parser.state \in MarkStates["url"]
    BY <1>1, <1>3, <1>6 DEF MarkStates
  <2>3. AreMarks(y)
    BY <1>1, <2>2, MarksAgree, FieldsAre DEF Keeps, InnerFits
  <2>4. y.parser.state \in PlainStates
    BY <1>1, <1>3, <1>6, PlainStatesAre
  <2> QED
    BY <1>2, <1>4, <1>6, <2>1, <2>3, <2>4, PlainResult
<1> QED
  BY <1>5, <1>6

LEMMA SpacesBeforeUrlKeeps ==
  ASSUME NEW x, NEW n, NEW ch, IsGoing(x, n), x.parser.state = "req_spaces_before_url"
  PROVE  IsResult(SpacesBeforeUrl(x, ch))
<1> DEFINE y == Mark(x, "url")
           state == IF x.parser.method = "CONNECT" THEN "req_server_start"
                    ELSE "req_spaces_before_url"
<1>1. MarksSet(x) = {}
  BY NoMarks DEF UrlStates, UrlBegin, UrlEnd, Query, Fragment
<1>2. /\ IsExec(y) /\ y.parser = x.parser /\ y.asserted
      /\ MarksSet(y) = {"url"} /\ y.inner = 0
  BY <1>1, MarkDoes, GoingIs, FieldsAre
<1>3. SpacesBeforeUrl(x, ch) = IF ch = "SP" THEN x ELSE UrlChar(y, state, ch)
  BY DEF SpacesBeforeUrl
<1> HIDE DEF y, state
<1>4. IsResult(UrlChar(y, state, ch))
  BY <1>2, GoingIs, UrlCharKeeps
<1> QED
  BY <1>3, <1>4, StaysOrEnds, PlainStatesAre

LEMMA UrlKeeps ==
  ASSUME NEW x, NEW n, NEW ch, IsGoing(x, n), x.parser.state \in UrlStates
  PROVE  IsResult(Url(x, ch))
<1> DEFINE u == [x EXCEPT !.parser.httpMajor = 0]
           http09 == [u EXCEPT !.parser.httpMinor = 9]
           a == UpdateState(x, "req_http_start")
           b == UpdateState(http09, "req_line_almost_done")
           c == UpdateState(http09, "header_field_start")
           e == UrlChar(x, x.parser.state, ch)
           version == {"httpMajor", "httpMinor", "state"}
<1>1. MarksSet(x) = {"url"} /\ IsExec(x) /\ x.inner = 0
  <2>1. x.inner = 0
    BY NoInner DEF UrlStates, UrlBegin, UrlEnd, Query, Fragment
  <2> QED
    BY <2>1, OnlyMark, GoingIs, FieldsAre DEF MarkStates
<1>2. Keeps(x, http09, {"httpMajor", "httpMinor"})
  <2>1. Keeps(x, u, {"httpMajor"})
    BY <1>1, FieldsAre DEF IsExec, Keeps, MarksSet, ParserFields
  <2> HIDE DEF u
  <2>2. Keeps(u, http09, {"httpMinor"})
    BY <2>1, FieldsAre DEF IsExec, Keeps, MarksSet, ParserFields
  <2> HIDE DEF http09
  <2> QED
    BY <2>1, <2>2 DEF Keeps
<1>3. Keeps(x, a, {"state"}) /\ a.parser.state = "req_http_start"
  BY <1>1, UpdateStateDoes, Zenon
<1>4. /\ Keeps(x, b, version) /\ b.parser.state = "req_line_almost_done"
      /\ Keeps(x, c, version) /\ c.parser.state = "header_field_start"
  <2> HIDE DEF http09
  <2>1. /\ Keeps(http09, b, {"state"}) /\ b.parser.state = "req_line_almost_done"
        /\ Keeps(http09, c, {"state"}) /\ c.parser.state = "header_field_start"
    BY <1>2, UpdateStateDoes DEF Keeps
  <2> HIDE DEF b, c
  <2> QED
    BY <1>2, <2>1 DEF Keeps
<1>5. \/ Url(x, ch) = CallbackData(a, "url")
      \/ Url(x, ch) = CallbackData(b, "url")
      \/ Url(x, ch) = CallbackData(c, "url")
      \/ Url(x, ch) = e
  BY DEF Url
<1> HIDE DEF a, b, c, e
<1>6. IsResult(CallbackData(a, "url"))
  BY <1>1, <1>3, StringEnds, PlainStatesAre, FieldsAre
<1>7. IsResult(CallbackData(b, "url"))
  BY <1>1, <1>4, StringEnds, PlainStatesAre, FieldsAre
<1>8. IsResult(CallbackData(c, "url"))
  BY <1>1, <1>4, StringEnds, PlainStatesAre, FieldsAre
<1>9. IsResult(e)
  BY <1>1, GoingIs, UrlCharKeeps DEF e
<1> QED
  BY <1>5, <1>6, <1>7, <1>8, <1>9

LEMMA FirstDigitKeeps ==
  ASSUME NEW x, NEW n, NEW ch, IsGoing(x, n), MarksSet(x) = {},
         x.parser.state \in PlainStates, NEW least,
         NEW number \in {"httpMajor", "httpMinor"}, NEW state \in QuietStates
  PROVE  IsResult(FirstDigit(x, number, ch, least, state))
<1> DEFINE y == [x EXCEPT !.parser[number] = Digit[ch]]
           z == UpdateState(y, state)
<1>1. Keeps(x, y, {number})
  BY GoingIs, FieldsAre DEF IsExec, Keeps, MarksSet, ParserFields
<1>2. \/ FirstDigit(x, number, ch, least, state) = SetErrno(x, "INVALID_VERSION")
      \/ FirstDigit(x, number, ch, least, state) = z
  BY DEF FirstDigit
<1> HIDE DEF y
<1>3. Keeps(y, z, {"state"}) /\ z.parser.state = state
  BY <1>1, UpdateStateDoes DEF Keeps
<1> HIDE DEF z
<1>4. Keeps(x, z, {number, "state"})
  BY <1>1, <1>3 DEF Keeps
<1>5. {number, "state"} \cap {"errno", "nread"} = {}
  OBVIOUS
<1>6. IsResult(z)
  BY <1>3, <1>4, <1>5, MovesTo, PlainStatesAre
<1> QED
  BY <1>2, <1>6, StaysOrEnds

LEMMA NextDigitKeeps ==
  ASSUME NEW x, NEW n, NEW ch, IsGoing(x, n), x.parser.state \in PlainStates,
         NEW number \in {"httpMajor", "httpMinor"}
  PROVE  IsResult(NextDigit(x, number, ch))
<1> DEFINE v == Base * x.parser[number] + Digit[ch]
           y == [x EXCEPT !.parser[number] = v]
<1>1. Keeps(x, y, {number})
  <2> HIDE DEF v
  <2> QED
    BY GoingIs, FieldsAre DEF IsExec, Keeps, MarksSet, ParserFields
<1>2. \/ NextDigit(x, number, ch) = SetErrno(x, "INVALID_VERSION")
      \/ NextDigit(x, number, ch) = SetErrno(y, "INVALID_VERSION")
      \/ NextDigit(x, number, ch) = y
  BY DEF NextDigit
<1> HIDE DEF y
<1>3. IsExec(y) /\ y.asserted
  BY <1>1, GoingIs DEF Keeps
<1>4. IsResult(SetErrno(y, "INVALID_VERSION"))
  BY <1>3, ErrnoEnds
<1>5. {number} \cap {"errno", "nread", "state"} = {}
  OBVIOUS
<1>6. IsResult(y)
  BY <1>1, <1>5, StaysIn
<1> QED
  BY <1>2, <1>4, <1>6, StaysOrEnds

LEMMA VersionKeeps ==
  ASSUME NEW x, NEW n, NEW ch, IsGoing(x, n), MarksSet(x) = {},
         x.parser.state \in PlainStates
  PROVE  IsResult(HttpMajor(x, ch)) /\ IsResult(HttpMinor(x, ch))
<1>1. HttpMajor(x, ch) \in {UpdateState(x, "req_first_http_minor"),
                            NextDigit(x, "httpMajor", ch)}
  BY DEF HttpMajor
<1>2. HttpMinor(x, ch) \in {UpdateState(x, "req_line_almost_done"),
                            UpdateState(x, "header_field_start"),
                            NextDigit(x, "httpMinor", ch)}
  BY DEF HttpMinor
<1> QED
  BY <1>1, <1>2, GoesTo, NextDigitKeeps, PlainStatesAre

LEMMA ExpectKeeps ==
  ASSUME NEW x, NEW n, NEW ch, IsGoing(x, n), x.parser.state \in DOMAIN Expected
  PROVE  IsResult(Expect(x, ch))
<1>1. MarksSet(x) = {}
  BY NoMarks DEF UrlStates, UrlBegin, UrlEnd, Query, Fragment, Expected
<1>2. /\ Expected[x.parser.state][2] \in QuietStates
      /\ Expected[x.parser.state][3] # "OK"
  BY PlainStatesAre DEF Expected
<1> QED
  BY <1>1, <1>2, GoesTo, StaysOrEnds DEF Expect

-----------------------------------------------------------------------------
(* Header lines.                                                           *)

\* No error, and no string under way.
IsFree(x) ==
  /\ IsExec(x) /\ x.asserted /\ x.parser.errno = "OK"
  /\ x.parser.nread <= MaxHeaderSize /\ MarksSet(x) = {} /\ x.inner = 0

LEMMA FreeIs ==
  ASSUME NEW x, NEW n, IsGoing(x, n), MarksSet(x) = {}
  PROVE  IsFree(x)
BY GoingIs DEF IsFree

LEMMA FreeKeeps ==
  ASSUME NEW x, IsFree(x), NEW y, NEW fields, Keeps(x, y, fields),
         fields \cap {"errno", "nread"} = {}
  PROVE  IsFree(y)
BY DEF IsFree, Keeps, ParserFields

LEMMA FreeResult ==
  ASSUME NEW x, IsFree(x), x.parser.state \in QuietStates
  PROVE  IsResult(x)
<1>1. AreMarks(x)
  BY MarksAgree DEF IsFree, QuietStates, InnerFits
<1> QED
  BY <1>1, PlainResult, PlainStatesAre DEF IsFree

LEMMA FreeGoesTo ==
  ASSUME NEW x, IsFree(x), NEW state \in QuietStates
  PROVE  IsResult(UpdateState(x, state)) /\ IsFree(UpdateState(x, state))
<1> DEFINE y == UpdateState(x, state)
<1>1. Keeps(x, y, {"state"}) /\ y.parser.state = state
  BY UpdateStateDoes DEF IsFree
<1> HIDE DEF y
<1>2. IsFree(y)
  BY <1>1, FreeKeeps
<1>3. IsResult(y)
  BY <1>1, <1>2, FreeResult
<1> QED
  BY <1>2, <1>3 DEF y

LEMMA HeadersDoneKeeps ==
  ASSUME NEW x, IsFree(x)
  PROVE  IsResult(HeadersDone(x))
<1> DEFINE y == [x EXCEPT !.parser.nread = 0]
           c == UpdateState(y, "chunk_size_start")
           b == UpdateState(y, "body_identity")
<1>1. Keeps(x, y, {"nread"}) /\ y.parser.nread = 0
  BY NreadDoes DEF IsFree
<1>2. HeadersDone(x) =
        IF x.parser.method = "CONNECT" THEN MessageDone(y)
        ELSE IF "chunked" \in x.parser.flags THEN c
        ELSE IF HasLength(x) THEN b
        ELSE MessageDone(y)
  BY DEF HeadersDone
<1> HIDE DEF y
<1>3. IsFree(y)
  BY <1>1, MaxHeaderSizeAssumption DEF IsFree, Keeps, ParserFields
<1>4. /\ Keeps(y, c, {"state"}) /\ c.parser.state = "chunk_size_start"
      /\ Keeps(y, b, {"state"}) /\ b.parser.state = "body_identity"
  BY <1>3, UpdateStateDoes DEF IsFree
<1> HIDE DEF b, c
<1>5. IsResult(MessageDone(y))
  BY <1>3, MessageDoneKeeps DEF IsFree
<1>6. ASSUME "chunked" \in x.parser.flags
      PROVE  IsResult(c)
  <2>1. IsFree(c)
    BY <1>3, <1>4, FreeKeeps
  <2>2. "chunked" \in c.parser.flags /\ c.parser.nread = 0
    BY <1>1, <1>4, <1>6 DEF Keeps, ParserFields
  <2>3. IsParsing(c.parser, 0)
    BY <1>4, <2>1, <2>2 DEF IsParsing, IsFree, States, ChunkStates
  <2> QED
    BY <1>4, <2>1, <2>3, MarksAgree
       DEF IsResult, IsFree, InnerFits, StringStates, UrlStates, UrlBegin, UrlEnd, Query,
           Fragment
<1>7. ASSUME HasLength(x)
      PROVE  IsResult(b)
  <2>1. IsFree(b)
    BY <1>3, <1>4, FreeKeeps
  <2>2. b.parser.contentLength \notin {0, UllongMax}
    BY <1>1, <1>4, <1>7 DEF Keeps, ParserFields, HasLength
  <2>3. IsParsing(b.parser, 0)
    BY <1>4, <2>1, <2>2 DEF IsParsing, IsFree, States, ChunkStates
  <2> QED
    BY <1>4, <2>1, <2>3, MarksAgree
       DEF IsResult, IsFree, InnerFits, StringStates, UrlStates, UrlBegin, UrlEnd, Query,
           Fragment
<1> QED
  BY <1>2, <1>5, <1>6, <1>7

LEMMA HeadersAlmostDoneKeeps ==
  ASSUME NEW x, NEW ch, IsFree(x)
  PROVE  IsResult(HeadersAlmostDone(x, ch))
<1> DEFINE upgrade == \/ {"upgrade", "connection_upgrade"} \subseteq x.parser.flags
                      \/ x.parser.method = "CONNECT"
           r == SetHeadersComplete(x.request, x.parser.method, upgrade)
           heard == Append(x.heard, <<"headers", "complete">>)
           u == [x EXCEPT !.parser.upgrade = upgrade]
           v == [u EXCEPT !.request = r]
           y == [v EXCEPT !.heard = heard]
<1>1. upgrade \in BOOLEAN
  OBVIOUS
<1>2. IsRequestObject(r)
  BY <1>1, FieldsAre DEF SetHeadersComplete, IsRequestObject, IsFree, IsExec
<1>3. \/ HeadersAlmostDone(x, ch) = SetErrno(x, "STRICT")
      \/ HeadersAlmostDone(x, ch) = MessageDone(x)
      \/ HeadersAlmostDone(x, ch) = SetErrno(x, "UNEXPECTED_CONTENT_LENGTH")
      \/ HeadersAlmostDone(x, ch) = HeadersDone(y)
  BY DEF HeadersAlmostDone
<1> HIDE DEF upgrade, r, heard
<1>4. Keeps(x, u, {"upgrade"})
  BY <1>1, UpgradeDoes DEF IsFree
<1> HIDE DEF u
<1>5. Keeps(u, v, {})
  BY <1>2, <1>4, RequestDoes DEF Keeps
<1> HIDE DEF v
<1>6. Keeps(v, y, {})
  BY <1>5, HeardDoes DEF Keeps
<1> HIDE DEF y
<1>7. Keeps(x, y, {"upgrade"})
  BY <1>4, <1>5, <1>6 DEF Keeps
<1>8. IsResult(HeadersDone(y))
  BY <1>7, FreeKeeps, HeadersDoneKeeps
<1>9. IsResult(MessageDone(x))
  BY MessageDoneKeeps DEF IsFree
<1> QED
  BY <1>3, <1>8, <1>9, ErrnoEnds DEF IsFree

LEMMA HeaderFieldStartKeeps ==
  ASSUME NEW x, NEW ch, IsFree(x)
  PROVE  IsResult(HeaderFieldStart(x, ch))
<1> DEFINE u == Mark(x, "header_field")
           v == UpdateState(u, "header_field")
           y == [v EXCEPT !.parser.headerState = Name("start", ch)]
<1>1. \/ HeaderFieldStart(x, ch) = UpdateState(x, "headers_almost_done")
      \/ HeaderFieldStart(x, ch) = HeadersAlmostDone(x, ch)
      \/ HeaderFieldStart(x, ch) = y
      \/ HeaderFieldStart(x, ch) = SetErrno(x, "INVALID_HEADER_TOKEN")
  BY DEF HeaderFieldStart, IsToken
<1>2. /\ IsExec(u) /\ u.parser = x.parser /\ u.asserted
      /\ MarksSet(u) = {"header_field"} /\ u.inner = 0
  BY MarkDoes, FieldsAre DEF IsFree
<1> HIDE DEF u
<1>3. Keeps(u, v, {"state"}) /\ v.parser.state = "header_field"
  BY <1>2, UpdateStateDoes
<1> HIDE DEF v
<1>4. Keeps(v, y, {"headerState"})
  BY <1>3, HeaderStateDoes DEF Keeps
<1> HIDE DEF y
<1>5. /\ IsExec(y) /\ y.asserted /\ y.parser.errno = "OK"
      /\ y.parser.nread <= MaxHeaderSize /\ y.parser.state = "header_field"
      /\ MarksSet(y) = {"header_field"} /\ y.inner = 0
  BY <1>2, <1>3, <1>4 DEF Keeps, ParserFields, IsFree
<1>6. AreMarks(y)
  BY <1>5, MarksAgree, FieldsAre DEF MarkStates, InnerFits
<1>7. IsResult(y)
  BY <1>5, <1>6, PlainResult, PlainStatesAre
<1> QED
  BY <1>1, <1>7, FreeGoesTo, PlainStatesAre, HeadersAlmostDoneKeeps, ErrnoEnds
     DEF IsFree

LEMMA HeaderFieldKeeps ==
  ASSUME NEW x, NEW n, NEW ch, NEW last, IsGoing(x, n),
         x.parser.state = "header_field"
  PROVE  IsResult(HeaderField(x, ch, last))
<1> DEFINE y == EndInner(x)
           a == UpdateState(y, "header_value_discard_ws")
           h == Name(x.parser.headerState, ch)
           m == x.inner + 1
           w == [x EXCEPT !.parser.headerState = h]
           z == [w EXCEPT !.inner = m, !.skips = x.skips]
           e == EndInner(z)
<1>1. IsExec(x) /\ x.asserted /\ MarksSet(x) \subseteq {"header_field"}
  BY OnlyMark, GoingIs, FieldsAre DEF MarkStates
<1>2. z = [x EXCEPT !.parser.headerState = Name(@, ch), !.inner = @ + 1]
  BY <1>1 DEF IsExec
<1>3. \/ HeaderField(x, ch, last) = y /\ y.ended
      \/ HeaderField(x, ch, last) = CallbackData(a, "header_field") /\ ~y.ended
      \/ HeaderField(x, ch, last) = z
      \/ HeaderField(x, ch, last) = e
      \/ HeaderField(x, ch, last) = SetErrno(y, "INVALID_HEADER_TOKEN")
  BY <1>2 DEF HeaderField, IsToken
<1>4. \/ y.ended /\ IsResult(y)
      \/ IsGoing(y, n) /\ y.inner = 0 /\ MarksSet(y) = MarksSet(x)
  <2>1. \/ y.ended /\ IsResult(y)
        \/ /\ IsExec(y) /\ y.asserted /\ y.inner = 0 /\ ~y.ended
           /\ MarksSet(y) = MarksSet(x) /\ y.parser.nread <= MaxHeaderSize
           /\ \A f \in ParserFields \ {"nread"} : y.parser[f] = x.parser[f]
    BY <1>1, EndInnerDoes, GoingIs
  <2> HIDE DEF y
  <2>2. ASSUME /\ IsExec(y) /\ y.asserted /\ y.inner = 0 /\ ~y.ended
               /\ MarksSet(y) = MarksSet(x) /\ y.parser.nread <= MaxHeaderSize
               /\ \A f \in ParserFields \ {"nread"} : y.parser[f] = x.parser[f]
        PROVE  IsGoing(y, n)
    <3>1. y.parser.errno = "OK" /\ y.parser.state = "header_field"
      BY <2>2, GoingIs DEF ParserFields
    <3>2. AreMarks(y)
      BY <2>2, <3>1, GoingIs DEF AreMarks, InnerFits
    <3> QED
      BY <2>2, <3>1, <3>2 DEF IsGoing, IsParsing, States, ChunkStates
  <2> QED
    BY <2>1, <2>2
<1>5. IsExec(y) /\ y.asserted
  BY <1>4 DEF IsResult, IsGoing
<1>6. /\ IsExec(z) /\ z.asserted /\ ~z.ended /\ z.inner = m /\ MarksSet(z) = MarksSet(x)
      /\ z.parser.state = "header_field" /\ z.parser.errno = "OK"
      /\ z.parser.nread <= MaxHeaderSize
  <2>1. Keeps(x, w, {"headerState"})
    BY <1>1, HeaderStateDoes
  <2>2. m \in Nat /\ x.skips \in BOOLEAN
    BY <1>1 DEF IsExec
  <2> HIDE DEF w, m
  <2>3. IsExec(w)
    BY <2>1 DEF Keeps
  <2>4. /\ IsExec(z) /\ z.inner = m /\ z.parser = w.parser /\ MarksSet(z) = MarksSet(w)
        /\ z.ended = w.ended /\ z.asserted = w.asserted
    BY <2>2, <2>3, FieldsAre DEF IsExec, MarksSet
  <2> HIDE DEF z
  <2> QED
    BY <1>1, <2>1, <2>4, GoingIs DEF Keeps, ParserFields
<1> HIDE DEF y, z
<1>7. ASSUME ~y.ended
      PROVE  IsResult(CallbackData(a, "header_field"))
  <2>1. Keeps(y, a, {"state"}) /\ a.parser.state = "header_value_discard_ws"
    BY <1>5, UpdateStateDoes, Zenon
  <2>2. IsGoing(y, n) /\ y.inner = 0 /\ MarksSet(y) \subseteq {"header_field"}
    BY <1>1, <1>4, <1>7
  <2> HIDE DEF a
  <2> QED
    BY <2>1, <2>2, StringEnds, PlainStatesAre, FieldsAre
<1>8. IsResult(z)
  <2>1. AreMarks(z)
    BY <1>6, GoingIs DEF AreMarks, InnerFits
  <2> QED
    BY <1>6, <2>1, PlainResult, PlainStatesAre
<1>9. IsResult(e)
  <2>1. \/ e.ended /\ IsResult(e)
        \/ /\ IsExec(e) /\ e.asserted /\ e.inner = 0 /\ ~e.ended
           /\ MarksSet(e) = MarksSet(z) /\ e.parser.nread <= MaxHeaderSize
           /\ \A f \in ParserFields \ {"nread"} : e.parser[f] = z.parser[f]
    BY <1>6, EndInnerDoes
  <2> HIDE DEF e
  <2>2. ASSUME /\ IsExec(e) /\ e.asserted /\ e.inner = 0 /\ ~e.ended
               /\ MarksSet(e) = MarksSet(z) /\ e.parser.nread <= MaxHeaderSize
               /\ \A f \in ParserFields \ {"nread"} : e.parser[f] = z.parser[f]
        PROVE  IsResult(e)
    <3>1. e.parser.errno = "OK" /\ e.parser.state = "header_field"
      BY <1>6, <2>2 DEF ParserFields
    <3>2. AreMarks(e)
      BY <1>6, <2>2, <3>1, GoingIs DEF AreMarks, InnerFits
    <3> QED
      BY <2>2, <3>1, <3>2, PlainResult, PlainStatesAre
  <2> QED
    BY <2>1, <2>2
<1> QED
  <2>1. IsResult(SetErrno(y, "INVALID_HEADER_TOKEN"))
    BY <1>5, ErrnoEnds
  <2>2. y.ended => IsResult(y)
    BY <1>4 DEF IsGoing
  <2> HIDE DEF a, e
  <2> QED
    BY <1>3, <1>7, <1>8, <1>9, <2>1, <2>2

\* A value that is under way: digits of a length follow a length.
LEMMA ValueResult ==
  ASSUME NEW y, IsExec(y), y.asserted, y.parser.errno = "OK",
         y.parser.nread <= MaxHeaderSize, y.parser.state = "header_value",
         MarksSet(y) = {"header_value"},
         y.parser.headerState = "content_length" => y.parser.contentLength # UllongMax
  PROVE  IsResult(y)
<1>1. AreMarks(y)
  BY MarksAgree, FieldsAre DEF MarkStates, InnerFits
<1>2. IsParsing(y.parser, 0)
  BY DEF IsParsing, States, ChunkStates
<1> QED
  BY <1>1, <1>2 DEF IsResult

LEMMA NoOptionIsALength ==
  ASSUME NEW h, NEW ch
  PROVE  /\ ConnectionOptionOf(ch) # "content_length"
         /\ Value(h, ch) # "content_length"
<1>1. ConnectionOptionOf(ch) # "content_length"
  BY DEF ConnectionOptionOf
<1>2. /\ DOMAIN NextValueState =
           {"matching_transfer_encoding_chunked", "matching_connection_keep_alive",
            "matching_connection_close", "matching_connection_upgrade"}
      /\ \A k \in DOMAIN NextValueState : NextValueState[k][2] # "content_length"
  BY DEF NextValueState
<1>3. CASE h \in DOMAIN NextValueState /\ ch = NextValueState[h][1]
  BY <1>1, <1>2, <1>3 DEF Value
<1>4. CASE h \in DOMAIN NextValueState /\ ch # NextValueState[h][1]
  BY <1>1, <1>2, <1>4 DEF Value
<1>5. CASE h \notin DOMAIN NextValueState
  BY <1>1, <1>2, <1>5 DEF Value
<1> QED
  BY <1>1, <1>3, <1>4, <1>5

LEMMA HeaderValueStartKeeps ==
  ASSUME NEW x, NEW ch, IsFree(x)
  PROVE  IsResult(HeaderValueStart(x, ch))
<1> DEFINE u == Mark(x, "header_value")
           y == UpdateState(u, "header_value")
           With(k) == [y EXCEPT !.parser.headerState = k]
           c == [y EXCEPT !.parser.contentLength = Digit[ch]]
           d == AddFlags(c, {"content_length"})
           general == With("general")
           h == x.parser.headerState
           result == HeaderValueStart(x, ch)
<1>1. /\ IsExec(u) /\ u.parser = x.parser /\ u.asserted
      /\ MarksSet(u) = {"header_value"} /\ u.inner = 0
  BY MarkDoes, FieldsAre DEF IsFree
<1>2. Keeps(u, y, {"state"}) /\ y.parser.state = "header_value"
  <2> HIDE DEF u
  <2> QED
    BY <1>1, UpdateStateDoes
<1>3. \/ result = AddFlags(general, {"upgrade"})
      \/ \E k : k # "content_length" /\ result = With(k)
      \/ \E errno : errno # "OK" /\ result = SetErrno(y, errno)
      \/ ch \in DOMAIN Digit /\ result = d
      \/ h # "content_length" /\ result = y
  <2>1. CASE h = "upgrade"
    BY <2>1 DEF HeaderValueStart
  <2>2. CASE h = "transfer_encoding"
    <3> DEFINE k == IF Lower(ch) = "chunk" THEN "matching_transfer_encoding_chunked"
                    ELSE "general"
    <3>1. result = With(k)
      BY <2>2 DEF HeaderValueStart
    <3>2. k # "content_length"
      OBVIOUS
    <3> HIDE DEF k, result, y
    <3> QED
      BY <3>1, <3>2
  <2>3. CASE h = "content_length"
    BY <2>3 DEF HeaderValueStart
  <2>4. CASE h = "connection"
    <3>1. result = With(ConnectionOptionOf(ch))
      BY <2>4 DEF HeaderValueStart
    <3> HIDE DEF result, y
    <3> QED
      BY <3>1, NoOptionIsALength
  <2>5. CASE h = "matching_connection_token_start"
    BY <2>5 DEF HeaderValueStart
  <2>6. CASE h \notin {"upgrade", "transfer_encoding", "content_length",
                       "connection", "matching_connection_token_start"}
    BY <2>6 DEF HeaderValueStart
  <2> QED
    BY <2>1, <2>2, <2>3, <2>4, <2>5, <2>6
<1> HIDE DEF u
<1>4. /\ IsExec(y) /\ y.asserted /\ y.parser.errno = "OK"
      /\ y.parser.nread <= MaxHeaderSize /\ y.parser.state = "header_value"
      /\ MarksSet(y) = {"header_value"} /\ y.parser.headerState = h
  BY <1>1, <1>2 DEF Keeps, ParserFields, IsFree
<1> HIDE DEF y
<1>5. \A k : /\ Keeps(y, With(k), {"headerState"})
             /\ With(k).parser.headerState = k
  BY <1>4, HeaderStateDoes
<1>6. IsResult(AddFlags(general, {"upgrade"}))
  <2> DEFINE z == AddFlags(general, {"upgrade"})
  <2>1. Keeps(y, general, {"headerState"}) /\ general.parser.headerState = "general"
    BY <1>5
  <2> HIDE DEF general
  <2>2. Keeps(general, z, {"flags"})
    BY <2>1, AddFlagsDoes DEF Keeps
  <2> HIDE DEF z
  <2>3. /\ IsExec(z) /\ z.asserted /\ z.parser.errno = "OK"
        /\ z.parser.nread <= MaxHeaderSize /\ z.parser.state = "header_value"
        /\ MarksSet(z) = {"header_value"} /\ z.parser.headerState = "general"
    BY <1>4, <2>1, <2>2 DEF Keeps, ParserFields
  <2> QED
    BY <2>3, ValueResult DEF z
<1>7. ASSUME NEW k, k # "content_length"
      PROVE  IsResult(With(k))
  <2> DEFINE z == With(k)
  <2>1. Keeps(y, z, {"headerState"}) /\ z.parser.headerState = k
    BY <1>5
  <2> HIDE DEF z
  <2>2. /\ IsExec(z) /\ z.asserted /\ z.parser.errno = "OK"
        /\ z.parser.nread <= MaxHeaderSize /\ z.parser.state = "header_value"
        /\ MarksSet(z) = {"header_value"}
    BY <1>4, <2>1 DEF Keeps, ParserFields
  <2>3. IsResult(z)
    BY <1>7, <2>1, <2>2, ValueResult
  <2> QED
    BY <2>3 DEF z
<1>8. ASSUME ch \in DOMAIN Digit
      PROVE  IsResult(d)
  <2>1. Digit[ch] \in 0..UllongMax /\ Digit[ch] # UllongMax
    BY <1>8, Digits
  <2>2. Keeps(y, c, {"contentLength"}) /\ c.parser.contentLength = Digit[ch]
    BY <1>4, <2>1, LengthDoes
  <2> HIDE DEF c
  <2>3. Keeps(c, d, {"flags"})
    BY <2>2, AddFlagsDoes DEF Keeps
  <2> HIDE DEF d
  <2>4. /\ IsExec(d) /\ d.asserted /\ d.parser.errno = "OK"
        /\ d.parser.nread <= MaxHeaderSize /\ d.parser.state = "header_value"
        /\ MarksSet(d) = {"header_value"} /\ d.parser.contentLength = Digit[ch]
    BY <1>4, <2>2, <2>3 DEF Keeps, ParserFields
  <2>5. d.parser.contentLength # UllongMax
    BY <2>1, <2>4
  <2> QED
    BY <2>4, <2>5, ValueResult
<1>9. ASSUME h # "content_length"
      PROVE  IsResult(y)
  BY <1>4, <1>9, ValueResult
<1>10. \A errno : errno # "OK" => IsResult(SetErrno(y, errno))
  BY <1>4, ErrnoEnds
<1> HIDE DEF With, general, d, h
<1> QED
  BY <1>3, <1>6, <1>7, <1>8, <1>9, <1>10

LEMMA HeaderAlmostDoneKeeps ==
  ASSUME NEW x, NEW ch, IsFree(x)
  PROVE  IsResult(HeaderAlmostDone(x, ch))
BY FreeGoesTo, PlainStatesAre, ErrnoEnds DEF HeaderAlmostDone, IsFree

LEMMA DiscardWsKeeps ==
  ASSUME NEW x, NEW ch, IsFree(x), x.parser.state = "header_value_discard_ws"
  PROVE  IsResult(DiscardWs(x, ch))
<1>1. DiscardWs(x, ch) \in
        {x, UpdateState(x, "header_value_discard_ws_almost_done"),
         UpdateState(x, "header_value_discard_lws"), HeaderValueStart(x, ch)}
  BY DEF DiscardWs
<1> QED
  BY <1>1, FreeResult, FreeGoesTo, HeaderValueStartKeeps, PlainStatesAre

\* Flags are added, and the next line begins.
LEMMA LineEnds ==
  ASSUME NEW x, NEW flags, IsFree(x)
  PROVE  IsFree(UpdateState(AddFlags(x, flags), "header_field_start"))
<1> DEFINE y == AddFlags(x, flags)
<1>1. Keeps(x, y, {"flags"})
  BY AddFlagsDoes DEF IsFree
<1> HIDE DEF y
<1>2. IsFree(y)
  BY <1>1, FreeKeeps
<1>3. IsFree(UpdateState(y, "header_field_start"))
  BY <1>2, FreeGoesTo, PlainStatesAre
<1> QED
  BY <1>3 DEF y

LEMMA HeaderValueLwsKeeps ==
  ASSUME NEW x, NEW ch, IsFree(x)
  PROVE  IsResult(HeaderValueLws(x, ch))
<1> DEFINE y == UpdateState(AddFlags(x, Flag(x.parser.headerState)),
                            "header_field_start")
<1>1. HeaderValueLws(x, ch) \in {HeaderValueStart(x, ch), HeaderFieldStart(y, ch)}
  BY DEF HeaderValueLws
<1>2. IsFree(y)
  BY LineEnds
<1> HIDE DEF y
<1> QED
  BY <1>1, <1>2, HeaderValueStartKeeps, HeaderFieldStartKeeps

LEMMA DiscardLwsKeeps ==
  ASSUME NEW x, NEW ch, IsFree(x)
  PROVE  IsResult(DiscardLws(x, ch))
<1> DEFINE y == UpdateState(AddFlags(x, Flag(x.parser.headerState)),
                            "header_field_start")
           u == Mark(y, "header_value")
           v == CallbackData(u, "header_value")
<1>1. DiscardLws(x, ch) \in {UpdateState(x, "header_value_discard_ws"),
                             HeaderFieldStart(v, ch)}
  BY DEF DiscardLws
<1>2. IsFree(y)
  BY LineEnds
<1> HIDE DEF y
<1>3. /\ IsExec(u) /\ u.parser = y.parser /\ u.asserted
      /\ MarksSet(u) = {"header_value"} /\ u.inner = 0
  BY <1>2, MarkDoes, FieldsAre DEF IsFree
<1> HIDE DEF u
<1>4. Calls(u, v, "header_value")
  BY <1>3, CallbackDoes, FieldsAre
<1> HIDE DEF v
<1>5. IsFree(v)
  BY <1>2, <1>3, <1>4 DEF IsFree, Calls
<1> QED
  BY <1>1, <1>5, FreeGoesTo, HeaderFieldStartKeeps, PlainStatesAre

\* A length that grows by a digit stays below the one that says there is none.
LEMMA LengthGrows ==
  ASSUME NEW n \in 0..UllongMax, NEW d \in 0..1, ~Overflows(n)
  PROVE  Base * n + d \in 0..UllongMax /\ Base * n + d # UllongMax
BY Digits DEF Overflows

LEMMA HeaderValueKeeps ==
  ASSUME NEW x, NEW n, NEW ch, NEW last, IsGoing(x, n),
         x.parser.state = "header_value"
  PROVE  IsResult(HeaderValue(x, ch, last))
<1> DEFINE h == x.parser.headerState
           u == UpdateState(x, "header_almost_done")
           heard == CallbackData(u, "header_value")
           ends == EndInner(heard)
           counted == EndInner(u)
           done == CallbackData(counted, "header_value")
           length == Base * x.parser.contentLength + Digit[ch]
           flags == IF ch = "," /\ h # "transfer_encoding_chunked"
                    THEN Flag(h) ELSE {}
           v == [x EXCEPT !.parser.headerState = Value(h, ch)]
           a == AddFlags(v, flags)
           c == [x EXCEPT !.parser.contentLength = length]
           bad == SetErrno(x, "INVALID_CONTENT_LENGTH")
           y == ValueChar(x, ch)
           m == y.inner + 1
           skips == y.skips \/ x.parser.headerState = "general"
           z == [y EXCEPT !.inner = m, !.skips = skips]
           e == EndInner(z)
           result == HeaderValue(x, ch, last)
<1>1. \/ result = ends
      \/ result = counted /\ counted.ended
      \/ result = HeaderAlmostDone(done, ch) /\ ~counted.ended
      \/ result = SetErrno(x, "INVALID_HEADER_TOKEN")
      \/ result = y /\ y.ended
      \/ result = z /\ ~y.ended
      \/ result = e /\ ~y.ended
  <2> HIDE DEF y
  <2>1. z = [y EXCEPT !.inner = @ + 1, !.skips = @ \/ x.parser.headerState = "general"]
    OBVIOUS
  <2> HIDE DEF z, u
  <2> QED
    BY <2>1 DEF HeaderValue, y, u
<1>2. \/ h # "content_length" /\ y = a
      \/ h = "content_length" /\ y = x
      \/ h = "content_length" /\ ch \in DOMAIN Digit /\ ~Overflows(x.parser.contentLength) /\ y = c
      \/ y = bad
  BY Digits DEF ValueChar
<1>3. /\ IsExec(x) /\ x.asserted /\ ~x.ended /\ x.parser.errno = "OK"
      /\ x.parser.nread <= MaxHeaderSize /\ MarksSet(x) = {"header_value"}
      /\ x.parser.contentLength \in 0..UllongMax
      /\ h = "content_length" => x.parser.contentLength # UllongMax
  BY OnlyMark, GoingIs, FieldsAre DEF MarkStates, IsGoing, IsParsing, IsExec
<1>4. Keeps(x, u, {"state"}) /\ u.parser.state = "header_almost_done"
  BY <1>3, UpdateStateDoes
<1> HIDE DEF u
<1>5. IsResult(ends)
  <2>1. /\ IsExec(heard) /\ heard.asserted /\ ~heard.ended /\ heard.parser = u.parser
        /\ MarksSet(heard) = {}
    BY <1>3, <1>4, CallbackDoes, FieldsAre DEF Keeps, Calls
  <2> HIDE DEF heard
  <2>2. \/ ends.ended /\ IsResult(ends)
        \/ /\ IsExec(ends) /\ ends.asserted /\ ends.inner = 0
           /\ MarksSet(ends) = {} /\ ends.parser.nread <= MaxHeaderSize
           /\ \A f \in ParserFields \ {"nread"} : ends.parser[f] = heard.parser[f]
    BY <2>1, EndInnerDoes
  <2> HIDE DEF ends
  <2>3. ASSUME /\ IsExec(ends) /\ ends.asserted /\ ends.inner = 0
               /\ MarksSet(ends) = {} /\ ends.parser.nread <= MaxHeaderSize
               /\ \A f \in ParserFields \ {"nread"} : ends.parser[f] = heard.parser[f]
        PROVE  IsResult(ends)
    <3>1. ends.parser.errno = "OK" /\ ends.parser.state = "header_almost_done"
      BY <1>3, <1>4, <2>1, <2>3 DEF Keeps, ParserFields
    <3>2. IsFree(ends)
      BY <2>3, <3>1 DEF IsFree
    <3> QED
      BY <3>1, <3>2, FreeResult, PlainStatesAre
  <2> QED
    BY <2>2, <2>3
<1>6. \/ counted.ended /\ IsResult(counted)
      \/ /\ IsExec(counted) /\ counted.asserted /\ counted.inner = 0 /\ ~counted.ended
         /\ MarksSet(counted) = {"header_value"} /\ counted.parser.nread <= MaxHeaderSize
         /\ \A f \in ParserFields \ {"nread"} : counted.parser[f] = u.parser[f]
  BY <1>3, <1>4, EndInnerDoes DEF Keeps
<1> HIDE DEF counted
<1>7. ASSUME ~counted.ended
      PROVE  IsResult(HeaderAlmostDone(done, ch))
  <2>1. /\ IsExec(done) /\ done.asserted /\ done.parser = counted.parser
        /\ MarksSet(done) = {} /\ done.inner = 0
    BY <1>6, <1>7, CallbackDoes, FieldsAre DEF Calls
  <2> HIDE DEF done
  <2>2. IsFree(done)
    BY <1>3, <1>4, <1>6, <1>7, <2>1 DEF IsFree, Keeps, ParserFields
  <2> QED
    BY <2>2, HeaderAlmostDoneKeeps
<1>8. /\ Keeps(x, a, {"headerState", "flags"})
      /\ a.parser.headerState # "content_length"
  <2> DEFINE w == Value(h, ch)
  <2>1. w # "content_length"
    BY NoOptionIsALength
  <2> HIDE DEF w, flags
  <2>2. Keeps(x, v, {"headerState"}) /\ v.parser.headerState = w
    BY <1>3, HeaderStateDoes DEF w
  <2> HIDE DEF v
  <2>3. Keeps(v, a, {"flags"})
    BY <2>2, AddFlagsDoes DEF Keeps
  <2> HIDE DEF a
  <2> QED
    BY <2>1, <2>2, <2>3 DEF Keeps, ParserFields
<1>9. ASSUME h = "content_length", ch \in DOMAIN Digit, ~Overflows(x.parser.contentLength)
      PROVE  /\ Keeps(x, c, {"contentLength"})
             /\ c.parser.contentLength # UllongMax
  <2>1. length \in 0..UllongMax /\ length # UllongMax
    BY <1>3, <1>9, LengthGrows, Digits
  <2> HIDE DEF length
  <2>2. Keeps(x, c, {"contentLength"}) /\ c.parser.contentLength = length
    BY <1>3, <2>1, LengthDoes
  <2> QED
    BY <2>1, <2>2
<1> DEFINE IsValue(w) ==
             /\ IsExec(w) /\ w.asserted /\ ~w.ended /\ w.parser.errno = "OK"
             /\ w.parser.nread <= MaxHeaderSize /\ w.parser.state = "header_value"
             /\ MarksSet(w) = {"header_value"}
             /\ w.parser.headerState = "content_length" =>
                  w.parser.contentLength # UllongMax
<1>10. IsValue(x) /\ IsValue(a)
  <2> HIDE DEF a
  <2> QED
    BY <1>3, <1>8 DEF Keeps, ParserFields
<1>11. h = "content_length" /\ ch \in DOMAIN Digit /\ ~Overflows(x.parser.contentLength)
         => IsValue(c)
  <2> HIDE DEF c
  <2> QED
    BY <1>3, <1>9 DEF Keeps, ParserFields
<1>12. IsResult(bad) /\ bad.ended
  BY <1>3, ErrnoEnds DEF SetErrno, IsExec
<1> HIDE DEF a, c, bad, done, h
<1>13. \/ IsValue(y)
       \/ y.ended /\ IsResult(y)
  BY <1>2, <1>10, <1>11, <1>12
<1> HIDE DEF y
<1>14. ASSUME ~y.ended
       PROVE  IsValue(z)
  <2>1. IsValue(y)
    BY <1>13, <1>14
  <2>2. m \in Nat /\ skips \in BOOLEAN
    BY <2>1 DEF IsExec
  <2> HIDE DEF m, skips
  <2>3. /\ IsExec(z) /\ z.parser = y.parser /\ MarksSet(z) = MarksSet(y)
        /\ z.ended = y.ended /\ z.asserted = y.asserted
    BY <2>1, <2>2, FieldsAre DEF IsExec, MarksSet
  <2> HIDE DEF z
  <2> QED
    BY <2>1, <2>3
<1> HIDE DEF z
<1>15. ASSUME IsValue(z)
       PROVE  IsResult(e)
  <2>1. \/ e.ended /\ IsResult(e)
        \/ /\ IsExec(e) /\ e.asserted /\ ~e.ended
           /\ MarksSet(e) = MarksSet(z) /\ e.parser.nread <= MaxHeaderSize
           /\ \A f \in ParserFields \ {"nread"} : e.parser[f] = z.parser[f]
    BY <1>15, EndInnerDoes
  <2> HIDE DEF e
  <2>2. ASSUME /\ IsExec(e) /\ e.asserted /\ ~e.ended
               /\ MarksSet(e) = MarksSet(z) /\ e.parser.nread <= MaxHeaderSize
               /\ \A f \in ParserFields \ {"nread"} : e.parser[f] = z.parser[f]
        PROVE  IsValue(e)
    BY <1>15, <2>2 DEF ParserFields
  <2> QED
    BY <2>1, <2>2, ValueResult
<1>16. IsValue(z) => IsResult(z)
  BY ValueResult
<1>17. IsResult(SetErrno(x, "INVALID_HEADER_TOKEN"))
  BY <1>3, ErrnoEnds
<1>18. counted.ended => IsResult(counted)
  BY <1>6
<1>19. y.ended => IsResult(y)
  BY <1>13
<1> HIDE DEF e, ends, IsValue, result
<1> QED
  BY <1>1, <1>5, <1>7, <1>14, <1>15, <1>16, <1>17, <1>18, <1>19 DEF result

-----------------------------------------------------------------------------
(* The body.                                                               *)

LEMMA BodyIdentityKeeps ==
  ASSUME NEW x, NEW n, NEW ch, IsGoing(x, n), x.parser.state = "body_identity"
  PROVE  IsResult(BodyIdentity(x, ch))
<1> DEFINE a == Check(x, HasLength(x))
           b == Mark(a, "body")
           length == b.parser.contentLength - 1
           y == [b EXCEPT !.parser.contentLength = length]
           u == Advance(y, ch)
           v == CallbackData(u, "body")
<1>1. BodyIdentity(x, ch) = IF y.parser.contentLength = 0 THEN MessageDone(v) ELSE y
  BY DEF BodyIdentity
<1>2. /\ IsExec(x) /\ x.asserted /\ x.parser.errno = "OK"
      /\ x.parser.nread <= MaxHeaderSize /\ MarksSet(x) \subseteq {"body"}
      /\ x.parser.contentLength \in 1..(UllongMax - 1) /\ x.inner = 0
  <2>1. MarksSet(x) \subseteq {"body"}
    BY OnlyMark, FieldsAre DEF MarkStates
  <2>2. x.inner = 0
    BY NoInner
  <2>3. x.parser.contentLength \notin {0, UllongMax}
    BY DEF IsGoing, IsParsing
  <2> QED
    BY <2>1, <2>2, <2>3, GoingIs, Digits
<1>3. HasLength(x)
  BY <1>2, Digits DEF HasLength
<1>4. Keeps(x, a, {})
  BY <1>2, <1>3, CheckDoes
<1> HIDE DEF a
<1>5. /\ IsExec(b) /\ b.asserted /\ b.parser = a.parser
      /\ MarksSet(b) = {"body"} /\ b.inner = 0
  BY <1>2, <1>4, MarkDoes, FieldsAre DEF Keeps
<1> HIDE DEF b
<1>6. b.parser.contentLength = x.parser.contentLength
  BY <1>4, <1>5 DEF Keeps, ParserFields
<1>7. length \in 0..UllongMax /\ length # UllongMax
  BY <1>2, <1>6, Digits
<1> HIDE DEF length
<1>8. Keeps(b, y, {"contentLength"}) /\ y.parser.contentLength = length
  BY <1>5, <1>7, LengthDoes
<1> HIDE DEF y
<1>9. /\ IsExec(y) /\ y.asserted /\ y.parser.errno = "OK"
      /\ y.parser.nread <= MaxHeaderSize /\ MarksSet(y) = {"body"}
      /\ y.inner = 0 /\ y.parser.state = "body_identity"
  BY <1>2, <1>4, <1>5, <1>8 DEF Keeps, ParserFields
<1>10. CASE y.parser.contentLength = 0
  <2>1. Keeps(y, u, {})
    BY <1>9, AdvanceDoes
  <2> HIDE DEF u
  <2>2. Calls(u, v, "body")
    BY <2>1, CallbackDoes, FieldsAre DEF Keeps
  <2> HIDE DEF v
  <2>3. IsFree(v)
    BY <1>9, <2>1, <2>2 DEF IsFree, Calls, Keeps, ParserFields
  <2>4. IsResult(MessageDone(v))
    BY <2>3, MessageDoneKeeps DEF IsFree
  <2> QED
    BY <1>1, <1>10, <2>4
<1>11. CASE y.parser.contentLength # 0
  <2>1. y.parser.contentLength \notin {0, UllongMax}
    BY <1>7, <1>8, <1>11
  <2>2. IsParsing(y.parser, 0)
    BY <1>9, <2>1 DEF IsParsing, States, ChunkStates
  <2>3. AreMarks(y)
    BY <1>9, MarksAgree, FieldsAre DEF MarkStates, InnerFits
  <2> QED
    BY <1>1, <1>9, <1>11, <2>2, <2>3 DEF IsResult
<1> QED
  BY <1>10, <1>11

\* A chunk size, and what is around it, with no string under way.
LEMMA ChunkHeadResult ==
  ASSUME NEW y, IsFree(y), "chunked" \in y.parser.flags,
         y.parser.state \in {"chunk_size_start", "chunk_size", "chunk_parameters",
                             "chunk_size_almost_done", "chunk_data_done"},
         y.parser.state = "chunk_size_start" => y.parser.nread = 0,
         y.parser.state \notin {"chunk_size_start", "chunk_data_done"} =>
           y.parser.contentLength # UllongMax
  PROVE  IsResult(y)
<1>1. IsParsing(y.parser, 0)
  BY DEF IsParsing, States, ChunkStates, IsFree
<1> QED
  BY <1>1, MarksAgree
     DEF IsResult, IsFree, InnerFits, StringStates, UrlStates, UrlBegin, UrlEnd, Query,
         Fragment

\* The assert() at the beginning of a chunk state.
LEMMA ChunkCheck ==
  ASSUME NEW x, NEW n, IsGoing(x, n), MarksSet(x) = {},
         x.parser.state \in ChunkStates,
         NEW test, IsChunked(x) => test
  PROVE  /\ Keeps(x, Check(x, test), {}) /\ IsFree(Check(x, test))
         /\ "chunked" \in Check(x, test).parser.flags
<1> DEFINE y == Check(x, test)
<1>1. "chunked" \in x.parser.flags
  BY DEF IsGoing, IsParsing
<1>2. Keeps(x, y, {})
  BY <1>1, GoingIs, CheckDoes DEF IsChunked
<1> HIDE DEF y
<1>3. IsFree(y)
  BY <1>2, FreeIs, FreeKeeps
<1>4. "chunked" \in y.parser.flags
  BY <1>1, <1>2 DEF Keeps, ParserFields
<1> QED
  BY <1>2, <1>3, <1>4 DEF y

LEMMA ChunkSizeStartKeeps ==
  ASSUME NEW x, NEW ch, IsGoing(x, 1), x.parser.state = "chunk_size_start"
  PROVE  IsResult(ChunkSizeStart(x, ch))
<1> DEFINE y == Check(x, x.parser.nread = 1 /\ IsChunked(x))
           z == [y EXCEPT !.parser.contentLength = Digit[ch]]
           r == UpdateState(z, "chunk_size")
<1>1. ChunkSizeStart(x, ch) =
        IF ch \notin DOMAIN Digit THEN SetErrno(y, "INVALID_CHUNK_SIZE") ELSE r
  BY DEF ChunkSizeStart
<1>2. MarksSet(x) = {}
  BY NoMarks DEF UrlStates, UrlBegin, UrlEnd, Query, Fragment
<1>3. x.parser.nread = 1
  BY DEF IsGoing, IsParsing
<1>4. IsFree(y) /\ "chunked" \in y.parser.flags
  BY <1>2, <1>3, ChunkCheck DEF ChunkStates
<1> HIDE DEF y
<1>5. ASSUME ch \in DOMAIN Digit
      PROVE  IsResult(r)
  <2>1. Digit[ch] \in 0..UllongMax /\ Digit[ch] # UllongMax
    BY <1>5, Digits
  <2>2. Keeps(y, z, {"contentLength"}) /\ z.parser.contentLength = Digit[ch]
    BY <1>4, <2>1, LengthDoes DEF IsFree
  <2> HIDE DEF z
  <2>3. Keeps(z, r, {"state"}) /\ r.parser.state = "chunk_size"
    BY <2>2, UpdateStateDoes DEF Keeps
  <2> HIDE DEF r
  <2>4. Keeps(y, r, {"contentLength", "state"})
    BY <2>2, <2>3 DEF Keeps
  <2>5. r.parser.contentLength # UllongMax /\ "chunked" \in r.parser.flags
    BY <1>4, <2>1, <2>2, <2>3 DEF Keeps, ParserFields
  <2>6. IsFree(r)
    BY <1>4, <2>4, FreeKeeps
  <2> QED
    BY <2>3, <2>5, <2>6, ChunkHeadResult
<1> QED
  BY <1>1, <1>4, <1>5, ErrnoEnds DEF IsFree

\* In the states of a chunk size the parser goes on with another of them.
LEMMA ChunkHeadGoesTo ==
  ASSUME NEW y, IsFree(y), "chunked" \in y.parser.flags,
         y.parser.contentLength # UllongMax,
         NEW state \in {"chunk_size", "chunk_parameters", "chunk_size_almost_done"}
  PROVE  IsResult(UpdateState(y, state))
<1> DEFINE r == UpdateState(y, state)
<1>1. Keeps(y, r, {"state"}) /\ r.parser.state = state
  BY UpdateStateDoes DEF IsFree
<1> HIDE DEF r
<1>2. IsFree(r)
  BY <1>1, FreeKeeps
<1>3. "chunked" \in r.parser.flags /\ r.parser.contentLength # UllongMax
  BY <1>1 DEF Keeps, ParserFields
<1>4. IsResult(r)
  BY <1>1, <1>2, <1>3, ChunkHeadResult
<1> QED
  BY <1>4 DEF r

\* What the states of a chunk size have in common.
LEMMA ChunkHead ==
  ASSUME NEW x, NEW n, IsGoing(x, n),
         x.parser.state \in {"chunk_size", "chunk_parameters", "chunk_size_almost_done"}
  PROVE  LET y == Check(x, IsChunked(x))
         IN  /\ MarksSet(x) = {} /\ Keeps(x, y, {}) /\ IsFree(y)
             /\ "chunked" \in y.parser.flags /\ y.parser.state = x.parser.state
             /\ y.parser.contentLength = x.parser.contentLength
             /\ x.parser.contentLength \in 0..UllongMax
             /\ x.parser.contentLength # UllongMax
<1> DEFINE y == Check(x, IsChunked(x))
<1>1. MarksSet(x) = {}
  BY NoMarks DEF UrlStates, UrlBegin, UrlEnd, Query, Fragment
<1>2. Keeps(x, y, {}) /\ IsFree(y) /\ "chunked" \in y.parser.flags
  BY <1>1, ChunkCheck DEF ChunkStates
<1>3. x.parser.contentLength \in 0..UllongMax /\ x.parser.contentLength # UllongMax
  BY GoingIs DEF IsGoing, IsParsing
<1> HIDE DEF y
<1>4. y.parser.state = x.parser.state
      /\ y.parser.contentLength = x.parser.contentLength
  BY <1>2 DEF Keeps, ParserFields
<1> QED
  BY <1>1, <1>2, <1>3, <1>4 DEF y

LEMMA ChunkSizeKeeps ==
  ASSUME NEW x, NEW n, NEW ch, IsGoing(x, n), x.parser.state = "chunk_size"
  PROVE  IsResult(ChunkSize(x, ch))
<1> DEFINE y == Check(x, IsChunked(x))
           length == Base * y.parser.contentLength + Digit[ch]
           z == [y EXCEPT !.parser.contentLength = length]
<1>1. \/ ChunkSize(x, ch) = UpdateState(y, "chunk_size_almost_done")
      \/ ChunkSize(x, ch) = UpdateState(y, "chunk_parameters")
      \/ /\ ch \in DOMAIN Digit /\ ~Overflows(x.parser.contentLength)
         /\ ChunkSize(x, ch) = z
      \/ ChunkSize(x, ch) = SetErrno(y, "INVALID_CONTENT_LENGTH")
      \/ ChunkSize(x, ch) = SetErrno(y, "INVALID_CHUNK_SIZE")
  <2> HIDE DEF y
  <2>1. z = [y EXCEPT !.parser.contentLength = Base * @ + Digit[ch]]
    OBVIOUS
  <2> HIDE DEF z
  <2> QED
    BY <2>1, Digits DEF ChunkSize, y
<1>2. /\ IsFree(y) /\ "chunked" \in y.parser.flags
      /\ y.parser.state = "chunk_size"
      /\ y.parser.contentLength = x.parser.contentLength
      /\ x.parser.contentLength \in 0..UllongMax /\ x.parser.contentLength # UllongMax
  BY ChunkHead
<1> HIDE DEF y
<1>3. ASSUME ch \in DOMAIN Digit, ~Overflows(x.parser.contentLength)
      PROVE  IsResult(z)
  <2>1. length \in 0..UllongMax /\ length # UllongMax
    BY <1>2, <1>3, LengthGrows, Digits
  <2> HIDE DEF length
  <2>2. Keeps(y, z, {"contentLength"}) /\ z.parser.contentLength = length
    BY <1>2, <2>1, LengthDoes DEF IsFree
  <2> HIDE DEF z
  <2>3. IsFree(z)
    BY <1>2, <2>2, FreeKeeps
  <2>4. /\ z.parser.contentLength # UllongMax
        /\ z.parser.state = "chunk_size" /\ "chunked" \in z.parser.flags
    BY <1>2, <2>1, <2>2 DEF Keeps, ParserFields
  <2> QED
    BY <2>3, <2>4, ChunkHeadResult
<1>4. y.parser.contentLength # UllongMax
  BY <1>2
<1> QED
  BY <1>1, <1>2, <1>3, <1>4, ChunkHeadGoesTo, ErrnoEnds DEF IsFree

LEMMA ChunkParametersKeeps ==
  ASSUME NEW x, NEW n, NEW ch, IsGoing(x, n), x.parser.state = "chunk_parameters"
  PROVE  IsResult(ChunkParameters(x, ch))
<1> DEFINE y == Check(x, IsChunked(x))
<1>1. ChunkParameters(x, ch) \in {UpdateState(y, "chunk_size_almost_done"), y}
  BY DEF ChunkParameters
<1>2. /\ IsFree(y) /\ "chunked" \in y.parser.flags
      /\ y.parser.state = "chunk_parameters"
      /\ y.parser.contentLength = x.parser.contentLength
      /\ x.parser.contentLength # UllongMax
  BY ChunkHead
<1> HIDE DEF y
<1>3. y.parser.contentLength # UllongMax
  BY <1>2
<1> QED
  BY <1>1, <1>2, <1>3, ChunkHeadGoesTo, ChunkHeadResult

LEMMA ChunkSizeAlmostDoneKeeps ==
  ASSUME NEW x, NEW n, NEW ch, IsGoing(x, n), x.parser.state = "chunk_size_almost_done"
  PROVE  IsResult(ChunkSizeAlmostDone(x, ch))
<1> DEFINE c == Check(x, IsChunked(x))
           r == SetChunked(c.request)
           u == [c EXCEPT !.parser.nread = 0]
           y == [u EXCEPT !.request = r]
           t == UpdateState(AddFlags(y, {"trailing"}), "header_field_start")
           d == UpdateState(y, "chunk_data")
<1>1. \/ ChunkSizeAlmostDone(x, ch) = SetErrno(x, "STRICT")
      \/ ChunkSizeAlmostDone(x, ch) = t
      \/ x.parser.contentLength # 0 /\ ChunkSizeAlmostDone(x, ch) = d
  <2>1. CASE ch # "LF"
    BY <2>1 DEF ChunkSizeAlmostDone
  <2>2. CASE ch = "LF" /\ x.parser.contentLength = 0
    BY <2>2 DEF ChunkSizeAlmostDone
  <2>3. CASE ch = "LF" /\ x.parser.contentLength # 0
    BY <2>3 DEF ChunkSizeAlmostDone
  <2> QED
    BY <2>1, <2>2, <2>3
<1>2. /\ IsFree(c) /\ "chunked" \in c.parser.flags
      /\ c.parser.contentLength = x.parser.contentLength
      /\ x.parser.contentLength # UllongMax
  BY ChunkHead
<1> HIDE DEF c
<1>3. IsRequestObject(r)
  BY <1>2, FieldsAre DEF SetChunked, IsRequestObject, IsFree, IsExec
<1> HIDE DEF r
<1>4. Keeps(c, u, {"nread"}) /\ u.parser.nread = 0
  BY <1>2, NreadDoes DEF IsFree
<1> HIDE DEF u
<1>5. Keeps(u, y, {})
  BY <1>3, <1>4, RequestDoes DEF Keeps
<1> HIDE DEF y
<1>6. /\ IsFree(y) /\ "chunked" \in y.parser.flags
      /\ y.parser.contentLength = x.parser.contentLength
  BY <1>2, <1>4, <1>5, MaxHeaderSizeAssumption DEF IsFree, Keeps, ParserFields
<1>7. IsResult(t)
  <2>1. IsFree(t)
    BY <1>6, LineEnds
  <2>2. t.parser.state = "header_field_start"
    <3> DEFINE w == AddFlags(y, {"trailing"})
    <3>1. IsExec(w)
      BY <1>6, AddFlagsDoes DEF IsFree, Keeps
    <3> HIDE DEF w
    <3>2. UpdateState(w, "header_field_start").parser.state = "header_field_start"
      BY <3>1, UpdateStateDoes
    <3> QED
      BY <3>2 DEF w
  <2> HIDE DEF t
  <2> QED
    BY <2>1, <2>2, FreeResult, PlainStatesAre
<1>8. ASSUME x.parser.contentLength # 0
      PROVE  IsResult(d)
  <2>1. Keeps(y, d, {"state"}) /\ d.parser.state = "chunk_data"
    BY <1>6, UpdateStateDoes DEF IsFree
  <2> HIDE DEF d
  <2>2. IsFree(d)
    BY <1>6, <2>1, FreeKeeps
  <2>3. /\ "chunked" \in d.parser.flags
        /\ d.parser.contentLength = x.parser.contentLength
    BY <1>6, <2>1 DEF Keeps, ParserFields
  <2>4. d.parser.contentLength \notin {0, UllongMax}
    BY <1>2, <1>8, <2>3
  <2>5. IsParsing(d.parser, 0)
    BY <2>1, <2>2, <2>3, <2>4 DEF IsParsing, States, ChunkStates, IsFree
  <2> QED
    BY <2>1, <2>2, <2>5, MarksAgree
       DEF IsResult, IsFree, InnerFits, StringStates, UrlStates, UrlBegin, UrlEnd, Query,
           Fragment
<1> QED
  BY <1>1, <1>7, <1>8, StaysOrEnds

LEMMA ChunkDataKeeps ==
  ASSUME NEW x, NEW n, NEW ch, IsGoing(x, n), x.parser.state = "chunk_data"
  PROVE  IsResult(ChunkData(x, ch))
<1> DEFINE a == Check(x, IsChunked(x) /\ HasLength(x))
           b == Mark(a, "body")
           length == b.parser.contentLength - 1
           y == [b EXCEPT !.parser.contentLength = length]
           r == UpdateState(y, "chunk_data_almost_done")
<1>1. ChunkData(x, ch) = IF y.parser.contentLength = 0 THEN r ELSE y
  BY DEF ChunkData
<1>2. /\ IsExec(x) /\ x.asserted /\ x.parser.errno = "OK"
      /\ x.parser.nread <= MaxHeaderSize /\ MarksSet(x) \subseteq {"body"}
      /\ x.parser.contentLength \in 1..(UllongMax - 1) /\ "chunked" \in x.parser.flags
      /\ x.inner = 0
  <2>1. MarksSet(x) \subseteq {"body"}
    BY OnlyMark, FieldsAre DEF MarkStates
  <2>2. x.inner = 0
    BY NoInner
  <2>3. x.parser.contentLength \notin {0, UllongMax}
    BY DEF IsGoing, IsParsing
  <2> QED
    BY <2>1, <2>2, <2>3, GoingIs, Digits DEF IsGoing, IsParsing, ChunkStates
<1>3. IsChunked(x) /\ HasLength(x)
  BY <1>2, Digits DEF HasLength, IsChunked
<1>4. Keeps(x, a, {})
  BY <1>2, <1>3, CheckDoes
<1> HIDE DEF a
<1>5. /\ IsExec(b) /\ b.asserted /\ b.parser = a.parser
      /\ MarksSet(b) = {"body"} /\ b.inner = 0
  BY <1>2, <1>4, MarkDoes, FieldsAre DEF Keeps
<1> HIDE DEF b
<1>6. b.parser.contentLength = x.parser.contentLength
  BY <1>4, <1>5 DEF Keeps, ParserFields
<1>7. length \in 0..UllongMax /\ length # UllongMax
  BY <1>2, <1>6, Digits
<1> HIDE DEF length
<1>8. Keeps(b, y, {"contentLength"}) /\ y.parser.contentLength = length
  BY <1>5, <1>7, LengthDoes
<1> HIDE DEF y
<1>9. /\ IsExec(y) /\ y.asserted /\ y.parser.errno = "OK"
      /\ y.parser.nread <= MaxHeaderSize /\ MarksSet(y) = {"body"}
      /\ y.inner = 0 /\ y.parser.state = "chunk_data" /\ "chunked" \in y.parser.flags
  BY <1>2, <1>4, <1>5, <1>8 DEF Keeps, ParserFields
<1>10. CASE y.parser.contentLength = 0
  <2>1. Keeps(y, r, {"state"}) /\ r.parser.state = "chunk_data_almost_done"
    BY <1>9, UpdateStateDoes
  <2> HIDE DEF r
  <2>2. /\ IsExec(r) /\ r.asserted /\ r.parser.errno = "OK"
        /\ r.parser.nread <= MaxHeaderSize /\ MarksSet(r) = {"body"}
        /\ r.parser.contentLength = 0 /\ "chunked" \in r.parser.flags /\ r.inner = 0
    BY <1>9, <1>10, <2>1 DEF Keeps, ParserFields
  <2>3. IsParsing(r.parser, 0)
    BY <2>1, <2>2 DEF IsParsing, States, ChunkStates
  <2>4. AreMarks(r)
    BY <2>1, <2>2, MarksAgree, FieldsAre DEF MarkStates, InnerFits
  <2> QED
    BY <1>1, <1>10, <2>2, <2>3, <2>4 DEF IsResult
<1>11. CASE y.parser.contentLength # 0
  <2>1. y.parser.contentLength \notin {0, UllongMax}
    BY <1>7, <1>8, <1>11
  <2>2. IsParsing(y.parser, 0)
    BY <1>9, <2>1 DEF IsParsing, States, ChunkStates
  <2>3. AreMarks(y)
    BY <1>9, MarksAgree, FieldsAre DEF MarkStates, InnerFits
  <2> QED
    BY <1>1, <1>9, <1>11, <2>2, <2>3 DEF IsResult
<1> QED
  BY <1>10, <1>11

LEMMA ChunkDataAlmostDoneKeeps ==
  ASSUME NEW x, NEW n, NEW ch, IsGoing(x, n), x.parser.state = "chunk_data_almost_done"
  PROVE  IsResult(ChunkDataAlmostDone(x, ch))
<1> DEFINE y == Check(x, IsChunked(x) /\ x.parser.contentLength = 0)
           u == UpdateState(y, "chunk_data_done")
           v == CallbackData(u, "body")
<1>1. ChunkDataAlmostDone(x, ch) = IF ch # "CR" THEN SetErrno(y, "STRICT") ELSE v
  BY DEF ChunkDataAlmostDone
<1>2. /\ IsExec(x) /\ x.asserted /\ x.parser.errno = "OK"
      /\ x.parser.nread <= MaxHeaderSize /\ MarksSet(x) \subseteq {"body"}
      /\ x.parser.contentLength = 0 /\ "chunked" \in x.parser.flags /\ x.inner = 0
  BY OnlyMark, GoingIs, NoInner, FieldsAre DEF MarkStates, IsGoing, IsParsing, ChunkStates
<1>3. IsChunked(x) /\ x.parser.contentLength = 0
  BY <1>2 DEF IsChunked
<1>4. Keeps(x, y, {})
  BY <1>2, <1>3, CheckDoes
<1> HIDE DEF y
<1>5. Keeps(y, u, {"state"}) /\ u.parser.state = "chunk_data_done"
  BY <1>4, UpdateStateDoes DEF Keeps
<1> HIDE DEF u
<1>6. Calls(u, v, "body")
  BY <1>5, CallbackDoes, FieldsAre DEF Keeps
<1> HIDE DEF v
<1>7. IsFree(v) /\ "chunked" \in v.parser.flags /\ v.parser.state = "chunk_data_done"
  BY <1>2, <1>4, <1>5, <1>6 DEF IsFree, Calls, Keeps, ParserFields
<1>8. IsResult(v)
  BY <1>7, ChunkHeadResult
<1>9. IsExec(y) /\ y.asserted
  BY <1>2, <1>4 DEF Keeps
<1> QED
  BY <1>1, <1>8, <1>9, ErrnoEnds

LEMMA ChunkDataDoneKeeps ==
  ASSUME NEW x, NEW n, NEW ch, IsGoing(x, n), x.parser.state = "chunk_data_done"
  PROVE  IsResult(ChunkDataDone(x, ch))
<1> DEFINE y == Check(x, IsChunked(x))
           z == [y EXCEPT !.parser.nread = 0]
           r == UpdateState(z, "chunk_size_start")
<1>1. ChunkDataDone(x, ch) = IF ch # "LF" THEN SetErrno(y, "STRICT") ELSE r
  BY DEF ChunkDataDone
<1>2. MarksSet(x) = {}
  BY NoMarks DEF UrlStates, UrlBegin, UrlEnd, Query, Fragment
<1>3. IsFree(y) /\ "chunked" \in y.parser.flags
  BY <1>2, ChunkCheck DEF ChunkStates
<1> HIDE DEF y
<1>4. Keeps(y, z, {"nread"}) /\ z.parser.nread = 0
  BY <1>3, NreadDoes DEF IsFree
<1> HIDE DEF z
<1>5. IsFree(z) /\ "chunked" \in z.parser.flags
  BY <1>3, <1>4, MaxHeaderSizeAssumption DEF IsFree, Keeps, ParserFields
<1>6. Keeps(z, r, {"state"}) /\ r.parser.state = "chunk_size_start"
  BY <1>5, UpdateStateDoes DEF IsFree
<1> HIDE DEF r
<1>7. IsFree(r)
  BY <1>5, <1>6, FreeKeeps
<1>8. "chunked" \in r.parser.flags /\ r.parser.nread = 0
  BY <1>4, <1>5, <1>6 DEF Keeps, ParserFields
<1>9. IsResult(r)
  BY <1>6, <1>7, <1>8, ChunkHeadResult
<1> QED
  BY <1>1, <1>3, <1>9, ErrnoEnds DEF IsFree

-----------------------------------------------------------------------------
(* A round of the loop.                                                    *)

LEMMA PlainSwitchKeeps ==
  ASSUME NEW x, NEW n, NEW ch, NEW last, IsGoing(x, n), MarksSet(x) = {},
         x.parser.state \in {"dead", "req_http_start", "req_first_http_major",
                             "req_first_http_minor"}
  PROVE  IsResult(Switch(x, ch, last))
<1> USE DEF UrlStates, UrlBegin, UrlEnd, Query, Fragment, Expected
<1>1. x.parser.state \in PlainStates
  BY PlainStatesAre
<1>2. CASE x.parser.state = "dead"
  <2>1. Switch(x, ch, last) \in {x, SetErrno(x, "CLOSED_CONNECTION")}
    BY <1>2 DEF Switch
  <2> QED
    BY <1>1, <2>1, StaysOrEnds
<1>3. CASE x.parser.state = "req_http_start"
  <2>1. Switch(x, ch, last) \in
          {x, UpdateState(x, "req_first_http_major"), SetErrno(x, "INVALID_CONSTANT")}
    BY <1>3 DEF Switch
  <2> QED
    BY <1>1, <2>1, StaysOrEnds, GoesTo, PlainStatesAre
<1>4. CASE x.parser.state = "req_first_http_major"
  <2>1. Switch(x, ch, last) = FirstDigit(x, "httpMajor", ch, 1, "req_http_major")
    BY <1>4 DEF Switch
  <2> QED
    BY <1>1, <2>1, FirstDigitKeeps, PlainStatesAre
<1>5. CASE x.parser.state = "req_first_http_minor"
  <2>1. Switch(x, ch, last) = FirstDigit(x, "httpMinor", ch, 0, "req_http_minor")
    BY <1>5 DEF Switch
  <2> QED
    BY <1>1, <2>1, FirstDigitKeeps, PlainStatesAre
<1> QED
  BY <1>2, <1>3, <1>4, <1>5

LEMMA SwitchKeeps ==
  ASSUME NEW x, NEW n, NEW ch, NEW last, IsGoing(x, n),
         x.parser.state = "chunk_size_start" => n = 1
  PROVE  IsResult(Switch(x, ch, last))
<1> DEFINE s == x.parser.state
           Going == {"dead", "req_http_start", "req_first_http_major",
                     "req_first_http_minor"}
           Version == {"req_http_major", "req_http_minor"}
           Lines == {"header_field_start", "header_value_discard_ws",
                     "header_value_discard_lws", "header_almost_done",
                     "header_value_lws", "headers_almost_done"}
<1> USE DEF UrlStates, UrlBegin, UrlEnd, Query, Fragment, Expected
<1>1. s \in States
  BY DEF IsGoing, IsParsing
<1>2. s \in Going \cup Version \cup Lines => MarksSet(x) = {} /\ IsFree(x)
  BY NoMarks, FreeIs
<1>3. CASE s \in Going
  BY <1>2, <1>3, PlainSwitchKeeps
<1>4. CASE s = "start_req"
  <2>1. Switch(x, ch, last) = StartReq(x, ch)
    BY <1>4 DEF Switch
  <2> QED
    BY <1>4, <2>1, StartReqKeeps
<1>5. CASE s = "req_method"
  <2>1. Switch(x, ch, last) = ReqMethod(x, ch)
    BY <1>5 DEF Switch
  <2> QED
    BY <1>5, <2>1, ReqMethodKeeps
<1>6. CASE s = "req_spaces_before_url"
  <2>1. Switch(x, ch, last) = SpacesBeforeUrl(x, ch)
    BY <1>6 DEF Switch
  <2> QED
    BY <1>6, <2>1, SpacesBeforeUrlKeeps
<1>7. CASE s \in UrlStates
  <2>1. Switch(x, ch, last) = Url(x, ch)
    BY <1>7 DEF Switch
  <2> QED
    BY <1>7, <2>1, UrlKeeps
<1>8. CASE s \in Version
  <2>1. Switch(x, ch, last) \in {HttpMajor(x, ch), HttpMinor(x, ch)}
    BY <1>8 DEF Switch
  <2> QED
    BY <1>2, <1>8, <2>1, VersionKeeps, PlainStatesAre
<1>9. CASE s \in DOMAIN Expected
  <2>1. Switch(x, ch, last) = Expect(x, ch)
    BY <1>9 DEF Switch
  <2> QED
    BY <1>9, <2>1, ExpectKeeps
<1>10. CASE s \in Lines
  <2>1. \/ Switch(x, ch, last) = HeaderFieldStart(x, ch)
        \/ s = "header_value_discard_ws" /\ Switch(x, ch, last) = DiscardWs(x, ch)
        \/ Switch(x, ch, last) = DiscardLws(x, ch)
        \/ Switch(x, ch, last) = HeaderAlmostDone(x, ch)
        \/ Switch(x, ch, last) = HeaderValueLws(x, ch)
        \/ Switch(x, ch, last) = HeadersAlmostDone(x, ch)
    BY <1>10 DEF Switch
  <2> QED
    BY <1>2, <1>10, <2>1, HeaderFieldStartKeeps, DiscardWsKeeps, DiscardLwsKeeps,
       HeaderAlmostDoneKeeps, HeaderValueLwsKeeps, HeadersAlmostDoneKeeps
<1>11. CASE s = "header_field"
  <2>1. Switch(x, ch, last) = HeaderField(x, ch, last)
    BY <1>11 DEF Switch
  <2> QED
    BY <1>11, <2>1, HeaderFieldKeeps
<1>12. CASE s = "header_value"
  <2>1. Switch(x, ch, last) = HeaderValue(x, ch, last)
    BY <1>12 DEF Switch
  <2> QED
    BY <1>12, <2>1, HeaderValueKeeps
<1>13. CASE s = "body_identity"
  <2>1. Switch(x, ch, last) = BodyIdentity(x, ch)
    BY <1>13 DEF Switch
  <2> QED
    BY <1>13, <2>1, BodyIdentityKeeps
<1>14. CASE s \in ChunkStates
  <2>1. CASE s = "chunk_size_start"
    <3>1. Switch(x, ch, last) = ChunkSizeStart(x, ch)
      BY <2>1 DEF Switch
    <3> QED
      BY <2>1, <3>1, ChunkSizeStartKeeps
  <2>2. CASE s = "chunk_size"
    <3>1. Switch(x, ch, last) = ChunkSize(x, ch)
      BY <2>2 DEF Switch
    <3> QED
      BY <2>2, <3>1, ChunkSizeKeeps
  <2>3. CASE s = "chunk_parameters"
    <3>1. Switch(x, ch, last) = ChunkParameters(x, ch)
      BY <2>3 DEF Switch
    <3> QED
      BY <2>3, <3>1, ChunkParametersKeeps
  <2>4. CASE s = "chunk_size_almost_done"
    <3>1. Switch(x, ch, last) = ChunkSizeAlmostDone(x, ch)
      BY <2>4 DEF Switch
    <3> QED
      BY <2>4, <3>1, ChunkSizeAlmostDoneKeeps
  <2>5. CASE s = "chunk_data"
    <3>1. Switch(x, ch, last) = ChunkData(x, ch)
      BY <2>5 DEF Switch
    <3> QED
      BY <2>5, <3>1, ChunkDataKeeps
  <2>6. CASE s = "chunk_data_almost_done"
    <3>1. Switch(x, ch, last) = ChunkDataAlmostDone(x, ch)
      BY <2>6 DEF Switch
    <3> QED
      BY <2>6, <3>1, ChunkDataAlmostDoneKeeps
  <2>7. CASE s = "chunk_data_done"
    <3>1. Switch(x, ch, last) = ChunkDataDone(x, ch)
      BY <2>7 DEF Switch
    <3> QED
      BY <2>7, <3>1, ChunkDataDoneKeeps
  <2> QED
    BY <1>14, <2>1, <2>2, <2>3, <2>4, <2>5, <2>6, <2>7 DEF ChunkStates
<1> QED
  BY <1>1, <1>3, <1>4, <1>5, <1>6, <1>7, <1>8, <1>9, <1>10, <1>11, <1>12, <1>13,
     <1>14 DEF States

\* A step of p changes nothing that matters.
LEMMA ResultKeeps ==
  ASSUME NEW x, NEW y, IsResult(x), Keeps(x, y, {})
  PROVE  IsResult(y)
<1>1. \A f \in ParserFields : y.parser[f] = x.parser[f]
  BY DEF Keeps
<1>2. IsExec(y) /\ y.asserted /\ y.ended = x.ended /\ MarksSet(y) = MarksSet(x)
  BY DEF Keeps, IsResult
<1>3. IsParsing(x.parser, 0) => IsParsing(y.parser, 0)
  BY <1>1 DEF IsParsing, ParserFields
<1>4. AreMarks(x) => AreMarks(y)
  <2>1. y.inner = x.inner
    BY DEF Keeps
  <2> QED
    BY <1>1, <1>2, <2>1 DEF AreMarks, InnerFits, ParserFields
<1> QED
  BY <1>1, <1>2, <1>3, <1>4 DEF IsResult, ParserFields

\* A unit of the head is counted.
LEMMA CountedIsGoing ==
  ASSUME NEW x, IsGoing(x, 0)
  PROVE  LET y == CountHeaderSize(x, 1)
         IN  (y.ended /\ IsResult(y)) \/ IsGoing(y, 1)
<1> DEFINE y == CountHeaderSize(x, 1)
<1>1. \/ y.ended /\ IsResult(y)
      \/ /\ Keeps(x, y, {"nread"}) /\ y.parser.nread = x.parser.nread + 1
         /\ y.parser.nread <= MaxHeaderSize
  BY CountDoes, GoingIs
<1> HIDE DEF y
<1>2. ASSUME Keeps(x, y, {"nread"}), y.parser.nread = x.parser.nread + 1,
             y.parser.nread <= MaxHeaderSize
      PROVE  IsGoing(y, 1)
  <2>1. \A f \in ParserFields \ {"nread"} : y.parser[f] = x.parser[f]
    BY <1>2 DEF Keeps
  <2>2. /\ IsExec(y) /\ y.asserted /\ ~y.ended /\ MarksSet(y) = MarksSet(x)
        /\ y.inner = x.inner
    BY <1>2, GoingIs DEF Keeps
  <2>3. IsParsing(y.parser, 1)
    BY <1>2, <2>1 DEF IsGoing, IsParsing, ParserFields
  <2>4. AreMarks(y)
    BY <2>1, <2>2 DEF IsGoing, AreMarks, InnerFits, ParserFields
  <2> QED
    BY <2>2, <2>3, <2>4 DEF IsGoing
<1> QED
  BY <1>1, <1>2 DEF y

LEMMA RoundKeeps ==
  ASSUME NEW x, NEW ch, NEW last, IsResult(x)
  PROVE  IsResult(Round(x, ch, last))
<1> DEFINE counted == CountHeaderSize(x, 1)
           counts == ParsingHeader(x.parser.state) /\ x.inner = 0
           y == IF counts THEN counted ELSE x
           z == Switch(y, ch, last)
<1>1. Round(x, ch, last) = IF x.ended THEN x ELSE IF y.ended THEN y ELSE Advance(z, ch)
  BY DEF Round
<1>2. CASE x.ended
  BY <1>1, <1>2
<1>3. CASE ~x.ended
  <2>1. IsGoing(x, 0)
    BY <1>3 DEF IsResult, IsGoing
  <2>2. ASSUME IsResult(z)
        PROVE  IsResult(Advance(z, ch))
    <3> HIDE DEF z
    <3>1. Keeps(z, Advance(z, ch), {})
      BY <2>2, AdvanceDoes DEF IsResult
    <3> QED
      BY <2>2, <3>1, ResultKeeps
  <2>3. CASE counts
    <3>1. y = counted
      BY <2>3
    <3>2. \/ counted.ended /\ IsResult(counted)
          \/ IsGoing(counted, 1)
      BY <2>1, CountedIsGoing
    <3> HIDE DEF counted
    <3>4. CASE counted.ended /\ IsResult(counted)
      BY <1>1, <1>3, <3>1, <3>4
    <3>5. CASE IsGoing(counted, 1)
      <4>1. IsResult(z)
        BY <3>1, <3>5, SwitchKeeps
      <4>2. ~y.ended
        BY <3>1, <3>5, GoingIs
      <4> HIDE DEF y, z
      <4> QED
        BY <1>1, <1>3, <2>2, <4>1, <4>2 DEF z
    <3> QED
      BY <3>2, <3>4, <3>5
  <2>4. CASE ~counts
    <3>1. y = x
      BY <2>4
    <3>2. x.parser.state # "chunk_size_start"
      BY <2>1, <2>4, NoInner DEF ParsingHeader, BodyStates
    <3>3. IsResult(z)
      BY <2>1, <3>1, <3>2, SwitchKeeps
    <3>4. ~y.ended
      BY <1>3, <3>1
    <3> HIDE DEF y, z
    <3> QED
      BY <1>1, <1>3, <2>2, <3>3, <3>4 DEF z
  <2> QED
    BY <2>3, <2>4
<1> QED
  BY <1>1, <1>2, <1>3 DEF IsResult, IsExec

-----------------------------------------------------------------------------
(* The call.                                                               *)

LEMMA BeginKeeps ==
  ASSUME NEW x, IsExec(x), x.asserted,
         x.parser.errno = "OK" => IsParsing(x.parser, 0)
  PROVE  IsResult(Begin(x))
<1> DEFINE marks == MarksAtStart(x.parser.state)
           y == Begin(x)
<1>1. /\ DOMAIN marks = DOMAIN MarkStates
      /\ \A name \in DOMAIN MarkStates :
           /\ DOMAIN marks[name] = {"set", "text"} /\ marks[name].set \in BOOLEAN
           /\ marks[name].set <=>
                \/ name = x.parser.state
                \/ name = "url" /\ x.parser.state \in UrlStates
  BY FieldsAre DEF MarksAtStart, Marked, Unset
<1>2. y = [x EXCEPT !.marks = marks, !.inner = 0, !.skips = FALSE,
                    !.ended = x.parser.errno # "OK"]
  BY DEF Begin
<1> HIDE DEF marks, y
<1>3. /\ y.parser = x.parser /\ y.request = x.request /\ y.asserted = x.asserted
      /\ y.marks = marks /\ DOMAIN y = DOMAIN x /\ y.inner = 0
      /\ y.skips \in BOOLEAN /\ ~y.skips
      /\ y.ended <=> x.parser.errno # "OK"
      /\ y.ended \in BOOLEAN
  BY <1>2 DEF IsExec
<1>4. IsExec(y)
  <2>1. /\ DOMAIN y.marks = DOMAIN MarkStates
        /\ \A name \in DOMAIN y.marks :
             DOMAIN y.marks[name] = {"set", "text"} /\ y.marks[name].set \in BOOLEAN
    BY <1>1, <1>3
  <2>2. y.inner \in Nat
    BY <1>3
  <2> QED
    BY <1>3, <2>1, <2>2 DEF IsExec
<1>5. ASSUME x.parser.errno = "OK"
      PROVE  AreMarks(y)
  <2>1. x.parser.state \in States
    BY <1>5 DEF IsParsing
  <2>2. x.parser.state \notin {"url", "body"}
    BY <2>1 DEF States, ChunkStates, UrlStates, UrlBegin, UrlEnd, Query, Fragment
  <2> QED
    BY <1>1, <1>3, <2>2, FieldsAre DEF AreMarks, InnerFits, MarksSet, MarkStates
<1> QED
  BY <1>3, <1>4, <1>5 DEF IsResult, y

LEMMA CallbackResult ==
  ASSUME NEW x, NEW name \in DOMAIN MarkStates, IsExec(x)
  PROVE  LET y == CallbackData(x, name)
         IN  IsExec(y) /\ y.parser = x.parser /\ (x.asserted => y.asserted)
BY CallbackDoes DEF Calls

\* At most one string is left, and is given to its callback.
LEMMA LeftoverKeeps ==
  ASSUME NEW x, IsGoing(x, 0)
  PROVE  LET y == Leftover(x) IN IsExec(y) /\ y.asserted /\ y.parser = x.parser
<1>1. Cardinality(MarksSet(x)) <= 1
  <2>1. CASE MarksSet(x) = {}
    BY <2>1, FS_EmptySet
  <2>2. CASE MarksSet(x) # {}
    <3>1. PICK name : name \in MarksSet(x)
      BY <2>2
    <3>2. name \in DOMAIN MarkStates /\ x.parser.state \in MarkStates[name]
      BY <3>1, GoingIs DEF AreMarks, MarksSet, IsExec
    <3>3. MarksSet(x) = {name}
      BY <3>1, <3>2, OnlyMark
    <3>4. Cardinality({name}) = 1
      BY FS_Singleton
    <3> QED
      BY <3>3, <3>4
  <2> QED
    BY <2>1, <2>2
<1> DEFINE a == Check(x, Cardinality(MarksSet(x)) <= 1)
           b == CallbackData(a, "header_field")
           c == CallbackData(b, "header_value")
           d == CallbackData(c, "url")
           e == CallbackData(d, "body")
<1>2. Leftover(x) = e
  BY DEF Leftover
<1>3. IsExec(a) /\ a.asserted /\ a.parser = x.parser
  BY <1>1, GoingIs, CheckDoes DEF Keeps
<1> HIDE DEF a
<1>4. IsExec(b) /\ b.asserted /\ b.parser = x.parser
  BY <1>3, CallbackResult, FieldsAre
<1> HIDE DEF b
<1>5. IsExec(c) /\ c.asserted /\ c.parser = x.parser
  BY <1>4, CallbackResult, FieldsAre
<1> HIDE DEF c
<1>6. IsExec(d) /\ d.asserted /\ d.parser = x.parser
  BY <1>5, CallbackResult, FieldsAre
<1> HIDE DEF d
<1>7. IsExec(e) /\ e.asserted /\ e.parser = x.parser
  BY <1>6, CallbackResult, FieldsAre
<1> HIDE DEF e
<1> QED
  BY <1>2, <1>7

LEMMA EndOfDataKeeps ==
  ASSUME NEW x, IsResult(x)
  PROVE  LET y == EndOfData(x)
         IN  /\ IsExec(y) /\ y.asserted
             /\ y.parser.errno = "OK" => IsParsing(y.parser, 0)
<1>1. CASE x.ended
  BY <1>1 DEF EndOfData, IsResult
<1>2. CASE ~x.ended
  <2>1. IsGoing(x, 0)
    BY <1>2 DEF IsGoing, IsResult
  <2>2. EndOfData(x) = Leftover(x)
    BY <1>2 DEF EndOfData
  <2> QED
    BY <2>1, <2>2, LeftoverKeeps DEF IsGoing
<1> QED
  BY <1>1, <1>2 DEF IsResult, IsExec

-----------------------------------------------------------------------------
(* The exchange.                                                           *)

\* Between two calls of execute().
IsWaiting(x) ==
  /\ IsExec(x) /\ x.asserted /\ ~x.ended
  /\ x.parser.errno = "OK" => IsParsing(x.parser, 0)

LEMMA ParserInvIs ==
  ParserInv <=> IF pc = "execute" THEN IsResult(exec) ELSE IsWaiting(exec)
<1>1. CASE pc = "execute"
  BY <1>1 DEF ParserInv, IsResult, AssertsHold
<1>2. CASE pc # "execute"
  BY <1>2 DEF ParserInv, IsWaiting, AssertsHold
<1> QED
  BY <1>1, <1>2

LEMMA InitHolds == Init => ParserInv
<1> SUFFICES ASSUME Init PROVE ParserInv
  OBVIOUS
<1>1. /\ exec.parser = NewParser /\ exec.request = NewRequest
      /\ exec.marks = MarksAtStart("start_req") /\ ~exec.ended /\ exec.asserted
      /\ exec.ended \in BOOLEAN
      /\ DOMAIN exec = {"parser", "request", "marks", "inner", "skips", "heard", "ended",
                        "asserted"}
      /\ exec.inner = 0 /\ exec.skips \in BOOLEAN
      /\ pc = "idle"
  BY DEF Init
<1>2. /\ NewParser.nread = 0 /\ NewParser.contentLength = 0
      /\ NewParser.upgrade \in BOOLEAN /\ NewParser.errno = "OK"
      /\ NewParser.state = "start_req"
      /\ NewRequest.completed \in BOOLEAN /\ NewRequest.isUpgrade \in BOOLEAN
  BY DEF NewParser, NewRequest
<1>3. /\ DOMAIN MarksAtStart("start_req") = DOMAIN MarkStates
      /\ \A name \in DOMAIN MarkStates :
           /\ DOMAIN MarksAtStart("start_req")[name] = {"set", "text"}
           /\ MarksAtStart("start_req")[name].set \in BOOLEAN
  BY FieldsAre DEF MarksAtStart, Marked, Unset
<1>4. IsExec(exec)
  <2>1. /\ DOMAIN exec.parser = DOMAIN NewParser
        /\ exec.parser.nread \in Nat
        /\ exec.parser.contentLength \in 0..UllongMax
        /\ exec.parser.upgrade \in BOOLEAN
    BY <1>1, <1>2, Digits
  <2>2. /\ DOMAIN exec.request = DOMAIN NewRequest
        /\ exec.request.completed \in BOOLEAN /\ exec.request.isUpgrade \in BOOLEAN
    BY <1>1, <1>2
  <2>3. /\ DOMAIN exec.marks = DOMAIN MarkStates
        /\ \A name \in DOMAIN exec.marks :
             /\ DOMAIN exec.marks[name] = {"set", "text"}
             /\ exec.marks[name].set \in BOOLEAN
    BY <1>1, <1>3
  <2> QED
    BY <1>1, <2>1, <2>2, <2>3 DEF IsExec
<1>5. IsParsing(NewParser, 0)
  BY <1>2, MaxHeaderSizeAssumption
     DEF IsParsing, States, ChunkStates
<1> QED
  BY <1>1, <1>4, <1>5, ParserInvIs DEF IsWaiting

LEMMA StartHolds == ParserInv /\ Start => ParserInv'
<1> SUFFICES ASSUME ParserInv, Start PROVE ParserInv'
  OBVIOUS
<1> DEFINE r == Clear(exec.request)
           u == [exec EXCEPT !.parser = NewParser]
           v == [u EXCEPT !.request = r]
           y == [v EXCEPT !.heard = << >>]
<1>1. pc # "execute" /\ exec' = y /\ pc' = "recv"
  BY DEF Start, Idle
<1>2. IsWaiting(exec)
  BY <1>1, ParserInvIs
<1>3. IsRequestObject(r)
  BY <1>2, FieldsAre DEF Clear, IsRequestObject, IsWaiting, IsExec
<1> HIDE DEF r
<1>4. /\ NewParser.nread = 0 /\ NewParser.contentLength \in 0..UllongMax
      /\ NewParser.upgrade \in BOOLEAN /\ NewParser.errno = "OK"
      /\ NewParser.state = "start_req"
  BY Digits DEF NewParser
<1>5. /\ u.parser = NewParser /\ u.request = exec.request /\ u.marks = exec.marks
      /\ u.ended = exec.ended /\ u.asserted = exec.asserted /\ DOMAIN u = DOMAIN exec
      /\ u.inner = exec.inner /\ u.skips = exec.skips
  BY <1>2 DEF IsWaiting, IsExec
<1>6. IsExec(u)
  BY <1>2, <1>4, <1>5 DEF IsWaiting, IsExec
<1> HIDE DEF u
<1>7. Keeps(u, v, {})
  BY <1>3, <1>6, RequestDoes
<1>8. v.parser = NewParser
  BY <1>5, <1>6 DEF IsExec
<1> HIDE DEF v
<1>9. Keeps(v, y, {}) /\ y.parser = NewParser
  <2>1. IsExec(v)
    BY <1>7 DEF Keeps
  <2>2. Keeps(v, y, {})
    BY <2>1, HeardDoes
  <2> QED
    BY <1>8, <2>1, <2>2 DEF IsExec
<1> HIDE DEF y
<1>10. IsParsing(NewParser, 0)
  BY <1>4, MaxHeaderSizeAssumption DEF IsParsing, States, ChunkStates
<1>11. IsExec(y) /\ y.asserted /\ ~y.ended
  BY <1>2, <1>5, <1>7, <1>9 DEF Keeps, IsWaiting
<1>12. IsWaiting(y)
  BY <1>9, <1>10, <1>11 DEF IsWaiting
<1>13. IsWaiting(exec')
  BY <1>1, <1>12
<1> QED
  BY <1>1, <1>13 DEF ParserInv, IsWaiting, AssertsHold

LEMMA ReceiveHolds == ParserInv /\ Receive => ParserInv'
<1> SUFFICES ASSUME ParserInv, Receive PROVE ParserInv'
  OBVIOUS
<1>1. pc # "execute" /\ exec' = Begin(exec) /\ pc' = "execute"
  BY DEF Receive
<1>2. IsResult(exec')
  BY <1>1, ParserInvIs, BeginKeeps DEF IsWaiting
<1> QED
  BY <1>1, <1>2 DEF ParserInv, IsResult, AssertsHold

LEMMA ParseHolds == ParserInv /\ Parse => ParserInv'
<1> SUFFICES ASSUME ParserInv, Parse PROVE ParserInv'
  OBVIOUS
<1>1. pc = "execute" /\ exec' = Round(exec, stream[got + 1], FALSE) /\ pc' = "execute"
  BY DEF Parse
<1>2. IsResult(exec')
  BY <1>1, ParserInvIs, RoundKeeps
<1> QED
  BY <1>1, <1>2 DEF ParserInv, IsResult, AssertsHold

LEMMA ParseLastHolds == ParserInv /\ ParseLast => ParserInv'
<1> SUFFICES ASSUME ParserInv, ParseLast PROVE ParserInv'
  OBVIOUS
<1> DEFINE x == EndOfData(Round(exec, stream[got + 1], TRUE))
           y == [x EXCEPT !.marks = MarksAtStart("start_req"), !.inner = 0,
                          !.skips = FALSE, !.ended = FALSE]
<1>1. pc = "execute" /\ exec' = y /\ pc' = Branch(x.request)
  BY DEF ParseLast
<1>2. IsResult(Round(exec, stream[got + 1], TRUE))
  BY <1>1, ParserInvIs, RoundKeeps
<1>3. IsExec(x) /\ x.asserted /\ (x.parser.errno = "OK" => IsParsing(x.parser, 0))
  BY <1>2, EndOfDataKeeps
<1> HIDE DEF x
<1>4. /\ DOMAIN MarksAtStart("start_req") = DOMAIN MarkStates
      /\ \A name \in DOMAIN MarkStates :
           /\ DOMAIN MarksAtStart("start_req")[name] = {"set", "text"}
           /\ MarksAtStart("start_req")[name].set \in BOOLEAN
  BY FieldsAre DEF MarksAtStart, Marked, Unset
<1>5. /\ DOMAIN y = DOMAIN x /\ y.parser = x.parser /\ y.request = x.request
      /\ y.marks = MarksAtStart("start_req") /\ y.asserted = x.asserted
      /\ ~y.ended /\ y.ended \in BOOLEAN /\ y.inner = 0
      /\ y.skips \in BOOLEAN /\ ~y.skips
  BY <1>3 DEF IsExec
<1> HIDE DEF y
<1>6. IsExec(y)
  <2>1. /\ DOMAIN y.marks = DOMAIN MarkStates
        /\ \A name \in DOMAIN y.marks :
             DOMAIN y.marks[name] = {"set", "text"} /\ y.marks[name].set \in BOOLEAN
    BY <1>4, <1>5
  <2>2. y.inner \in Nat
    BY <1>5
  <2> QED
    BY <1>3, <1>5, <2>1, <2>2 DEF IsExec
<1>7. IsWaiting(y)
  BY <1>3, <1>5, <1>6 DEF IsWaiting
<1>8. pc' # "execute"
  BY <1>1 DEF Branch
<1>9. IsWaiting(exec')
  BY <1>1, <1>7
<1> QED
  BY <1>8, <1>9 DEF ParserInv, IsWaiting, AssertsHold

LEMMA HandleHolds == ParserInv /\ Handle => ParserInv'
<1> SUFFICES ASSUME ParserInv, Handle PROVE ParserInv'
  OBVIOUS
<1> DEFINE p == Finish(exec.parser)
           r == LookUpConnection(exec.request)
           y == [exec EXCEPT !.parser = p, !.request = r]
<1>1. pc # "execute" /\ exec' = y /\ pc' # "execute"
  BY DEF Handle
<1>2. IsWaiting(exec)
  BY <1>1, ParserInvIs
<1>3. IsRequestObject(r)
  BY <1>2, FieldsAre DEF LookUpConnection, IsRequestObject, IsWaiting, IsExec
<1>4. \/ p = exec.parser
      \/ p = [exec.parser EXCEPT !.errno = "INVALID_EOF_STATE"]
  BY DEF Finish
<1>5. /\ DOMAIN p = DOMAIN NewParser /\ p.nread \in Nat
      /\ p.contentLength \in 0..UllongMax /\ p.upgrade \in BOOLEAN
      /\ p.errno = "OK" => IsParsing(p, 0)
  BY <1>2, <1>4, FieldsAre DEF IsWaiting, IsExec, ParserFields
<1> HIDE DEF p, r
<1>6. /\ DOMAIN y = DOMAIN exec /\ y.parser = p /\ y.request = r
      /\ y.marks = exec.marks /\ y.asserted = exec.asserted /\ y.ended = exec.ended
      /\ y.inner = exec.inner /\ y.skips = exec.skips
  BY <1>2 DEF IsWaiting, IsExec
<1> HIDE DEF y
<1>7. IsExec(y)
  BY <1>2, <1>3, <1>5, <1>6 DEF IsWaiting, IsExec, IsRequestObject
<1>8. IsWaiting(y)
  BY <1>2, <1>5, <1>6, <1>7 DEF IsWaiting
<1>9. IsWaiting(exec')
  BY <1>1, <1>8
<1> QED
  BY <1>1, <1>9 DEF ParserInv, IsWaiting, AssertsHold

\* The steps that leave the parser and the request alone.
LEMMA OthersHold ==
  ParserInv /\ (UpgradeAccepted \/ UpgradeRefused \/ ClientCloses \/ UNCHANGED vars)
    => ParserInv'
<1> SUFFICES ASSUME ParserInv,
                    UpgradeAccepted \/ UpgradeRefused \/ ClientCloses \/ UNCHANGED vars
             PROVE  ParserInv'
  OBVIOUS
<1>1. exec' = exec /\ (pc = "execute" <=> pc' = "execute")
  BY DEF UpgradeAccepted, UpgradeRefused, ClientCloses, vars
<1> QED
  BY <1>1 DEF ParserInv, AssertsHold

\* Between two calls of http_parser_execute() and between two units of the
\* data the parser is in a state of its own: lengths are known where they are
\* counted down, the flags agree with the state, the head is within its limit
\* and only the string of the state is under way.
THEOREM ParserInvariance == Spec => []ParserInv
<1>1. ParserInv /\ [Next]_vars => ParserInv'
  BY StartHolds, ReceiveHolds, ParseHolds, ParseLastHolds, HandleHolds, OthersHold
     DEF Next
<1> QED
  BY <1>1, InitHolds, PTL DEF Spec

\* The assert()s of http_parser_execute() hold, whatever the clients send and
\* wherever recv() ends.
THEOREM AssertsAlwaysHold == Spec => []AssertsHold
<1>1. ParserInv => AssertsHold
  BY DEF ParserInv
<1> QED
  BY <1>1, ParserInvariance, PTL

\* COUNT_HEADER_SIZE(): a parser without an error has not counted more than
\* HTTP_MAX_HEADER_SIZE units of a head.
HeadWithinLimit == exec.parser.errno = "OK" => exec.parser.nread <= MaxHeaderSize

\* No head is longer than the limit unless the parser has refused it.
THEOREM HeadIsLimited == Spec => []HeadWithinLimit
<1>1. ParserInv => HeadWithinLimit
  BY DEF ParserInv, HeadWithinLimit, IsParsing
<1> QED
  BY <1>1, ParserInvariance, PTL

-----------------------------------------------------------------------------
(* After an error.                                                         *)

LEMMA ErrorStays ==
  ParserInv /\ exec.parser.errno # "OK" /\ ~Idle /\ [Next]_vars =>
    exec'.parser.errno = exec.parser.errno /\ exec'.heard = exec.heard
<1> SUFFICES ASSUME ParserInv, exec.parser.errno # "OK", ~Idle, [Next]_vars
             PROVE  exec'.parser.errno = exec.parser.errno /\ exec'.heard = exec.heard
  OBVIOUS
<1>1. IsExec(exec)
  BY DEF ParserInv
<1>2. pc = "execute" => exec.ended
  BY DEF ParserInv
<1>3. CASE Receive
  BY <1>1, <1>3 DEF Receive, Begin, IsExec
<1>4. CASE Parse
  BY <1>2, <1>4 DEF Parse, Round
<1>5. CASE ParseLast
  <2> DEFINE x == EndOfData(Round(exec, stream[got + 1], TRUE))
  <2>1. x = exec
    BY <1>2, <1>5 DEF ParseLast, Round, EndOfData
  <2>2. exec' = [x EXCEPT !.marks = MarksAtStart("start_req"), !.inner = 0,
                          !.skips = FALSE, !.ended = FALSE]
    BY <1>5 DEF ParseLast
  <2> HIDE DEF x
  <2> QED
    BY <1>1, <2>1, <2>2 DEF IsExec
<1>6. CASE Handle
  <2> DEFINE r == LookUpConnection(exec.request)
  <2>1. Finish(exec.parser) = exec.parser
    BY DEF Finish
  <2>2. exec' = [exec EXCEPT !.parser = Finish(exec.parser), !.request = r]
    BY <1>6 DEF Handle
  <2> HIDE DEF r
  <2> QED
    BY <1>1, <2>1, <2>2 DEF IsExec
<1>7. CASE UpgradeAccepted \/ UpgradeRefused \/ ClientCloses \/ UNCHANGED vars
  BY <1>7 DEF UpgradeAccepted, UpgradeRefused, ClientCloses, vars
<1>8. ~Start
  BY DEF Start
<1> QED
  BY <1>3, <1>4, <1>5, <1>6, <1>7, <1>8 DEF Next

\* A parser that has found an error keeps it, and calls no callback, until
\* the next connection.
THEOREM ErrorsAreFinal == Spec => ErrorIsFinal
<1>1. ParserInv /\ [Next]_vars =>
        [exec.parser.errno # "OK" /\ ~ Idle =>
           exec'.parser.errno = exec.parser.errno /\ exec'.heard = exec.heard]_vars
  BY ErrorStays
<1> QED
  BY <1>1, ParserInvariance, PTL DEF Spec, ErrorIsFinal

-----------------------------------------------------------------------------
(* What goes over the wire.                                                *)

LEMMA TextIs ==
  ASSUME NEW S, NEW s \in Seq(S) PROVE IsText(s) /\ Len(s) \in Nat
<1>1. Len(s) \in Nat /\ DOMAIN s = 1..Len(s)
  OBVIOUS
<1>2. s = [i \in 1..Len(s) |-> s[i]] /\ \A i \in 1..Len(s) : s[i] \in ToSet(s)
  BY <1>1 DEF ToSet
<1>3. s \in Seq(ToSet(s))
  BY <1>1, <1>2
<1> QED
  BY <1>1, <1>3 DEF IsText

\* Any list of units is one.
LEMMA ListIsText ==
  ASSUME NEW n \in Nat, NEW s, s = [i \in 1..n |-> s[i]] PROVE IsText(s)
<1> DEFINE S == {s[i] : i \in 1..n}
<1>1. s \in Seq(S)
  OBVIOUS
<1> HIDE DEF S
<1> QED
  BY <1>1, TextIs, Zenon

LEMMA PairIsText ==
  ASSUME NEW a, NEW b PROVE IsText(<<a, b>>) /\ IsText(<<a>>) /\ IsText(<< >>)
<1> DEFINE S == {a, b}
<1>1. <<a, b>> \in Seq(S) /\ <<a>> \in Seq(S) /\ << >> \in Seq(S)
  OBVIOUS
<1> HIDE DEF S
<1> QED
  BY <1>1, TextIs, Zenon

LEMMA TextsJoin ==
  ASSUME NEW s, NEW t, IsText(s), IsText(t) PROVE IsText(s \o t)
<1> DEFINE S == ToSet(s) \cup ToSet(t)
<1>1. s \in Seq(S) /\ t \in Seq(S)
  BY DEF IsText
<1>2. s \o t \in Seq(S)
  <2> HIDE DEF S
  <2> QED
    BY <1>1, ConcatExtends
<1> QED
  BY <1>2, TextIs, Zenon

LEMMA TextsFlatten ==
  ASSUME NEW n \in Nat, NEW seqs, seqs = [i \in 1..n |-> seqs[i]],
         \A i \in 1..n : IsText(seqs[i])
  PROVE  IsText(FlattenSeq(seqs))
<1> DEFINE S == UNION {ToSet(seqs[i]) : i \in 1..n}
<1>1. ASSUME NEW i \in 1..n PROVE seqs[i] \in Seq(S)
  <2>1. ToSet(seqs[i]) \subseteq S
    OBVIOUS
  <2>2. seqs[i] \in Seq(ToSet(seqs[i]))
    BY DEF IsText
  <2> HIDE DEF S
  <2> QED
    BY <2>1, <2>2
<1>2. FlattenSeq(seqs) \in Seq(S)
  <2> HIDE DEF S
  <2>1. seqs \in Seq(Seq(S))
    BY <1>1
  <2> QED
    BY <2>1, Flattened
<1> QED
  BY <1>2, TextIs, Zenon

LEMMA PartsAreText ==
  ASSUME NEW value, NEW separator, IsText(value), IsText(separator),
         \A j \in DOMAIN value : IsText(value[j])
  PROVE  IsText(Parts(value, separator))
<1> DEFINE With(i) == IF i = 1 THEN value[i] ELSE separator \o value[i]
           seqs == [i \in DOMAIN value |-> With(i)]
           n == Len(value)
<1>1. n \in Nat /\ DOMAIN value = 1..n
  BY DEF IsText
<1>2. ASSUME NEW i \in 1..n PROVE IsText(With(i))
  BY <1>1, TextsJoin
<1> HIDE DEF With
<1>3. seqs = [i \in 1..n |-> seqs[i]] /\ \A i \in 1..n : IsText(seqs[i])
  BY <1>1, <1>2
<1> HIDE DEF n, seqs
<1>4. IsText(FlattenSeq(seqs))
  BY <1>1, <1>3, TextsFlatten
<1> QED
  BY <1>4 DEF Parts, seqs, With

\* Every request is a text of its own on the wire, and so are several.
LEMMA RequestIsText ==
  ASSUME NEW r \in Requests \cup Alone PROVE IsText(Encode(r))
<1>1. /\ r.blank \in Nat /\ Len(r.method) \in Nat
      /\ IsText(r.url) /\ IsText(r.version) /\ IsText(r.eol) /\ IsText(r.wire)
      /\ IsText(r.headers)
      /\ \A i \in DOMAIN r.headers :
           /\ IsText(r.headers[i].name) /\ IsText(r.headers[i].value)
           /\ \A j \in DOMAIN r.headers[i].value : IsText(r.headers[i].value[j])
  BY RequestsAssumption
<1>2. /\ IsText(<<"SP">>) /\ IsText(<<":", "SP">>) /\ IsText(<<"SP", "HTTP/">>)
      /\ IsText(<< >>)
  BY PairIsText, Zenon
<1>3. IsText([i \in 1..r.blank |-> "LF"])
  <2> DEFINE lf == "LF"
             s == [i \in 1..r.blank |-> lf]
  <2> HIDE DEF lf
  <2>1. s = [i \in 1..r.blank |-> s[i]]
    OBVIOUS
  <2> HIDE DEF s
  <2>2. IsText(s)
    BY <1>1, <2>1, ListIsText
  <2> QED
    BY <2>2, Zenon DEF s, lf
<1>4. IsText(Letters(r.method))
  <2> DEFINE n == Len(r.method)
             s == [i \in 1..n |-> LetterAt(r.method, i - 1)]
  <2> HIDE DEF n
  <2>1. s = [i \in 1..n |-> s[i]]
    OBVIOUS
  <2> HIDE DEF s
  <2>2. n \in Nat
    BY <1>1 DEF n
  <2>3. IsText(s)
    BY <2>1, <2>2, ListIsText
  <2> QED
    BY <2>3, Zenon DEF s, n, Letters
<1>5. IsText(RequestLine(r))
  BY <1>1, <1>2, <1>4, TextsJoin, Zenon DEF RequestLine
<1> DEFINE Lines(i) == Line(r.headers[i], r.eol)
           n == Len(r.headers)
           lines == [i \in DOMAIN r.headers |-> Lines(i)]
<1>6. n \in Nat /\ DOMAIN r.headers = 1..n
  BY <1>1 DEF IsText
<1>7. ASSUME NEW i \in 1..n PROVE IsText(Lines(i))
  <2>1. IsText(r.eol \o <<"SP">>)
    BY <1>1, <1>2, TextsJoin, Zenon
  <2>2. IsText(Parts(r.headers[i].value, r.eol \o <<"SP">>))
    BY <1>1, <1>6, <2>1, PartsAreText, Zenon
  <2> QED
    BY <1>1, <1>2, <1>6, <2>2, TextsJoin, Zenon DEF Line
<1> HIDE DEF Lines
<1>8. lines = [i \in 1..n |-> lines[i]] /\ \A i \in 1..n : IsText(lines[i])
  BY <1>6, <1>7
<1> HIDE DEF n, lines
<1>9. IsText(FlattenSeq(lines))
  BY <1>6, <1>8, TextsFlatten
<1>10. IsText(FlattenSeq([i \in DOMAIN r.headers |-> Line(r.headers[i], r.eol)]))
  BY <1>9 DEF lines, Lines
<1> QED
  BY <1>1, <1>3, <1>5, <1>10, TextsJoin, Zenon DEF Encode

LEMMA WireIsText ==
  ASSUME NEW n \in Nat, NEW requests \in [1..n -> Requests \cup Alone]
  PROVE  IsText(WireOf(requests)) /\ Len(WireOf(requests)) \in Nat
<1> DEFINE seqs == [i \in DOMAIN requests |-> Encode(requests[i])]
<1>1. /\ seqs = [i \in 1..n |-> seqs[i]]
      /\ \A i \in 1..n : IsText(seqs[i])
  BY RequestIsText
<1> HIDE DEF seqs
<1>2. IsText(FlattenSeq(seqs))
  BY <1>1, TextsFlatten
<1>3. IsText(WireOf(requests))
  BY <1>2 DEF WireOf, seqs
<1> QED
  BY <1>3, TextIs DEF IsText

-----------------------------------------------------------------------------
(* The types, with what the receive loop relies on: execute() has data.    *)

ReceiveInv ==
  /\ pc \in {"idle", "recv", "execute", "handler", "upgrade", "websocket"}
  /\ budget \in 0..MaxRequests
  /\ Len(sent) \in Nat /\ aligned \in -1..Len(sent)
  /\ Len(stream) \in Nat /\ got \in 0..Len(stream)
  /\ pc = "execute" => got < Len(stream)

LEMMA ReceiveInvHolds == ReceiveInv /\ [Next]_vars => ReceiveInv'
<1> SUFFICES ASSUME ReceiveInv, [Next]_vars PROVE ReceiveInv'
  OBVIOUS
<1> USE DEF ReceiveInv
<1>1. CASE Start
  <2>1. PICK n \in Nat : /\ sent' \in [1..n -> Requests \cup Alone]
                         /\ budget' \in 0..MaxRequests
    <3>1. CASE \E n \in 1..budget :
                 sent' \in [1..n -> Requests] /\ budget' = budget - n
      <4>1. PICK n \in 1..budget :
                   sent' \in [1..n -> Requests] /\ budget' = budget - n
        BY <3>1
      <4>2. n \in Nat /\ budget' \in 0..MaxRequests
        BY <4>1, MaxRequestsAssumption
      <4>3. sent' \in [1..n -> Requests \cup Alone]
        BY <4>1
      <4> QED
        BY <4>2, <4>3
    <3>2. CASE budget' = 0 /\ sent' \in [1..1 -> Alone]
      <4>1. sent' \in [1..1 -> Requests \cup Alone]
        BY <3>2
      <4> QED
        BY <3>2, <4>1, MaxRequestsAssumption
    <3> QED
      BY <1>1, <3>1, <3>2 DEF Start
  <2>2. Len(sent') = n
    BY <2>1
  <2>3. stream' = WireOf(sent') /\ pc' = "recv" /\ got' = 0 /\ aligned' = 0
    BY <1>1 DEF Start
  <2>4. Len(stream') \in Nat
    BY <2>1, <2>3, WireIsText
  <2> QED
    BY <2>1, <2>2, <2>3, <2>4
<1>2. CASE Receive
  BY <1>2 DEF Receive, client, input
<1>3. CASE Parse
  BY <1>3 DEF Parse, client
<1>4. CASE ParseLast
  <2>1. /\ pc = "execute" /\ got' = got + 1 /\ UNCHANGED <<budget, sent, stream>>
        /\ pc' \in {"recv", "upgrade", "handler"}
        /\ aligned' = IF IsNext(got + 1) THEN aligned + 1 ELSE -1
    BY <1>4 DEF ParseLast, client, Branch
  <2>2. aligned' \in -1..Len(sent)
    BY <2>1 DEF IsNext
  <2> QED
    BY <2>1, <2>2
<1>5. CASE Handle
  BY <1>5 DEF Handle, client, input
<1>6. CASE UpgradeAccepted
  BY <1>6 DEF UpgradeAccepted, client, input
<1>7. CASE UpgradeRefused \/ ClientCloses \/ UNCHANGED vars
  BY <1>7 DEF UpgradeRefused, ClientCloses, client, input, vars
<1> QED
  BY <1>1, <1>2, <1>3, <1>4, <1>5, <1>6, <1>7 DEF Next

LEMMA ReceiveInvStarts == Init => ReceiveInv
BY MaxRequestsAssumption DEF Init, ReceiveInv

\* The variables have their types, recv() never returns more than was sent and
\* execute() never goes on behind its data, the parser counts a length down
\* only when there is one, and never goes on with a head larger than its limit.
THEOREM TypeCorrect == Spec => []TypeOK
<1>1. ReceiveInv /\ ParserInv => TypeOK
  BY DEF ReceiveInv, ParserInv, IsExec, IsParsing, TypeOK
<1>2. ReceiveInv /\ [Next]_vars => ReceiveInv'
  BY ReceiveInvHolds
<1> QED
  BY <1>1, <1>2, ReceiveInvStarts, ParserInvariance, PTL DEF Spec

-----------------------------------------------------------------------------
(* Cuts do not show: two calls of execute() with the same unit, one in the *)
(* middle of data, and one for which it is all the data there is.          *)

LEMMA JoinIs ==
  ASSUME NEW s, NEW t, NEW u, IsText(s), IsText(t), IsText(u)
  PROVE  (s \o t) \o u = s \o (t \o u)
<1> DEFINE S == ToSet(s) \cup ToSet(t) \cup ToSet(u)
<1>1. s \in Seq(S) /\ t \in Seq(S) /\ u \in Seq(S)
  BY DEF IsText
<1> HIDE DEF S
<1> QED
  BY <1>1

LEMMA JoinNothing == ASSUME NEW s, IsText(s) PROVE s \o << >> = s
BY DEF IsText

LEMMA AppendIs ==
  ASSUME NEW s, NEW e, IsText(s)
  PROVE  Append(s, e) = s \o <<e>> /\ IsText(Append(s, e))
<1> DEFINE S == ToSet(s) \cup {e}
<1>1. s \in Seq(S) /\ e \in S
  BY DEF IsText
<1> HIDE DEF S
<1>2. Append(s, e) \in Seq(S) /\ Append(s, e) = s \o <<e>>
  BY <1>1
<1> QED
  BY <1>2, TextIs, Zenon

LEMMA TagIs ==
  ASSUME NEW name, NEW s, IsText(s)
  PROVE  /\ IsText(Tag(name, s)) /\ Tag(name, << >>) = << >>
         /\ \A ch : Tag(name, Append(s, ch)) = Append(Tag(name, s), <<name, ch>>)
<1> DEFINE n == Len(s)
           t == [i \in DOMAIN s |-> <<name, s[i]>>]
<1>1. n \in Nat /\ DOMAIN s = 1..n /\ s \in Seq(ToSet(s))
  BY DEF IsText
<1>2. t = [i \in 1..n |-> t[i]] /\ Len(t) = n
  BY <1>1
<1>3. Tag(name, s) = t
  BY DEF Tag
<1>4. IsText(t)
  <2> HIDE DEF t, n
  <2> QED
    BY <1>1, <1>2, ListIsText
<1>5. Tag(name, << >>) = << >>
  BY DEF Tag
<1>6. ASSUME NEW ch
      PROVE  Tag(name, Append(s, ch)) = Append(t, <<name, ch>>)
  <2> DEFINE r == Append(s, ch)
             q == Append(t, <<name, ch>>)
             S == ToSet(s) \cup {ch}
  <2>1. s \in Seq(S)
    BY <1>1
  <2> HIDE DEF S
  <2>2. ch \in S
    BY DEF S
  <2>3. r \in Seq(S) /\ Len(r) = n + 1
    BY <2>1, <2>2
  <2>4. r[n + 1] = ch /\ \A i \in 1..n : r[i] = s[i]
    BY <1>1, <2>1
  <2> DEFINE T == ToSet(t) \cup {<<name, ch>>}
  <2>6. t \in Seq(T) /\ <<name, ch>> \in T
    <3> HIDE DEF t
    <3>1. t \in Seq(ToSet(t))
      BY <1>4 DEF IsText
    <3> QED
      BY <3>1
  <2> HIDE DEF T
  <2>7. /\ q \in Seq(T) /\ Len(q) = n + 1 /\ q[n + 1] = <<name, ch>>
        /\ \A i \in 1..n : q[i] = t[i]
    <3> HIDE DEF t
    <3> QED
      BY <1>2, <2>6
  <2>8. \A i \in 1..n : q[i] = <<name, r[i]>>
    BY <1>1, <2>4, <2>7
  <2>9. DOMAIN r = 1..(n + 1) /\ q = [i \in 1..(n + 1) |-> q[i]]
    BY <1>1, <2>3, <2>7
  <2> HIDE DEF q, r, t
  <2>10. \A i \in 1..(n + 1) : q[i] = <<name, r[i]>>
    BY <1>1, <2>4, <2>7, <2>8
  <2>11. Tag(name, r) = q
    BY <2>9, <2>10 DEF Tag
  <2> QED
    BY <2>11 DEF q, r
<1> QED
  BY <1>3, <1>4, <1>5, <1>6

\* What is looked at here: the request object and the assert()s are not.
IsTaking(x) ==
  /\ DOMAIN x = {"parser", "request", "marks", "inner", "skips", "heard", "ended",
                 "asserted"}
  /\ DOMAIN x.parser = ParserFields
  /\ DOMAIN x.marks = DOMAIN MarkStates
  /\ \A name \in DOMAIN x.marks :
       /\ DOMAIN x.marks[name] = {"set", "text"} /\ x.marks[name].set \in BOOLEAN
       /\ IsText(x.marks[name].text)
  /\ IsText(x.heard)

IsOne(marks) == marks = {} \/ \E name \in DOMAIN MarkStates : marks = {name}

LEMMA TakenIs ==
  ASSUME NEW x
  PROVE  /\ MarksSet(x) = {} => Taken(x) = x.heard
         /\ \A name : MarksSet(x) = {name} =>
              Taken(x) = x.heard \o Tag(name, x.marks[name].text)
<1>1. ASSUME MarksSet(x) = {} PROVE Taken(x) = x.heard
  BY <1>1 DEF Taken
<1>2. ASSUME NEW name, MarksSet(x) = {name}
      PROVE  Taken(x) = x.heard \o Tag(name, x.marks[name].text)
  <2>1. (CHOOSE other \in MarksSet(x) : TRUE) = name
    BY <1>2
  <2>2. MarksSet(x) # {}
    BY <1>2
  <2> QED
    BY <2>1, <2>2, Zenon DEF Taken
<1> QED
  BY <1>1, <1>2

LEMMA TakenIsText ==
  ASSUME NEW x, IsTaking(x), IsOne(MarksSet(x)) PROVE IsText(Taken(x))
<1>1. CASE MarksSet(x) = {}
  BY <1>1, TakenIs DEF IsTaking
<1>2. ASSUME NEW name \in DOMAIN MarkStates, MarksSet(x) = {name}
      PROVE  IsText(Taken(x))
  <2>1. IsText(x.heard) /\ IsText(Tag(name, x.marks[name].text))
    BY TagIs DEF IsTaking
  <2> QED
    BY <1>2, <2>1, TakenIs, TextsJoin
<1> QED
  BY <1>1, <1>2 DEF IsOne

\* From x to y nothing that was taken changes.
Rests(x, y) ==
  /\ DOMAIN y = DOMAIN x /\ DOMAIN y.parser = DOMAIN x.parser
  /\ y.marks = x.marks /\ y.heard = x.heard /\ y.ended = x.ended

LEMMA RestsTakes ==
  ASSUME NEW x, NEW y, IsTaking(x), Rests(x, y)
  PROVE  IsTaking(y) /\ MarksSet(y) = MarksSet(x) /\ Taken(y) = Taken(x)
<1>1. MarksSet(y) = MarksSet(x)
  BY DEF Rests, MarksSet
<1>2. Taken(y) = Taken(x)
  BY <1>1 DEF Rests, Taken
<1> QED
  BY <1>1, <1>2 DEF Rests, IsTaking

-----------------------------------------------------------------------------
(* What the parts of the parser take.                                      *)

LEMMA MarkTakes ==
  ASSUME NEW x, NEW name \in DOMAIN MarkStates, IsTaking(x),
         MarksSet(x) \subseteq {name}
  PROVE  LET y == Mark(x, name)
         IN  /\ IsTaking(y) /\ y.parser = x.parser /\ y.ended = x.ended
             /\ MarksSet(y) = {name} /\ Taken(y) = Taken(x)
<1>1. CASE x.marks[name].set
  <2>1. Mark(x, name) = x
    BY <1>1 DEF Mark
  <2>2. MarksSet(x) = {name}
    BY <1>1 DEF MarksSet, IsTaking
  <2> QED
    BY <2>1, <2>2
<1>2. CASE ~ x.marks[name].set
  <2> DEFINE y == [x EXCEPT !.marks[name] = Marked]
  <2>1. Mark(x, name) = y
    BY <1>2 DEF Mark
  <2>2. Marked.set /\ Marked.text = << >> /\ DOMAIN Marked = {"set", "text"}
        /\ Marked.set \in BOOLEAN
    BY DEF Marked
  <2>3. IsText(<< >>)
    BY PairIsText, Zenon
  <2>4. /\ DOMAIN y = DOMAIN x /\ y.parser = x.parser /\ y.ended = x.ended
        /\ y.heard = x.heard /\ DOMAIN y.marks = DOMAIN x.marks
        /\ \A other \in DOMAIN x.marks :
             y.marks[other] = IF other = name THEN Marked ELSE x.marks[other]
    BY DEF IsTaking
  <2> HIDE DEF y
  <2>5. IsTaking(y)
    BY <2>2, <2>3, <2>4 DEF IsTaking
  <2>6. MarksSet(x) = {}
    BY <1>2 DEF MarksSet
  <2>7. MarksSet(y) = {name}
    BY <2>2, <2>4, <2>6 DEF MarksSet, IsTaking
  <2>8. Taken(y) = x.heard \o Tag(name, y.marks[name].text)
    BY <2>4, <2>7, TakenIs
  <2>9. y.marks[name].text = << >>
    BY <2>2, <2>4 DEF IsTaking
  <2>10. Tag(name, y.marks[name].text) = << >>
    BY <2>3, <2>9, TagIs
  <2>11. IsText(x.heard)
    BY DEF IsTaking
  <2>12. Taken(y) = x.heard
    BY <2>8, <2>10, <2>11, JoinNothing
  <2> QED
    BY <2>1, <2>4, <2>5, <2>6, <2>7, <2>12, TakenIs
<1> QED
  BY <1>1, <1>2

\* What is under way at a unit goes on with it.
Given(marks, ch) ==
  IF marks = {} THEN << >> ELSE << <<CHOOSE name \in marks : TRUE, ch>> >>

LEMMA AdvanceTakes ==
  ASSUME NEW x, NEW ch, IsTaking(x), IsOne(MarksSet(x))
  PROVE  LET y == Advance(x, ch)
         IN  /\ IsTaking(y) /\ y.parser = x.parser /\ y.ended = x.ended
             /\ MarksSet(y) = MarksSet(x)
             /\ Taken(y) = Taken(x) \o Given(MarksSet(x), ch)
<1> DEFINE marks == [name \in DOMAIN x.marks |->
                       IF x.marks[name].set
                         THEN [x.marks[name] EXCEPT !.text = Append(@, ch)]
                         ELSE x.marks[name]]
           y == [x EXCEPT !.marks = marks]
<1>1. /\ DOMAIN marks = DOMAIN x.marks
      /\ \A name \in DOMAIN x.marks :
           /\ DOMAIN marks[name] = {"set", "text"}
           /\ marks[name].set = x.marks[name].set
           /\ x.marks[name].set => marks[name].text = Append(x.marks[name].text, ch)
           /\ ~x.marks[name].set => marks[name].text = x.marks[name].text
  BY DEF IsTaking
<1>2. Advance(x, ch) = y
  BY Zenon DEF Advance
<1> HIDE DEF marks
<1>3. /\ DOMAIN y = DOMAIN x /\ y.marks = marks /\ y.parser = x.parser
      /\ y.heard = x.heard /\ y.ended = x.ended
  BY DEF IsTaking
<1> HIDE DEF y
<1>4. ASSUME NEW name \in DOMAIN x.marks PROVE IsText(marks[name].text)
  <2>1. IsText(x.marks[name].text)
    BY DEF IsTaking
  <2>2. IsText(Append(x.marks[name].text, ch))
    BY <2>1, AppendIs, Zenon
  <2> QED
    BY <1>1, <2>1, <2>2
<1>5. IsTaking(y)
  BY <1>1, <1>3, <1>4 DEF IsTaking
<1>6. MarksSet(y) = MarksSet(x)
  BY <1>1, <1>3 DEF MarksSet
<1>7. CASE MarksSet(x) = {}
  <2>1. Given(MarksSet(x), ch) = << >>
    BY <1>7 DEF Given
  <2>2. Taken(x) = x.heard /\ Taken(y) = x.heard
    BY <1>3, <1>6, <1>7, TakenIs
  <2>3. IsText(x.heard)
    BY DEF IsTaking
  <2> QED
    BY <1>2, <1>3, <1>5, <1>6, <2>1, <2>2, <2>3, JoinNothing
<1>8. ASSUME NEW name \in DOMAIN MarkStates, MarksSet(x) = {name}
      PROVE  Taken(y) = Taken(x) \o Given(MarksSet(x), ch)
  <2> DEFINE text == x.marks[name].text
  <2>1. Given(MarksSet(x), ch) = << <<name, ch>> >>
    <3>1. (CHOOSE other \in {name} : TRUE) = name
      OBVIOUS
    <3> QED
      BY <1>8, <3>1 DEF Given
  <2>2. name \in DOMAIN x.marks /\ x.marks[name].set
    BY <1>8 DEF MarksSet
  <2>3. y.marks[name].text = Append(text, ch)
    BY <1>1, <1>3, <2>2
  <2>4. IsText(text) /\ IsText(x.heard)
    BY <2>2 DEF IsTaking
  <2>5. Taken(x) = x.heard \o Tag(name, text)
    BY <1>8, TakenIs
  <2>6. Taken(y) = x.heard \o Tag(name, Append(text, ch))
    BY <1>3, <1>6, <1>8, <2>3, TakenIs
  <2> HIDE DEF text
  <2> DEFINE e == <<name, ch>>
             t == Tag(name, text)
  <2>7. Tag(name, Append(text, ch)) = Append(t, e) /\ IsText(t)
    BY <2>4, TagIs
  <2> HIDE DEF e, t
  <2>8. Append(t, e) = t \o <<e>> /\ IsText(<<e>>)
    <3>1. IsText(<<e>>)
      BY PairIsText, Zenon
    <3>2. Append(t, e) = t \o <<e>>
      BY <2>7, AppendIs, Zenon
    <3> QED
      BY <3>1, <3>2
  <2> DEFINE unit == <<e>>
  <2>9. x.heard \o (t \o unit) = (x.heard \o t) \o unit
    <3> DEFINE heard == x.heard
    <3>1. IsText(heard) /\ IsText(t) /\ IsText(unit)
      BY <2>4, <2>7, <2>8, Zenon
    <3> HIDE DEF unit, heard
    <3>2. (heard \o t) \o unit = heard \o (t \o unit)
      BY <3>1, JoinIs
    <3> QED
      BY <3>2, Zenon DEF heard
  <2> QED
    BY <2>1, <2>5, <2>6, <2>7, <2>8, <2>9 DEF e, t
<1> QED
  BY <1>2, <1>3, <1>5, <1>6, <1>7, <1>8 DEF IsOne

LEMMA CallbackTakes ==
  ASSUME NEW x, NEW name \in DOMAIN MarkStates, IsTaking(x), IsOne(MarksSet(x))
  PROVE  LET y == CallbackData(x, name)
         IN  /\ IsTaking(y) /\ y.parser = x.parser /\ y.ended = x.ended
             /\ MarksSet(y) = MarksSet(x) \ {name} /\ Taken(y) = Taken(x)
<1>1. name \in DOMAIN x.marks /\ x.marks[name].set \in BOOLEAN
  BY DEF IsTaking
<1>2. CASE ~ x.marks[name].set
  <2>1. CallbackData(x, name) = x
    BY <1>2 DEF CallbackData
  <2>2. name \notin MarksSet(x)
    BY <1>2 DEF MarksSet
  <2> QED
    BY <2>1, <2>2
<1>3. CASE x.marks[name].set
  <2> DEFINE text == x.marks[name].text
             r == Store(x.request, name, text)
             heard == x.heard \o Tag(name, text)
             y == [x EXCEPT !.marks[name] = Unset, !.request = r, !.heard = heard]
  <2>1. CallbackData(x, name) = y
    BY <1>3, Zenon DEF CallbackData, Tag
  <2>2. MarksSet(x) = {name}
    <3>1. name \in MarksSet(x)
      BY <1>1, <1>3 DEF MarksSet
    <3> QED
      BY <3>1 DEF IsOne
  <2>3. IsText(text) /\ IsText(x.heard)
    BY <1>1 DEF IsTaking
  <2>4. Taken(x) = heard
    BY <2>2, TakenIs
  <2>5. IsText(heard)
    BY <2>3, TagIs, TextsJoin
  <2>6. ~Unset.set /\ Unset.text = << >> /\ DOMAIN Unset = {"set", "text"}
        /\ Unset.set \in BOOLEAN
    BY DEF Unset
  <2>7. IsText(<< >>)
    BY PairIsText, Zenon
  <2> HIDE DEF r, heard
  <2>8. /\ DOMAIN y = DOMAIN x /\ y.parser = x.parser /\ y.ended = x.ended
        /\ y.heard = heard /\ DOMAIN y.marks = DOMAIN x.marks
        /\ \A other \in DOMAIN x.marks :
             y.marks[other] = IF other = name THEN Unset ELSE x.marks[other]
    BY DEF IsTaking
  <2> HIDE DEF y
  <2>9. IsTaking(y)
    BY <2>5, <2>6, <2>7, <2>8 DEF IsTaking
  <2>10. MarksSet(y) = {}
    <3>1. \A other \in DOMAIN x.marks : other # name => ~x.marks[other].set
      BY <2>2 DEF MarksSet
    <3> QED
      BY <2>6, <2>8, <3>1 DEF MarksSet
  <2>11. Taken(y) = heard
    BY <2>8, <2>10, TakenIs
  <2> QED
    BY <2>1, <2>2, <2>4, <2>8, <2>9, <2>10, <2>11
<1> QED
  BY <1>1, <1>2, <1>3

-----------------------------------------------------------------------------
(* Two calls.  x goes on with data of which h was taken before, y begins.  *)

SameParser(x, y) == \A f \in ParserFields \ {"nread"} : x.parser[f] = y.parser[f]

Alike(h, x, y) ==
  /\ IsText(h) /\ IsTaking(x) /\ IsTaking(y) /\ SameParser(x, y)
  /\ x.ended = y.ended /\ IsOne(MarksSet(x)) /\ IsOne(MarksSet(y))
  /\ Taken(x) = h \o Taken(y)

\* In the middle of a round, with the same strings under way,
Going(h, m, x, y) ==
  Alike(h, x, y) /\ ~x.ended /\ MarksSet(x) = m /\ MarksSet(y) = m

\* and at its end.  A call that returns before the end of its data, but not
\* for an error, leaves no string.
Done(h, x, y) ==
  /\ Alike(h, x, y) /\ MarksSet(x) = MarksSet(y)
  /\ x.ended /\ x.parser.errno = "OK" => MarksSet(x) = {}
Fails(x, y) == SameParser(x, y) /\ x.ended = y.ended /\ x.parser.errno # "OK"
Ends(h, x, y) ==
  /\ IsTaking(x) /\ IsOne(MarksSet(x)) /\ IsTaking(y) /\ IsOne(MarksSet(y))
  /\ HasRoom(x) /\ HasRoom(y) => Done(h, x, y) \/ Fails(x, y)

LEMMA GoingEnds ==
  ASSUME NEW h, NEW m, NEW x, NEW y, Going(h, m, x, y)
  PROVE  Done(h, x, y) /\ Ends(h, x, y)
BY DEF Going, Done, Ends, Alike

LEMMA DoneEnds ==
  ASSUME NEW h, NEW x, NEW y, Done(h, x, y)
  PROVE  Ends(h, x, y)
BY DEF Done, Ends, Alike

LEMMA RestsGo ==
  ASSUME NEW h, NEW m, NEW x, NEW y, Going(h, m, x, y),
         NEW u, NEW v, Rests(x, u), Rests(y, v), SameParser(u, v)
  PROVE  Going(h, m, u, v)
<1>1. /\ IsTaking(u) /\ MarksSet(u) = MarksSet(x) /\ Taken(u) = Taken(x)
      /\ IsTaking(v) /\ MarksSet(v) = MarksSet(y) /\ Taken(v) = Taken(y)
  BY RestsTakes, Zenon DEF Going, Alike
<1>2. u.ended = x.ended /\ v.ended = y.ended
  BY DEF Rests
<1> QED
  BY <1>1, <1>2, Zenon DEF Going, Alike

LEMMA StateGoes ==
  ASSUME NEW h, NEW m, NEW x, NEW y, Going(h, m, x, y), NEW state
  PROVE  Going(h, m, UpdateState(x, state), UpdateState(y, state))
<1>1. IsTaking(x) /\ IsTaking(y) /\ SameParser(x, y)
  BY DEF Going, Alike
<1>2. /\ Rests(x, UpdateState(x, state)) /\ Rests(y, UpdateState(y, state))
      /\ SameParser(UpdateState(x, state), UpdateState(y, state))
  BY <1>1 DEF IsTaking, SameParser, Rests, UpdateState, ParserFields
<1> QED
  BY <1>2, RestsGo

LEMMA FlagsGo ==
  ASSUME NEW h, NEW m, NEW x, NEW y, Going(h, m, x, y), NEW flags
  PROVE  Going(h, m, AddFlags(x, flags), AddFlags(y, flags))
<1>1. IsTaking(x) /\ IsTaking(y) /\ SameParser(x, y)
  BY DEF Going, Alike
<1>2. /\ Rests(x, AddFlags(x, flags)) /\ Rests(y, AddFlags(y, flags))
      /\ SameParser(AddFlags(x, flags), AddFlags(y, flags))
  BY <1>1 DEF IsTaking, SameParser, Rests, AddFlags, ParserFields
<1> QED
  BY <1>2, RestsGo

LEMMA CheckGoes ==
  ASSUME NEW h, NEW m, NEW x, NEW y, Going(h, m, x, y), NEW test, NEW other
  PROVE  /\ Going(h, m, Check(x, test), Check(y, other))
         /\ Check(x, test).parser = x.parser /\ Check(y, other).parser = y.parser
<1>1. IsTaking(x) /\ IsTaking(y) /\ SameParser(x, y)
  BY DEF Going, Alike
<1>2. /\ Rests(x, Check(x, test)) /\ Rests(y, Check(y, other))
      /\ SameParser(Check(x, test), Check(y, other))
      /\ Check(x, test).parser = x.parser /\ Check(y, other).parser = y.parser
  BY <1>1 DEF IsTaking, SameParser, Rests, Check, ParserFields
<1> QED
  BY <1>2, RestsGo

LEMMA RequestGoes ==
  ASSUME NEW h, NEW m, NEW x, NEW y, Going(h, m, x, y), NEW r, NEW s
  PROVE  Going(h, m, [x EXCEPT !.request = r], [y EXCEPT !.request = s])
<1>1. IsTaking(x) /\ IsTaking(y) /\ SameParser(x, y)
  BY DEF Going, Alike
<1> DEFINE u == [x EXCEPT !.request = r]
           v == [y EXCEPT !.request = s]
<1>2. Rests(x, u) /\ Rests(y, v) /\ SameParser(u, v)
  BY <1>1 DEF IsTaking, SameParser, Rests, ParserFields
<1> HIDE DEF u, v
<1>3. Going(h, m, u, v)
  BY <1>2, RestsGo
<1> QED
  BY <1>3 DEF u, v

\* A field of the parser gets the same value in both; nread need not.
LEMMA FieldGoes ==
  ASSUME NEW h, NEW m, NEW x, NEW y, Going(h, m, x, y), NEW f \in ParserFields,
         NEW a, NEW b, f # "nread" => a = b
  PROVE  Going(h, m, [x EXCEPT !.parser[f] = a], [y EXCEPT !.parser[f] = b])
<1>1. IsTaking(x) /\ IsTaking(y) /\ SameParser(x, y)
  BY DEF Going, Alike
<1> DEFINE u == [x EXCEPT !.parser[f] = a]
           v == [y EXCEPT !.parser[f] = b]
<1>2. Rests(x, u) /\ Rests(y, v) /\ SameParser(u, v)
  BY <1>1 DEF IsTaking, SameParser, Rests, ParserFields
<1> HIDE DEF u, v
<1>3. Going(h, m, u, v)
  BY <1>2, RestsGo
<1> QED
  BY <1>3 DEF u, v

LEMMA FieldsGo ==
  ASSUME NEW h, NEW m, NEW x, NEW y, Going(h, m, x, y), NEW a
  PROVE  /\ Going(h, m, [x EXCEPT !.parser.headerState = a],
                        [y EXCEPT !.parser.headerState = a])
         /\ Going(h, m, [x EXCEPT !.parser.flags = a], [y EXCEPT !.parser.flags = a])
         /\ Going(h, m, [x EXCEPT !.parser.contentLength = a],
                        [y EXCEPT !.parser.contentLength = a])
         /\ Going(h, m, [x EXCEPT !.parser.method = a], [y EXCEPT !.parser.method = a])
         /\ Going(h, m, [x EXCEPT !.parser.index = a], [y EXCEPT !.parser.index = a])
         /\ Going(h, m, [x EXCEPT !.parser.httpMajor = a],
                        [y EXCEPT !.parser.httpMajor = a])
         /\ Going(h, m, [x EXCEPT !.parser.httpMinor = a],
                        [y EXCEPT !.parser.httpMinor = a])
         /\ Going(h, m, [x EXCEPT !.parser.upgrade = a], [y EXCEPT !.parser.upgrade = a])
         /\ \A b : Going(h, m, [x EXCEPT !.parser.nread = a],
                               [y EXCEPT !.parser.nread = b])
BY FieldGoes DEF ParserFields

LEMMA MarkGoes ==
  ASSUME NEW h, NEW x, NEW y, NEW name \in DOMAIN MarkStates,
         Alike(h, x, y), ~x.ended,
         MarksSet(x) \subseteq {name}, MarksSet(y) \subseteq {name}
  PROVE  /\ Going(h, {name}, Mark(x, name), Mark(y, name))
         /\ Mark(x, name).parser = x.parser /\ Mark(y, name).parser = y.parser
<1> DEFINE u == Mark(x, name)
           v == Mark(y, name)
<1>1. /\ IsTaking(u) /\ u.parser = x.parser /\ u.ended = x.ended
      /\ MarksSet(u) = {name} /\ Taken(u) = Taken(x)
  BY MarkTakes DEF Alike
<1>2. /\ IsTaking(v) /\ v.parser = y.parser /\ v.ended = y.ended
      /\ MarksSet(v) = {name} /\ Taken(v) = Taken(y)
  BY MarkTakes DEF Alike
<1> HIDE DEF u, v
<1>3. IsOne({name})
  BY DEF IsOne
<1>4. SameParser(u, v)
  BY <1>1, <1>2 DEF Alike, SameParser
<1>5. Going(h, {name}, u, v)
  BY <1>1, <1>2, <1>3, <1>4, Zenon DEF Going, Alike
<1> QED
  BY <1>1, <1>2, <1>5 DEF u, v

LEMMA CallbackGoes ==
  ASSUME NEW h, NEW x, NEW y, NEW name \in DOMAIN MarkStates,
         Alike(h, x, y), ~x.ended,
         MarksSet(x) \subseteq {name}, MarksSet(y) \subseteq {name}
  PROVE  /\ Going(h, {}, CallbackData(x, name), CallbackData(y, name))
         /\ CallbackData(x, name).parser = x.parser
         /\ CallbackData(y, name).parser = y.parser
<1> DEFINE u == CallbackData(x, name)
           v == CallbackData(y, name)
<1>1. /\ IsTaking(u) /\ u.parser = x.parser /\ u.ended = x.ended
      /\ MarksSet(u) = MarksSet(x) \ {name} /\ Taken(u) = Taken(x)
  BY CallbackTakes DEF Alike
<1>2. /\ IsTaking(v) /\ v.parser = y.parser /\ v.ended = y.ended
      /\ MarksSet(v) = MarksSet(y) \ {name} /\ Taken(v) = Taken(y)
  BY CallbackTakes DEF Alike
<1> HIDE DEF u, v
<1>3. MarksSet(u) = {} /\ MarksSet(v) = {} /\ IsOne({})
  BY <1>1, <1>2 DEF IsOne
<1>4. SameParser(u, v)
  BY <1>1, <1>2 DEF Alike, SameParser
<1>5. Going(h, {}, u, v)
  BY <1>1, <1>2, <1>3, <1>4, Zenon DEF Going, Alike
<1> QED
  BY <1>1, <1>2, <1>5 DEF u, v

LEMMA AdvanceIsAlike ==
  ASSUME NEW h, NEW x, NEW y, NEW ch, Alike(h, x, y), MarksSet(x) = MarksSet(y)
  PROVE  LET u == Advance(x, ch)
             v == Advance(y, ch)
         IN  /\ Alike(h, u, v) /\ u.ended = x.ended /\ u.parser = x.parser
             /\ v.parser = y.parser
             /\ MarksSet(u) = MarksSet(x) /\ MarksSet(v) = MarksSet(x)
<1> DEFINE u == Advance(x, ch)
           v == Advance(y, ch)
           given == Given(MarksSet(x), ch)
           s == Taken(x)
           t == Taken(y)
<1>1. /\ IsTaking(u) /\ u.parser = x.parser /\ u.ended = x.ended
      /\ MarksSet(u) = MarksSet(x) /\ Taken(u) = s \o given
  BY AdvanceTakes, Zenon DEF Alike
<1>2. /\ IsTaking(v) /\ v.parser = y.parser /\ v.ended = y.ended
      /\ MarksSet(v) = MarksSet(y) /\ Taken(v) = t \o given
  BY AdvanceTakes, Zenon DEF Alike
<1>3. IsText(given)
  BY PairIsText, Zenon DEF Given
<1>4. IsText(h) /\ IsText(t) /\ s = h \o t
  BY TakenIsText, Zenon DEF Alike
<1> HIDE DEF u, v, given, s, t
<1>5. s \o given = h \o (t \o given)
  BY <1>3, <1>4, JoinIs
<1>6. SameParser(u, v)
  BY <1>1, <1>2 DEF Alike, SameParser
<1>7. Alike(h, u, v)
  BY <1>1, <1>2, <1>5, <1>6, Zenon DEF Alike
<1> QED
  BY <1>1, <1>2, <1>7 DEF u, v

LEMMA AdvanceGoes ==
  ASSUME NEW h, NEW m, NEW x, NEW y, NEW ch, Going(h, m, x, y)
  PROVE  Going(h, m, Advance(x, ch), Advance(y, ch))
BY AdvanceIsAlike DEF Going

LEMMA AdvanceEnds ==
  ASSUME NEW h, NEW x, NEW y, NEW ch, Ends(h, x, y)
  PROVE  Ends(h, Advance(x, ch), Advance(y, ch))
<1> DEFINE u == Advance(x, ch)
           v == Advance(y, ch)
<1>1. /\ IsTaking(u) /\ u.parser = x.parser /\ u.ended = x.ended
      /\ IsTaking(v) /\ v.parser = y.parser /\ v.ended = y.ended
      /\ MarksSet(u) = MarksSet(x) /\ MarksSet(v) = MarksSet(y)
  BY AdvanceTakes DEF Ends
<1>2. Done(h, x, y) => Done(h, u, v)
  BY AdvanceIsAlike DEF Done
<1> HIDE DEF u, v
<1>3. Fails(x, y) => Fails(u, v)
  BY <1>1 DEF Fails, SameParser
<1> QED
  BY <1>1, <1>2, <1>3 DEF Ends, HasRoom, u, v

LEMMA ErrnoGoes ==
  ASSUME NEW h, NEW m, NEW x, NEW y, Going(h, m, x, y), NEW errno, errno # "OK"
  PROVE  /\ Done(h, SetErrno(x, errno), SetErrno(y, errno))
         /\ Ends(h, SetErrno(x, errno), SetErrno(y, errno))
<1> DEFINE u == SetErrno(x, errno)
           v == SetErrno(y, errno)
<1>1. IsTaking(x) /\ IsTaking(y) /\ SameParser(x, y)
  BY DEF Going, Alike
<1>2. /\ u.marks = x.marks /\ u.heard = x.heard /\ u.ended = TRUE
      /\ DOMAIN u = DOMAIN x /\ DOMAIN u.parser = DOMAIN x.parser
      /\ v.marks = y.marks /\ v.heard = y.heard /\ v.ended = TRUE
      /\ DOMAIN v = DOMAIN y /\ DOMAIN v.parser = DOMAIN y.parser
      /\ SameParser(u, v) /\ u.parser.errno = errno
  BY <1>1 DEF IsTaking, SameParser, SetErrno, ParserFields
<1> HIDE DEF u, v
<1>3. /\ IsTaking(u) /\ MarksSet(u) = MarksSet(x) /\ Taken(u) = Taken(x)
      /\ IsTaking(v) /\ MarksSet(v) = MarksSet(y) /\ Taken(v) = Taken(y)
  <2>1. MarksSet(u) = MarksSet(x) /\ MarksSet(v) = MarksSet(y)
    BY <1>2 DEF MarksSet
  <2>2. Taken(u) = Taken(x) /\ Taken(v) = Taken(y)
    BY <1>2, <2>1 DEF Taken
  <2>3. IsTaking(u) /\ IsTaking(v)
    BY <1>1, <1>2 DEF IsTaking
  <2> QED
    BY <2>1, <2>2, <2>3
<1>4. Alike(h, u, v)
  BY <1>2, <1>3, Zenon DEF Going, Alike
<1>5. Done(h, u, v)
  BY <1>2, <1>3, <1>4, Zenon DEF Going, Done
<1> QED
  BY <1>5, DoneEnds DEF u, v

\* COUNT_HEADER_SIZE() changes the count of a head, which is for each call its
\* own, or ends the call for the size of the head.
Counts(x, u) ==
  /\ IsTaking(u) /\ MarksSet(u) = MarksSet(x)
  /\ \/ Rests(x, u) /\ SameParser(x, u)
     \/ u.ended /\ ~HasRoom(u)

LEMMA RestsCounts ==
  ASSUME NEW x, NEW u, IsTaking(x), Rests(x, u), SameParser(x, u)
  PROVE  Counts(x, u)
BY RestsTakes DEF Counts

LEMMA SizeCounts ==
  ASSUME NEW x, NEW k, IsTaking(x)
  PROVE  /\ Counts(x, CountHeaderSize(x, k))
         /\ CountHeaderSize(x, k).skips = x.skips
<1> DEFINE a == x.parser.nread + k
           c == [x EXCEPT !.parser.nread = a]
           d == SetErrno(c, "HEADER_OVERFLOW")
<1>1. CountHeaderSize(x, k) = IF c.parser.nread > MaxHeaderSize THEN d ELSE c
  BY DEF CountHeaderSize
<1>2. Rests(x, c) /\ SameParser(x, c) /\ c.skips = x.skips
  <2> HIDE DEF a
  <2> QED
    BY DEF IsTaking, Rests, SameParser, ParserFields
<1> HIDE DEF c
<1>3. IsTaking(c) /\ MarksSet(c) = MarksSet(x)
  BY <1>2, RestsTakes
<1>4. /\ DOMAIN d = DOMAIN c /\ DOMAIN d.parser = DOMAIN c.parser
      /\ d.marks = c.marks /\ d.heard = c.heard /\ d.ended = TRUE
      /\ d.parser.errno = "HEADER_OVERFLOW" /\ d.skips = c.skips
  BY <1>3 DEF IsTaking, SetErrno, ParserFields
<1> HIDE DEF d
<1>5. IsTaking(d) /\ MarksSet(d) = MarksSet(c) /\ ~HasRoom(d)
  BY <1>3, <1>4 DEF IsTaking, MarksSet, HasRoom
<1> QED
  BY <1>1, <1>2, <1>3, <1>4, <1>5 DEF Counts

LEMMA EndInnerCounts ==
  ASSUME NEW x, IsTaking(x)
  PROVE  Counts(x, EndInner(x))
<1> DEFINE u == CountHeaderSize(x, x.inner)
           v == [u EXCEPT !.inner = 0, !.skips = FALSE]
<1>1. EndInner(x) = v
  BY DEF EndInner
<1>2. Counts(x, u)
  BY SizeCounts
<1> HIDE DEF u
<1>3. Rests(u, v) /\ v.parser = u.parser
  BY <1>2 DEF Counts, IsTaking, Rests
<1> HIDE DEF v
<1>4. IsTaking(v) /\ MarksSet(v) = MarksSet(x)
  BY <1>2, <1>3, RestsTakes DEF Counts
<1>5. CASE Rests(x, u) /\ SameParser(x, u)
  BY <1>1, <1>3, <1>4, <1>5 DEF Counts, Rests, SameParser
<1>6. CASE u.ended /\ ~HasRoom(u)
  BY <1>1, <1>3, <1>4, <1>6 DEF Counts, Rests, HasRoom
<1> QED
  BY <1>2, <1>5, <1>6 DEF Counts

\* Two calls that count.
LEMMA CountsGo ==
  ASSUME NEW h, NEW m, NEW x, NEW y, Going(h, m, x, y),
         NEW u, NEW v, Counts(x, u), Counts(y, v)
  PROVE  /\ IsTaking(u) /\ MarksSet(u) = m /\ IsTaking(v) /\ MarksSet(v) = m
         /\ IsOne(m) /\ Ends(h, u, v)
         /\ ~u.ended /\ ~v.ended => Going(h, m, u, v)
         /\ Going(h, m, u, v) \/ ~HasRoom(u) \/ ~HasRoom(v)
         /\ u.ended => ~HasRoom(u)
         /\ v.ended => ~HasRoom(v)
<1>1. IsTaking(u) /\ MarksSet(u) = m /\ IsTaking(v) /\ MarksSet(v) = m /\ IsOne(m)
  BY DEF Counts, Going, Alike
<1>2. ASSUME Rests(x, u), SameParser(x, u), Rests(y, v), SameParser(y, v)
      PROVE  Going(h, m, u, v)
  <2>1. SameParser(u, v)
    BY <1>2 DEF Going, Alike, SameParser
  <2> QED
    BY <1>2, <2>1, RestsGo
<1>3. /\ u.ended => ~HasRoom(u)
      /\ v.ended => ~HasRoom(v)
  BY DEF Counts, Rests, Going, Alike
<1>4. Going(h, m, u, v) \/ (u.ended /\ ~HasRoom(u)) \/ (v.ended /\ ~HasRoom(v))
  BY <1>2 DEF Counts
<1>5. Ends(h, u, v)
  BY <1>1, <1>4, GoingEnds DEF Ends
<1> QED
  BY <1>1, <1>3, <1>4, <1>5

-----------------------------------------------------------------------------
(* The end of a message, in two calls.                                     *)

LEMMA SameFields ==
  ASSUME NEW h, NEW m, NEW x, NEW y, Going(h, m, x, y)
  PROVE  /\ ~x.ended /\ ~y.ended
         /\ x.parser.state = y.parser.state /\ x.parser.flags = y.parser.flags
         /\ x.parser.headerState = y.parser.headerState
         /\ x.parser.contentLength = y.parser.contentLength
         /\ x.parser.method = y.parser.method /\ x.parser.index = y.parser.index
         /\ x.parser.httpMajor = y.parser.httpMajor
         /\ x.parser.httpMinor = y.parser.httpMinor
         /\ x.parser.upgrade = y.parser.upgrade
BY DEF Going, Alike, SameParser, ParserFields

LEMMA HeardGoes ==
  ASSUME NEW h, NEW x, NEW y, Going(h, {}, x, y), NEW a, NEW b
  PROVE  Going(h, {}, [x EXCEPT !.heard = Append(@, <<a, b>>)],
                      [y EXCEPT !.heard = Append(@, <<a, b>>)])
<1> DEFINE e == <<a, b>>
           unit == <<e>>
           s == x.heard
           t == y.heard
           p == Append(s, e)
           q == Append(t, e)
           u == [x EXCEPT !.heard = p]
           v == [y EXCEPT !.heard = q]
<1>1. IsTaking(x) /\ IsTaking(y) /\ SameParser(x, y) /\ IsText(h)
      /\ MarksSet(x) = {} /\ MarksSet(y) = {} /\ Taken(x) = h \o Taken(y)
      /\ ~x.ended /\ x.ended = y.ended
  BY Zenon DEF Going, Alike
<1>2. IsText(s) /\ IsText(t) /\ s = h \o t
  BY <1>1, TakenIs DEF IsTaking
<1>3. IsText(unit)
  BY PairIsText, Zenon
<1> HIDE DEF e, s, t
<1>4. p = s \o unit /\ q = t \o unit /\ IsText(p) /\ IsText(q)
  BY <1>2, AppendIs, Zenon
<1> HIDE DEF p, q, unit
<1>5. p = h \o q
  <2>1. (h \o t) \o unit = h \o (t \o unit)
    BY <1>1, <1>2, <1>3, JoinIs
  <2> QED
    BY <1>2, <1>4, <2>1
<1>6. /\ DOMAIN u = DOMAIN x /\ u.parser = x.parser /\ u.marks = x.marks
      /\ u.heard = p /\ u.ended = x.ended
      /\ DOMAIN v = DOMAIN y /\ v.parser = y.parser /\ v.marks = y.marks
      /\ v.heard = q /\ v.ended = y.ended
  BY <1>1 DEF IsTaking
<1> HIDE DEF u, v
<1>7. MarksSet(u) = {} /\ MarksSet(v) = {} /\ IsOne({})
  BY <1>1, <1>6 DEF MarksSet, IsOne
<1>8. Taken(u) = p /\ Taken(v) = q
  BY <1>6, <1>7, TakenIs
<1>9. IsTaking(u) /\ IsTaking(v) /\ SameParser(u, v)
  BY <1>1, <1>4, <1>6 DEF IsTaking, SameParser
<1>10. Going(h, {}, u, v)
  BY <1>1, <1>5, <1>6, <1>7, <1>8, <1>9, Zenon DEF Going, Alike
<1> QED
  BY <1>10, Zenon DEF u, v, p, q, s, t, e

LEMMA KeepAliveAgrees ==
  ASSUME NEW p, NEW q, p.httpMajor = q.httpMajor, p.httpMinor = q.httpMinor,
         p.flags = q.flags
  PROVE  ShouldKeepAlive(p) <=> ShouldKeepAlive(q)
BY DEF ShouldKeepAlive

LEMMA MessageDoneGoes ==
  ASSUME NEW h, NEW x, NEW y, Going(h, {}, x, y)
  PROVE  Done(h, MessageDone(x), MessageDone(y))
<1> DEFINE state == IF ShouldKeepAlive(x.parser) THEN "start_req" ELSE "dead"
           A(z) == [z EXCEPT !.parser.state = state]
           B(z) == [A(z) EXCEPT !.request = SetMessageComplete(z.request)]
           C(z) == [B(z) EXCEPT !.heard = Append(@, <<"message", "complete">>)]
           D(z) == [C(z) EXCEPT !.ended = x.parser.upgrade]
<1>1. Going(h, {}, A(x), A(y))
  <2> HIDE DEF state
  <2> QED
    BY StateGoes, Zenon DEF UpdateState
<1>2. ShouldKeepAlive(y.parser) <=> ShouldKeepAlive(x.parser)
  BY SameFields, KeepAliveAgrees
<1>3. MessageDone(x) = D(x) /\ MessageDone(y) = D(y)
  <2>1. /\ (IF ShouldKeepAlive(y.parser) THEN "start_req" ELSE "dead") = state
        /\ (IF ShouldKeepAlive(x.parser) THEN "start_req" ELSE "dead") = state
    BY <1>2
  <2>2. /\ DOMAIN x = {"parser", "request", "marks", "inner", "skips", "heard",
                       "ended", "asserted"}
        /\ DOMAIN y = DOMAIN x
    BY DEF Going, Alike, IsTaking
  <2>5. y.parser.upgrade = x.parser.upgrade
    BY SameFields
  <2> HIDE DEF state
  <2>3. MessageDone(x) = D(x)
    BY <2>1, <2>2 DEF MessageDone, NewMessage
  <2>4. MessageDone(y) = D(y)
    BY <2>1, <2>2, <2>5 DEF MessageDone, NewMessage
  <2> QED
    BY <2>3, <2>4
<1> HIDE DEF A, state
<1>4. Going(h, {}, B(x), B(y))
  BY <1>1, RequestGoes
<1> HIDE DEF B
<1>5. Going(h, {}, C(x), C(y))
  BY <1>4, HeardGoes
<1> HIDE DEF C
<1>6. /\ DOMAIN D(x) = DOMAIN C(x) /\ D(x).parser = C(x).parser
      /\ D(x).marks = C(x).marks /\ D(x).heard = C(x).heard
      /\ D(x).ended = x.parser.upgrade
      /\ DOMAIN D(y) = DOMAIN C(y) /\ D(y).parser = C(y).parser
      /\ D(y).marks = C(y).marks /\ D(y).heard = C(y).heard
      /\ D(y).ended = x.parser.upgrade
  BY <1>5 DEF Going, Alike, IsTaking
<1> HIDE DEF D
<1>7. MarksSet(D(x)) = {} /\ MarksSet(D(y)) = {} /\ IsOne({})
  BY <1>5, <1>6 DEF MarksSet, Going, IsOne
<1>8. Taken(D(x)) = Taken(C(x)) /\ Taken(D(y)) = Taken(C(y))
  BY <1>5, <1>6, <1>7, TakenIs DEF Going
<1>9. /\ IsTaking(D(x)) /\ IsTaking(D(y)) /\ SameParser(D(x), D(y))
      /\ IsText(h) /\ Taken(C(x)) = h \o Taken(C(y))
  BY <1>5, <1>6 DEF IsTaking, SameParser, Going, Alike
<1>10. Alike(h, D(x), D(y))
  BY <1>6, <1>7, <1>8, <1>9, Zenon DEF Alike
<1> QED
  BY <1>3, <1>7, <1>10 DEF Done

LEMMA HeadersDoneGoes ==
  ASSUME NEW h, NEW x, NEW y, Going(h, {}, x, y)
  PROVE  Done(h, HeadersDone(x), HeadersDone(y))
<1> DEFINE A(z) == [z EXCEPT !.parser.nread = 0]
           C(z) == UpdateState(A(z), "chunk_size_start")
           B(z) == UpdateState(A(z), "body_identity")
<1>1. Going(h, {}, A(x), A(y))
  BY FieldsGo
<1>2. \A z : HeadersDone(z) =
               IF z.parser.method = "CONNECT" THEN MessageDone(A(z))
               ELSE IF "chunked" \in z.parser.flags THEN C(z)
               ELSE IF HasLength(z) THEN B(z)
               ELSE MessageDone(A(z))
  BY DEF HeadersDone
<1> HIDE DEF A
<1>5. HasLength(y) <=> HasLength(x)
  <2>1. y.parser.contentLength = x.parser.contentLength
    BY SameFields
  <2> QED
    BY <2>1, Zenon DEF HasLength
<1>3. Done(h, MessageDone(A(x)), MessageDone(A(y)))
  BY <1>1, MessageDoneGoes
<1>4. Done(h, C(x), C(y)) /\ Done(h, B(x), B(y))
  BY <1>1, StateGoes, GoingEnds
<1> HIDE DEF B, C
<1> QED
  BY <1>2, <1>3, <1>4, <1>5, SameFields

LEMMA HeadersAlmostDoneGoes ==
  ASSUME NEW h, NEW x, NEW y, NEW ch, Going(h, {}, x, y)
  PROVE  Done(h, HeadersAlmostDone(x, ch), HeadersAlmostDone(y, ch))
<1> DEFINE flags == x.parser.flags
           method == x.parser.method
           Upgrades(f, m) == {"upgrade", "connection_upgrade"} \subseteq f \/ m = "CONNECT"
           upgrade == Upgrades(flags, method)
           A(z) == [z EXCEPT !.parser.upgrade = upgrade]
           r(z) == SetHeadersComplete(z.request, method, upgrade)
           B(z) == [A(z) EXCEPT !.request = r(z)]
           C(z) == [B(z) EXCEPT !.heard = Append(@, <<"headers", "complete">>)]
           errno == "UNEXPECTED_CONTENT_LENGTH"
           Result(z) == IF ch # "LF" THEN SetErrno(z, "STRICT")
                        ELSE IF "trailing" \in flags THEN MessageDone(z)
                        ELSE IF {"chunked", "content_length"} \subseteq flags
                          THEN SetErrno(z, errno)
                        ELSE HeadersDone(C(z))
<1>1. ASSUME NEW z, z.parser.flags = flags, z.parser.method = method,
             DOMAIN z = DOMAIN x
      PROVE  HeadersAlmostDone(z, ch) = Result(z)
  <2>1. Upgrades(z.parser.flags, z.parser.method) = upgrade
    BY <1>1, Zenon
  <2> QED
    BY <1>1, <2>1 DEF HeadersAlmostDone, Going, Alike, IsTaking
<1> HIDE DEF upgrade
<1>2. Going(h, {}, A(x), A(y))
  BY FieldsGo
<1> HIDE DEF A, r
<1>3. Going(h, {}, B(x), B(y))
  BY <1>2, RequestGoes
<1> HIDE DEF B
<1>4. Going(h, {}, C(x), C(y))
  BY <1>3, HeardGoes
<1> HIDE DEF C
<1>5. Done(h, HeadersDone(C(x)), HeadersDone(C(y)))
  BY <1>4, HeadersDoneGoes
<1>6. Done(h, MessageDone(x), MessageDone(y))
  BY MessageDoneGoes
<1>7. Done(h, SetErrno(x, "STRICT"), SetErrno(y, "STRICT"))
      /\ Done(h, SetErrno(x, errno), SetErrno(y, errno))
  BY ErrnoGoes
<1>8. HeadersAlmostDone(x, ch) = Result(x) /\ HeadersAlmostDone(y, ch) = Result(y)
  <2>1. DOMAIN y = DOMAIN x /\ y.parser.flags = flags /\ y.parser.method = method
    <3> HIDE DEF A, B, C, r, Result
    <3>1. DOMAIN y = DOMAIN x
      BY DEF Going, Alike, IsTaking
    <3>2. y.parser.flags = flags /\ y.parser.method = method
      BY SameFields
    <3> QED
      BY <3>1, <3>2
  <2>2. x.parser.flags = flags /\ x.parser.method = method
    BY Zenon
  <2> HIDE DEF Result, flags, method
  <2>3. HeadersAlmostDone(x, ch) = Result(x)
    BY <1>1, <2>2, Zenon
  <2>4. HeadersAlmostDone(y, ch) = Result(y)
    BY <1>1, <2>1, Zenon
  <2> QED
    BY <2>3, <2>4, Zenon
<1> QED
  BY <1>5, <1>6, <1>7, <1>8, Zenon

-----------------------------------------------------------------------------
(* The request line, in two calls.                                         *)

LEMMA SetErrnoEnds ==
  ASSUME NEW h, NEW m, NEW x, NEW y, Going(h, m, x, y), NEW errno, errno # "OK"
  PROVE  Ends(h, SetErrno(x, errno), SetErrno(y, errno))
BY ErrnoGoes

LEMMA StateEnds ==
  ASSUME NEW h, NEW m, NEW x, NEW y, Going(h, m, x, y), NEW state
  PROVE  Ends(h, UpdateState(x, state), UpdateState(y, state))
BY StateGoes, GoingEnds

LEMMA StartReqGoes ==
  ASSUME NEW h, NEW x, NEW y, NEW ch, Going(h, {}, x, y)
  PROVE  Ends(h, StartReq(x, ch), StartReq(y, ch))
<1> DEFINE A(z) == [z EXCEPT !.parser.flags = {}]
           B(z) == [A(z) EXCEPT !.parser.contentLength = UllongMax]
           C(z) == [B(z) EXCEPT !.parser.method = MethodOf[ch]]
           D(z) == [C(z) EXCEPT !.parser.index = 1]
           E(z) == UpdateState(D(z), "req_method")
           F(z) == SetErrno(B(z), "INVALID_METHOD")
           Result(z) == IF ch \in {"CR", "LF"} THEN z
                        ELSE IF ch \in DOMAIN MethodOf THEN E(z) ELSE F(z)
<1>1. ASSUME NEW z, IsTaking(z) PROVE StartReq(z, ch) = Result(z)
  <2>1. B(z) = [z EXCEPT !.parser.flags = {}, !.parser.contentLength = UllongMax]
    BY <1>1 DEF IsTaking, ParserFields
  <2>2. D(z) = [B(z) EXCEPT !.parser.method = MethodOf[ch], !.parser.index = 1]
    BY <1>1 DEF IsTaking, ParserFields
  <2> HIDE DEF B, C, D
  <2>3. ch \in {"CR", "LF"} => ch \notin DOMAIN MethodOf
    BY DEF MethodOf
  <2> QED
    BY <2>1, <2>2, <2>3 DEF StartReq
<1>2. Going(h, {}, A(x), A(y))
  BY FieldsGo
<1> HIDE DEF A
<1>3. Going(h, {}, B(x), B(y))
  BY <1>2, FieldsGo
<1> HIDE DEF B
<1>4. Going(h, {}, C(x), C(y))
  BY <1>3, FieldsGo
<1> HIDE DEF C
<1>5. Going(h, {}, D(x), D(y))
  BY <1>4, FieldsGo
<1> HIDE DEF D
<1>6. Ends(h, E(x), E(y))
  BY <1>5, StateEnds
<1>7. Ends(h, F(x), F(y))
  BY <1>3, SetErrnoEnds
<1>8. StartReq(x, ch) = Result(x) /\ StartReq(y, ch) = Result(y)
  BY <1>1 DEF Going, Alike
<1> HIDE DEF E, F
<1> QED
  BY <1>6, <1>7, <1>8, GoingEnds

LEMMA ReqMethodGoes ==
  ASSUME NEW h, NEW x, NEW y, NEW ch, Going(h, {}, x, y)
  PROVE  Ends(h, ReqMethod(x, ch), ReqMethod(y, ch))
<1> DEFINE m == x.parser.method
           i == x.parser.index
           other == <<m, i, ch>>
           A(z) == [z EXCEPT !.parser.index = i + 1]
           B(z) == UpdateState(A(z), "req_spaces_before_url")
           C(z) == [A(z) EXCEPT !.parser.method = OtherMethod[other]]
           F(z) == SetErrno(z, "INVALID_METHOD")
           Result(z) ==
             IF ch = "SP" /\ LetterAt(m, i) = "" THEN B(z)
             ELSE IF ch = LetterAt(m, i) THEN A(z)
             ELSE IF other \in DOMAIN OtherMethod THEN C(z) ELSE F(z)
<1>1. ASSUME NEW z, z.parser.method = m, z.parser.index = i
      PROVE  ReqMethod(z, ch) = Result(z)
  BY <1>1, Zenon DEF ReqMethod
<1>2. y.parser.method = m /\ y.parser.index = i
  BY SameFields
<1>3. ReqMethod(x, ch) = Result(x) /\ ReqMethod(y, ch) = Result(y)
  BY <1>1, <1>2, Zenon
<1> HIDE DEF m, i, other
<1>4. Going(h, {}, A(x), A(y))
  BY FieldsGo
<1> HIDE DEF A
<1>5. Ends(h, A(x), A(y)) /\ Ends(h, B(x), B(y))
  BY <1>4, GoingEnds, StateEnds
<1>6. Ends(h, C(x), C(y))
  BY <1>4, FieldsGo, GoingEnds
<1>7. Ends(h, F(x), F(y))
  BY SetErrnoEnds
<1> HIDE DEF B, C, F
<1> QED
  BY <1>3, <1>5, <1>6, <1>7, Zenon

LEMMA UrlCharGoes ==
  ASSUME NEW h, NEW m, NEW x, NEW y, NEW ch, NEW state, Going(h, m, x, y)
  PROVE  Ends(h, UrlChar(x, state, ch), UrlChar(y, state, ch))
<1> DEFINE next == ParseUrlChar(state, ch)
           A(z) == UpdateState(z, next)
           B(z) == SetErrno(A(z), "INVALID_URL")
<1>1. \A z : UrlChar(z, state, ch) = IF next = "dead" THEN B(z) ELSE A(z)
  BY Zenon DEF UrlChar
<1> HIDE DEF next
<1>2. Going(h, m, A(x), A(y))
  BY StateGoes
<1> HIDE DEF A
<1>3. Ends(h, A(x), A(y)) /\ Ends(h, B(x), B(y))
  BY <1>2, GoingEnds, SetErrnoEnds
<1> HIDE DEF B
<1> QED
  BY <1>1, <1>3

LEMMA SpacesBeforeUrlGoes ==
  ASSUME NEW h, NEW x, NEW y, NEW ch, Going(h, {}, x, y)
  PROVE  Ends(h, SpacesBeforeUrl(x, ch), SpacesBeforeUrl(y, ch))
<1> DEFINE state == IF x.parser.method = "CONNECT" THEN "req_server_start"
                    ELSE "req_spaces_before_url"
           A(z) == Mark(z, "url")
           B(z) == UrlChar(A(z), state, ch)
<1>1. y.parser.method = x.parser.method
  BY SameFields
<1>2. /\ SpacesBeforeUrl(x, ch) = IF ch = "SP" THEN x ELSE B(x)
      /\ SpacesBeforeUrl(y, ch) = IF ch = "SP" THEN y ELSE B(y)
  BY <1>1, Zenon DEF SpacesBeforeUrl
<1> HIDE DEF state
<1>3. Going(h, {"url"}, A(x), A(y))
  <2>1. Alike(h, x, y) /\ ~x.ended /\ MarksSet(x) = {} /\ MarksSet(y) = {}
    BY DEF Going
  <2>2. "url" \in DOMAIN MarkStates
    BY FieldsAre
  <2> QED
    BY <2>1, <2>2, MarkGoes
<1> HIDE DEF A
<1>4. Ends(h, B(x), B(y))
  BY <1>3, UrlCharGoes
<1> HIDE DEF B
<1> QED
  BY <1>2, <1>4, GoingEnds, Zenon

LEMMA CallbackEnds ==
  ASSUME NEW h, NEW x, NEW y, NEW name \in DOMAIN MarkStates, Going(h, {name}, x, y)
  PROVE  /\ Going(h, {}, CallbackData(x, name), CallbackData(y, name))
         /\ Ends(h, CallbackData(x, name), CallbackData(y, name))
BY CallbackGoes, GoingEnds DEF Going

LEMMA UrlGoes ==
  ASSUME NEW h, NEW x, NEW y, NEW ch, Going(h, {"url"}, x, y)
  PROVE  Ends(h, Url(x, ch), Url(y, ch))
<1> DEFINE state == x.parser.state
           ends == state \in UrlEnd
           A(z) == [z EXCEPT !.parser.httpMajor = 0]
           B(z) == [A(z) EXCEPT !.parser.httpMinor = 9]
           C(z) == UpdateState(z, "req_http_start")
           D(z) == UpdateState(B(z), "req_line_almost_done")
           E(z) == UpdateState(B(z), "header_field_start")
           F(z) == UrlChar(z, state, ch)
           Result(z) == IF ends /\ ch = "SP" THEN CallbackData(C(z), "url")
                        ELSE IF ends /\ ch = "CR" THEN CallbackData(D(z), "url")
                        ELSE IF ends /\ ch = "LF" THEN CallbackData(E(z), "url")
                        ELSE F(z)
<1>1. ASSUME NEW z, IsTaking(z), z.parser.state = state
      PROVE  Url(z, ch) = Result(z)
  <2>1. B(z) = [z EXCEPT !.parser.httpMajor = 0, !.parser.httpMinor = 9]
    BY <1>1 DEF IsTaking, ParserFields
  <2> HIDE DEF B, state
  <2> QED
    BY <1>1, <2>1 DEF Url
<1>2. y.parser.state = state
  BY SameFields
<1>3. Url(x, ch) = Result(x) /\ Url(y, ch) = Result(y)
  BY <1>1, <1>2, Zenon DEF Going, Alike
<1> HIDE DEF state
<1>4. Going(h, {"url"}, A(x), A(y))
  BY FieldsGo
<1> HIDE DEF A
<1>5. Going(h, {"url"}, B(x), B(y))
  BY <1>4, FieldsGo
<1> HIDE DEF B
<1>6. /\ Going(h, {"url"}, C(x), C(y)) /\ Going(h, {"url"}, D(x), D(y))
      /\ Going(h, {"url"}, E(x), E(y))
  BY <1>5, StateGoes
<1>7. Ends(h, F(x), F(y))
  BY UrlCharGoes
<1> HIDE DEF C, D, E, F
<1>8. /\ Ends(h, CallbackData(C(x), "url"), CallbackData(C(y), "url"))
      /\ Ends(h, CallbackData(D(x), "url"), CallbackData(D(y), "url"))
      /\ Ends(h, CallbackData(E(x), "url"), CallbackData(E(y), "url"))
  BY <1>6, CallbackEnds, FieldsAre
<1> QED
  BY <1>3, <1>7, <1>8, Zenon

LEMMA FirstDigitGoes ==
  ASSUME NEW h, NEW m, NEW x, NEW y, NEW ch, NEW number \in ParserFields, NEW least,
         NEW state, Going(h, m, x, y)
  PROVE  Ends(h, FirstDigit(x, number, ch, least, state),
                 FirstDigit(y, number, ch, least, state))
<1> DEFINE digit == Digit[ch]
           A(z) == [z EXCEPT !.parser[number] = digit]
           B(z) == UpdateState(A(z), state)
           F(z) == SetErrno(z, "INVALID_VERSION")
<1>1. \A z : FirstDigit(z, number, ch, least, state) =
               IF ch \notin DOMAIN Digit \/ digit < least THEN F(z) ELSE B(z)
  BY Zenon DEF FirstDigit
<1> HIDE DEF digit
<1>2. Going(h, m, A(x), A(y))
  BY FieldGoes
<1> HIDE DEF A
<1>3. Ends(h, B(x), B(y)) /\ Ends(h, F(x), F(y))
  BY <1>2, StateEnds, SetErrnoEnds
<1> HIDE DEF B, F
<1> QED
  BY <1>1, <1>3

LEMMA NextDigitGoes ==
  ASSUME NEW h, NEW m, NEW x, NEW y, NEW ch, NEW number \in ParserFields \ {"nread"},
         Going(h, m, x, y)
  PROVE  Ends(h, NextDigit(x, number, ch), NextDigit(y, number, ch))
<1> DEFINE value == Base * x.parser[number] + Digit[ch]
           A(z) == [z EXCEPT !.parser[number] = value]
           F(z) == SetErrno(z, "INVALID_VERSION")
           Result(z) == IF ch \notin DOMAIN Digit THEN F(z)
                        ELSE IF value > MaxVersion THEN F(A(z)) ELSE A(z)
<1>1. ASSUME NEW z, IsTaking(z), z.parser[number] = x.parser[number]
      PROVE  NextDigit(z, number, ch) = Result(z)
  <2>1. A(z) = [z EXCEPT !.parser[number] = Base * @ + Digit[ch]]
    BY <1>1
  <2>2. A(z).parser[number] = value
    <3> HIDE DEF value
    <3> QED
      BY <1>1 DEF IsTaking
  <2> HIDE DEF A, value
  <2> QED
    BY <2>1, <2>2, Zenon DEF NextDigit
<1>2. y.parser[number] = x.parser[number]
  BY DEF Going, Alike, SameParser
<1>3. NextDigit(x, number, ch) = Result(x) /\ NextDigit(y, number, ch) = Result(y)
  BY <1>1, <1>2, Zenon DEF Going, Alike
<1> HIDE DEF value
<1>4. Going(h, m, A(x), A(y))
  BY FieldGoes
<1> HIDE DEF A
<1>5. Ends(h, F(x), F(y)) /\ Ends(h, F(A(x)), F(A(y))) /\ Ends(h, A(x), A(y))
  BY <1>4, SetErrnoEnds, GoingEnds
<1> HIDE DEF F
<1> QED
  BY <1>3, <1>5, Zenon

LEMMA VersionGoes ==
  ASSUME NEW h, NEW m, NEW x, NEW y, NEW ch, Going(h, m, x, y)
  PROVE  /\ Ends(h, HttpMajor(x, ch), HttpMajor(y, ch))
         /\ Ends(h, HttpMinor(x, ch), HttpMinor(y, ch))
<1>1. /\ Ends(h, NextDigit(x, "httpMajor", ch), NextDigit(y, "httpMajor", ch))
      /\ Ends(h, NextDigit(x, "httpMinor", ch), NextDigit(y, "httpMinor", ch))
  BY NextDigitGoes DEF ParserFields
<1>2. \A state : Ends(h, UpdateState(x, state), UpdateState(y, state))
  BY StateEnds
<1> QED
  BY <1>1, <1>2, Zenon DEF HttpMajor, HttpMinor

LEMMA ExpectGoes ==
  ASSUME NEW h, NEW m, NEW x, NEW y, NEW ch, Going(h, m, x, y),
         x.parser.state \in DOMAIN Expected
  PROVE  Ends(h, Expect(x, ch), Expect(y, ch))
<1> DEFINE e == Expected[x.parser.state]
           A(z) == UpdateState(z, e[2])
           F(z) == SetErrno(z, e[3])
<1>1. e[3] # "OK"
  BY DEF Expected
<1>2. y.parser.state = x.parser.state
  BY SameFields
<1>3. /\ Expect(x, ch) = IF ch = e[1] THEN A(x) ELSE F(x)
      /\ Expect(y, ch) = IF ch = e[1] THEN A(y) ELSE F(y)
  BY <1>2, Zenon DEF Expect
<1> HIDE DEF e
<1>4. Ends(h, A(x), A(y)) /\ Ends(h, F(x), F(y))
  BY <1>1, StateEnds, SetErrnoEnds
<1> HIDE DEF A, F
<1> QED
  BY <1>3, <1>4, Zenon

-----------------------------------------------------------------------------
(* Header lines, in two calls.                                             *)

LEMMA MarkFrom ==
  ASSUME NEW h, NEW x, NEW y, Going(h, {}, x, y), NEW name \in DOMAIN MarkStates
  PROVE  Going(h, {name}, Mark(x, name), Mark(y, name))
<1>1. Alike(h, x, y) /\ ~x.ended /\ MarksSet(x) = {} /\ MarksSet(y) = {}
  BY DEF Going
<1> QED
  BY <1>1, MarkGoes

LEMMA HeaderFieldStartGoes ==
  ASSUME NEW h, NEW x, NEW y, NEW ch, Going(h, {}, x, y)
  PROVE  Ends(h, HeaderFieldStart(x, ch), HeaderFieldStart(y, ch))
<1> DEFINE name == Name("start", ch)
           A(z) == Mark(z, "header_field")
           B(z) == UpdateState(A(z), "header_field")
           C(z) == [B(z) EXCEPT !.parser.headerState = name]
           D(z) == UpdateState(z, "headers_almost_done")
           E(z) == HeadersAlmostDone(z, ch)
           F(z) == SetErrno(z, "INVALID_HEADER_TOKEN")
<1>1. IsToken(ch) => ch \notin {"CR", "LF"}
  BY DEF IsToken
<1>2. \A z : HeaderFieldStart(z, ch) =
               IF ch = "CR" THEN D(z) ELSE IF ch = "LF" THEN E(z)
               ELSE IF IsToken(ch) THEN C(z) ELSE F(z)
  <2> HIDE DEF name, A, E, F
  <2> QED
    BY <1>1 DEF HeaderFieldStart, A, E, F, name
<1> HIDE DEF name
<1>3. Going(h, {"header_field"}, A(x), A(y))
  BY MarkFrom, FieldsAre
<1> HIDE DEF A
<1>4. Going(h, {"header_field"}, B(x), B(y))
  BY <1>3, StateGoes
<1> HIDE DEF B
<1>5. Ends(h, C(x), C(y))
  BY <1>4, FieldsGo, GoingEnds
<1>6. Ends(h, D(x), D(y)) /\ Ends(h, F(x), F(y))
  BY StateEnds, SetErrnoEnds
<1>7. Ends(h, E(x), E(y))
  BY HeadersAlmostDoneGoes, DoneEnds
<1> HIDE DEF C, D, E, F
<1> QED
  BY <1>2, <1>5, <1>6, <1>7

\* A call is like itself.
LEMMA SelfAlike ==
  ASSUME NEW x, IsTaking(x), IsOne(MarksSet(x))
  PROVE  Alike(<< >>, x, x)
<1>1. IsText(<< >>) /\ IsText(Taken(x))
  BY PairIsText, TakenIsText, Zenon
<1> DEFINE s == Taken(x)
<1>2. << >> \o s = s
  <2> HIDE DEF s
  <2> QED
    BY <1>1 DEF s, IsText
<1> QED
  BY <1>1, <1>2 DEF Alike, SameParser

LEMMA CountsAlone ==
  ASSUME NEW h, NEW m, NEW x, NEW y, Going(h, m, x, y), NEW u, ~u.ended,
         Counts(x, u) \/ Counts(y, u)
  PROVE  Going(<< >>, m, u, u)
<1>1. IsTaking(u) /\ IsOne(MarksSet(u)) /\ MarksSet(u) = m
  BY DEF Counts, Going, Alike
<1> QED
  BY <1>1, SelfAlike DEF Going

\* What two calls do behind a count, when it does not end them.
LEMMA BehindCounts ==
  ASSUME NEW h, NEW m, NEW x, NEW y, Going(h, m, x, y),
         NEW u, NEW v, Counts(x, u), Counts(y, v), NEW a, NEW b,
         Going(h, m, u, v) => Ends(h, a, b),
         Going(<< >>, m, u, u) => Ends(<< >>, a, a),
         Going(<< >>, m, v, v) => Ends(<< >>, b, b)
  PROVE  Ends(h, IF u.ended THEN u ELSE a, IF v.ended THEN v ELSE b)
<1> DEFINE c == IF u.ended THEN u ELSE a
           d == IF v.ended THEN v ELSE b
<1>1. /\ IsTaking(u) /\ IsOne(MarksSet(u)) /\ IsTaking(v) /\ IsOne(MarksSet(v))
      /\ ~u.ended /\ ~v.ended => Going(h, m, u, v)
      /\ u.ended => ~HasRoom(u)
      /\ v.ended => ~HasRoom(v)
  BY CountsGo
<1>2. ~u.ended => IsTaking(a) /\ IsOne(MarksSet(a))
  BY CountsAlone DEF Ends
<1>3. ~v.ended => IsTaking(b) /\ IsOne(MarksSet(b))
  BY CountsAlone DEF Ends
<1>4. IsTaking(c) /\ IsOne(MarksSet(c)) /\ IsTaking(d) /\ IsOne(MarksSet(d))
  BY <1>1, <1>2, <1>3
<1>5. CASE u.ended \/ v.ended
  <2>1. ~HasRoom(c) \/ ~HasRoom(d)
    BY <1>1, <1>5
  <2> QED
    BY <1>4, <2>1 DEF Ends
<1>6. CASE ~u.ended /\ ~v.ended
  BY <1>1, <1>6
<1> QED
  BY <1>5, <1>6

\* The end of the data in a loop that goes on.
LEMMA InnerEnds ==
  ASSUME NEW h, NEW m, NEW x, NEW y, Going(h, m, x, y), NEW last
  PROVE  Ends(h, IF last THEN EndInner(x) ELSE x, EndInner(y))
<1> DEFINE u == IF last THEN EndInner(x) ELSE x
<1>1. Counts(x, x) /\ Counts(x, EndInner(x)) /\ Counts(y, EndInner(y))
  BY RestsCounts, EndInnerCounts DEF Going, Alike, Rests, SameParser
<1>2. Counts(x, u)
  BY <1>1
<1> HIDE DEF u
<1> QED
  BY <1>1, <1>2, CountsGo DEF u

\* Where the loop is does not matter for what is taken.
LEMMA InnerGoes ==
  ASSUME NEW h, NEW m, NEW x, NEW y, Going(h, m, x, y), NEW a, NEW b, NEW c, NEW d
  PROVE  /\ Going(h, m, [x EXCEPT !.inner = a], [y EXCEPT !.inner = b])
         /\ Going(h, m, [x EXCEPT !.inner = a, !.skips = c],
                        [y EXCEPT !.inner = b, !.skips = d])
<1>1. IsTaking(x) /\ IsTaking(y) /\ SameParser(x, y)
  BY DEF Going, Alike
<1> DEFINE s == [x EXCEPT !.inner = a]
           t == [y EXCEPT !.inner = b]
           u == [x EXCEPT !.inner = a, !.skips = c]
           v == [y EXCEPT !.inner = b, !.skips = d]
<1>2. Rests(x, s) /\ Rests(y, t) /\ SameParser(s, t)
  BY <1>1 DEF IsTaking, Rests, SameParser
<1>3. Rests(x, u) /\ Rests(y, v) /\ SameParser(u, v)
  BY <1>1 DEF IsTaking, Rests, SameParser
<1> HIDE DEF s, t, u, v
<1>4. Going(h, m, s, t) /\ Going(h, m, u, v)
  BY <1>2, <1>3, RestsGo
<1> QED
  BY <1>4 DEF s, t, u, v

LEMMA HeaderFieldGoes ==
  ASSUME NEW h, NEW x, NEW y, NEW ch, NEW last, Going(h, {"header_field"}, x, y)
  PROVE  Ends(h, HeaderField(x, ch, last), HeaderField(y, ch, TRUE))
<1> DEFINE m == {"header_field"}
           name == Name(x.parser.headerState, ch)
           A(z) == [z EXCEPT !.parser.headerState = name]
           I(z) == [A(z) EXCEPT !.inner = z.inner + 1]
           B(z, l) == IF l THEN EndInner(I(z)) ELSE I(z)
           C(z) == UpdateState(z, "header_value_discard_ws")
           D(z) == CallbackData(C(z), "header_field")
           F(z) == SetErrno(z, "INVALID_HEADER_TOKEN")
           G(z) == IF ch = ":" THEN D(z) ELSE F(z)
           E(z) == EndInner(z)
           R(z) == IF E(z).ended THEN E(z) ELSE G(E(z))
<1>1. IsToken(ch) => ch # ":"
  BY DEF IsToken
<1>2. ASSUME NEW z, NEW l, z.parser.headerState = x.parser.headerState, IsTaking(z)
      PROVE  HeaderField(z, ch, l) = IF IsToken(ch) THEN B(z, l) ELSE R(z)
  <2>1. I(z) = [z EXCEPT !.parser.headerState = Name(@, ch), !.inner = @ + 1]
    BY <1>2 DEF IsTaking
  <2> HIDE DEF I, D, F, E
  <2>2. HeaderField(z, ch, l) =
          CASE IsToken(ch) -> B(z, l)
            [] ~ IsToken(ch) /\ E(z).ended -> E(z)
            [] ch = ":" /\ ~ E(z).ended -> D(E(z))
            [] OTHER -> F(E(z))
    BY <2>1, Zenon DEF HeaderField, D, F, E, C
  <2> QED
    BY <1>1, <2>2
<1>3. y.parser.headerState = x.parser.headerState /\ IsTaking(x) /\ IsTaking(y)
  <2>1. y.parser.headerState = x.parser.headerState
    BY SameFields
  <2>2. IsTaking(x) /\ IsTaking(y)
    BY Zenon DEF Going, Alike
  <2> QED
    BY <2>1, <2>2
<1>4. /\ HeaderField(x, ch, last) = IF IsToken(ch) THEN B(x, last) ELSE R(x)
      /\ HeaderField(y, ch, TRUE) = IF IsToken(ch) THEN B(y, TRUE) ELSE R(y)
  <2> HIDE DEF B, R
  <2> QED
    BY <1>2, <1>3, Zenon
<1> HIDE DEF name
<1>5. Going(h, m, A(x), A(y))
  BY FieldsGo
<1> HIDE DEF A
<1>6. Going(h, m, I(x), I(y))
  BY <1>5, InnerGoes
<1> HIDE DEF I
<1>7. Ends(h, B(x, last), B(y, TRUE))
  BY <1>6, InnerEnds
<1>8. ASSUME NEW g, NEW u, NEW v, Going(g, m, u, v) PROVE Ends(g, G(u), G(v))
  <2>1. Going(g, m, C(u), C(v))
    BY <1>8, StateGoes
  <2> HIDE DEF C
  <2>2. Ends(g, D(u), D(v)) /\ Ends(g, F(u), F(v))
    BY <1>8, <2>1, CallbackEnds, FieldsAre, SetErrnoEnds
  <2> QED
    BY <2>2
<1> HIDE DEF G
<1>9. Counts(x, E(x)) /\ Counts(y, E(y))
  BY <1>3, EndInnerCounts
<1> HIDE DEF E
<1>10. Ends(h, R(x), R(y))
  BY <1>8, <1>9, BehindCounts
<1> HIDE DEF B, R
<1> QED
  BY <1>4, <1>7, <1>10, Zenon

LEMMA HeaderValueStartGoes ==
  ASSUME NEW h, NEW x, NEW y, NEW ch, Going(h, {}, x, y)
  PROVE  Ends(h, HeaderValueStart(x, ch), HeaderValueStart(y, ch))
<1> DEFINE m == {"header_value"}
           s == x.parser.headerState
           flags == x.parser.flags
           chunked == IF Lower(ch) = "chunk" THEN "matching_transfer_encoding_chunked"
                      ELSE "general"
           option == ConnectionOptionOf(ch)
           digit == Digit[ch]
           A(z) == Mark(z, "header_value")
           B(z) == UpdateState(A(z), "header_value")
           C(z, t) == [B(z) EXCEPT !.parser.headerState = t]
           D(z) == AddFlags(C(z, "general"), {"upgrade"})
           E(z) == [B(z) EXCEPT !.parser.contentLength = digit]
           F(z) == AddFlags(E(z), {"content_length"})
           G(z, errno) == SetErrno(B(z), errno)
           Result(z) ==
             IF s = "upgrade" THEN D(z)
             ELSE IF s = "transfer_encoding" THEN C(z, chunked)
             ELSE IF s = "content_length" THEN
               IF ch \notin DOMAIN Digit THEN G(z, "INVALID_CONTENT_LENGTH")
               ELSE IF "content_length" \in flags
                 THEN G(z, "UNEXPECTED_CONTENT_LENGTH")
               ELSE F(z)
             ELSE IF s = "connection" THEN C(z, option)
             ELSE IF s = "matching_connection_token_start" THEN B(z)
             ELSE C(z, "general")
<1>1. ASSUME NEW z, z.parser.headerState = s, z.parser.flags = flags
      PROVE  HeaderValueStart(z, ch) = Result(z)
  <2> HIDE DEF s, flags, chunked, option, digit, A
  <2> QED
    BY <1>1 DEF HeaderValueStart, chunked, option, digit, A
<1>2. y.parser.headerState = s /\ y.parser.flags = flags
  BY SameFields
<1>3. HeaderValueStart(x, ch) = Result(x) /\ HeaderValueStart(y, ch) = Result(y)
  BY <1>1, <1>2, Zenon
<1> HIDE DEF s, flags, chunked, option, digit
<1>4. Going(h, m, A(x), A(y))
  BY MarkFrom, FieldsAre
<1> HIDE DEF A, m
<1>5. Going(h, m, B(x), B(y))
  BY <1>4, StateGoes
<1> HIDE DEF B
<1>6. \A t : Going(h, m, C(x, t), C(y, t))
  BY <1>5, FieldsGo
<1>7. Going(h, m, E(x), E(y))
  BY <1>5, FieldsGo
<1> HIDE DEF C, E
<1>8. Ends(h, D(x), D(y)) /\ Ends(h, F(x), F(y))
  BY <1>6, <1>7, FlagsGo, GoingEnds
<1>9. \A t : Ends(h, C(x, t), C(y, t))
  BY <1>6, GoingEnds
<1>10. Ends(h, B(x), B(y))
  BY <1>5, GoingEnds
<1>11. /\ Ends(h, G(x, "INVALID_CONTENT_LENGTH"), G(y, "INVALID_CONTENT_LENGTH"))
       /\ Ends(h, G(x, "UNEXPECTED_CONTENT_LENGTH"), G(y, "UNEXPECTED_CONTENT_LENGTH"))
  BY <1>5, SetErrnoEnds
<1> HIDE DEF D, F, G
<1> QED
  BY <1>3, <1>8, <1>9, <1>10, <1>11

LEMMA DiscardWsGoes ==
  ASSUME NEW h, NEW x, NEW y, NEW ch, Going(h, {}, x, y)
  PROVE  Ends(h, DiscardWs(x, ch), DiscardWs(y, ch))
<1> DEFINE A(z) == UpdateState(z, "header_value_discard_ws_almost_done")
           B(z) == UpdateState(z, "header_value_discard_lws")
           C(z) == HeaderValueStart(z, ch)
<1>1. \A z : DiscardWs(z, ch) = IF IsBlank(ch) THEN z ELSE IF ch = "CR" THEN A(z)
                                ELSE IF ch = "LF" THEN B(z) ELSE C(z)
  <2> HIDE DEF A, B, C
  <2> QED
    BY DEF DiscardWs, IsBlank, A, B, C
<1>2. Ends(h, x, y) /\ Ends(h, A(x), A(y)) /\ Ends(h, B(x), B(y))
  BY GoingEnds, StateEnds
<1>3. Ends(h, C(x), C(y))
  BY HeaderValueStartGoes
<1> HIDE DEF A, B, C
<1> QED
  BY <1>1, <1>2, <1>3

LEMMA HeaderAlmostDoneGoes ==
  ASSUME NEW h, NEW m, NEW x, NEW y, NEW ch, Going(h, m, x, y)
  PROVE  Ends(h, HeaderAlmostDone(x, ch), HeaderAlmostDone(y, ch))
<1>1. /\ Ends(h, SetErrno(x, "LF_EXPECTED"), SetErrno(y, "LF_EXPECTED"))
      /\ Ends(h, UpdateState(x, "header_value_lws"), UpdateState(y, "header_value_lws"))
  BY SetErrnoEnds, StateEnds
<1> QED
  BY <1>1, Zenon DEF HeaderAlmostDone

\* A character of a value: both go on, or both end with the same error.
LEMMA ValueCharGoes ==
  ASSUME NEW h, NEW m, NEW x, NEW y, NEW ch, Going(h, m, x, y)
  PROVE  LET u == ValueChar(x, ch)
             v == ValueChar(y, ch)
         IN  Going(h, m, u, v) \/ (Ends(h, u, v) /\ u.ended /\ v.ended)
<1> DEFINE s == x.parser.headerState
           length == Base * x.parser.contentLength + Digit[ch]
           fits == ~ Overflows(x.parser.contentLength)
           value == Value(s, ch)
           flags == IF ch = "," /\ s # "transfer_encoding_chunked" THEN Flag(s) ELSE {}
           A(z) == [z EXCEPT !.parser.headerState = value]
           B(z) == AddFlags(A(z), flags)
           C(z) == [z EXCEPT !.parser.contentLength = length]
           F(z) == SetErrno(z, "INVALID_CONTENT_LENGTH")
           Result(z) == IF s # "content_length" THEN B(z) ELSE IF ch = "SP" THEN z
                        ELSE IF ch \in DOMAIN Digit /\ fits THEN C(z) ELSE F(z)
<1>1. ASSUME NEW z, z.parser.headerState = s,
             z.parser.contentLength = x.parser.contentLength
      PROVE  ValueChar(z, ch) = Result(z)
  <2>1. ch \in DOMAIN Digit => ch # "SP"
    BY Digits
  <2>2. Overflows(z.parser.contentLength) <=> ~ fits
    BY <1>1, Zenon
  <2> HIDE DEF s, length, fits, value, flags
  <2> QED
    BY <1>1, <2>1, <2>2 DEF ValueChar, length, value, flags
<1>2. y.parser.headerState = s /\ y.parser.contentLength = x.parser.contentLength
  BY SameFields
<1>3. ValueChar(x, ch) = Result(x) /\ ValueChar(y, ch) = Result(y)
  BY <1>1, <1>2, Zenon
<1> HIDE DEF s, length, fits, value, flags
<1>4. Going(h, m, A(x), A(y)) /\ Going(h, m, C(x), C(y))
  BY FieldsGo
<1> HIDE DEF A, C
<1>5. Going(h, m, B(x), B(y))
  BY <1>4, FlagsGo
<1>6. Ends(h, F(x), F(y)) /\ F(x).ended /\ F(y).ended
  <2>1. Ends(h, F(x), F(y))
    BY SetErrnoEnds
  <2> QED
    BY <2>1 DEF Going, Alike, IsTaking, SetErrno
<1> HIDE DEF B, F
<1> QED
  BY <1>3, <1>4, <1>5, <1>6, Zenon

LEMMA HeaderValueGoes ==
  ASSUME NEW h, NEW x, NEW y, NEW ch, NEW last, Going(h, {"header_value"}, x, y),
         ch = "CTL" => (x.skips <=> y.skips)
  PROVE  Ends(h, HeaderValue(x, ch, last), HeaderValue(y, ch, TRUE))
<1> DEFINE m == {"header_value"}
           A(z) == UpdateState(z, "header_almost_done")
           E(z) == EndInner(A(z))
           P(z) == CallbackData(A(z), "header_value")
           B(z) == CallbackData(z, "header_value")
           C(z) == HeaderAlmostDone(B(z), ch)
           R(z) == IF E(z).ended THEN E(z) ELSE C(E(z))
           F(z) == SetErrno(z, "INVALID_HEADER_TOKEN")
           V(z) == ValueChar(z, ch)
           I(z) == [V(z) EXCEPT !.inner = @ + 1,
                                !.skips = @ \/ z.parser.headerState = "general"]
           D(z, l) == IF V(z).ended THEN V(z) ELSE IF l THEN EndInner(I(z)) ELSE I(z)
           Result(z, l) == IF ch = "CR" THEN EndInner(P(z)) ELSE IF ch = "LF" THEN R(z)
                           ELSE IF ch = "CTL" /\ ~ z.skips THEN F(z) ELSE D(z, l)
<1>1. \A z, l : HeaderValue(z, ch, l) = Result(z, l)
  <2> HIDE DEF A, C, E, F, P, I, V
  <2>1. \A z, l : HeaderValue(z, ch, l) =
          CASE ch = "CR" -> EndInner(P(z))
            [] ch = "LF" /\ E(z).ended -> E(z)
            [] ch = "LF" /\ ~ E(z).ended -> C(E(z))
            [] ch = "CTL" /\ ~ z.skips -> F(z)
            [] OTHER -> D(z, l)
    BY Zenon DEF HeaderValue, A, C, E, F, P, I, V
  <2> QED
    BY <2>1
<1>2. Going(h, m, A(x), A(y))
  BY StateGoes
<1> HIDE DEF A
<1>3. Ends(h, EndInner(P(x)), EndInner(P(y)))
  <2>1. Going(h, {}, P(x), P(y))
    BY <1>2, CallbackEnds, FieldsAre
  <2>2. Counts(P(x), EndInner(P(x))) /\ Counts(P(y), EndInner(P(y)))
    BY <2>1, EndInnerCounts DEF Going, Alike
  <2> HIDE DEF P
  <2> QED
    BY <2>1, <2>2, CountsGo
<1>4. Ends(h, R(x), R(y))
  <2>1. ASSUME NEW g, NEW u, NEW v, Going(g, m, u, v) PROVE Ends(g, C(u), C(v))
    <3>1. Going(g, {}, B(u), B(v))
      BY <2>1, CallbackEnds, FieldsAre
    <3> HIDE DEF B
    <3> QED
      BY <3>1, HeaderAlmostDoneGoes
  <2>2. Counts(A(x), E(x)) /\ Counts(A(y), E(y))
    BY <1>2, EndInnerCounts DEF Going, Alike
  <2> HIDE DEF C, E
  <2> QED
    BY <1>2, <2>1, <2>2, BehindCounts
<1>5. Ends(h, F(x), F(y))
  BY SetErrnoEnds
<1>6. Going(h, m, V(x), V(y)) \/ (Ends(h, V(x), V(y)) /\ V(x).ended /\ V(y).ended)
  BY ValueCharGoes
<1> HIDE DEF V
<1>7. Ends(h, D(x, last), D(y, TRUE))
  <2>1. CASE Going(h, m, V(x), V(y))
    <3>1. ~V(x).ended /\ ~V(y).ended
      BY <2>1, SameFields
    <3>2. Going(h, m, I(x), I(y))
      BY <2>1, InnerGoes
    <3> HIDE DEF I
    <3>3. Ends(h, IF last THEN EndInner(I(x)) ELSE I(x), EndInner(I(y)))
      BY <3>2, InnerEnds
    <3> QED
      BY <3>1, <3>3, Zenon
  <2>2. CASE Ends(h, V(x), V(y)) /\ V(x).ended /\ V(y).ended
    BY <2>2
  <2> QED
    BY <1>6, <2>1, <2>2
<1> HIDE DEF D, F, P, R
<1> QED
  BY <1>1, <1>3, <1>4, <1>5, <1>7

\* A line ends, and the next one starts.
LEMMA LineGoes ==
  ASSUME NEW h, NEW x, NEW y, NEW flags, Going(h, {}, x, y)
  PROVE  Going(h, {}, UpdateState(AddFlags(x, flags), "header_field_start"),
                      UpdateState(AddFlags(y, flags), "header_field_start"))
<1> DEFINE A(z) == AddFlags(z, flags)
<1>1. Going(h, {}, A(x), A(y))
  BY FlagsGo
<1> HIDE DEF A
<1>2. Going(h, {}, UpdateState(A(x), "header_field_start"),
                   UpdateState(A(y), "header_field_start"))
  BY <1>1, StateGoes
<1> QED
  BY <1>2 DEF A

LEMMA HeaderValueLwsGoes ==
  ASSUME NEW h, NEW x, NEW y, NEW ch, Going(h, {}, x, y)
  PROVE  Ends(h, HeaderValueLws(x, ch), HeaderValueLws(y, ch))
<1> DEFINE flags == Flag(x.parser.headerState)
           A(z) == UpdateState(AddFlags(z, flags), "header_field_start")
           B(z) == HeaderFieldStart(A(z), ch)
           C(z) == HeaderValueStart(z, ch)
<1>1. y.parser.headerState = x.parser.headerState
  BY SameFields
<1>2. /\ HeaderValueLws(x, ch) = IF IsBlank(ch) THEN C(x) ELSE B(x)
      /\ HeaderValueLws(y, ch) = IF IsBlank(ch) THEN C(y) ELSE B(y)
  BY <1>1, Zenon DEF HeaderValueLws
<1> HIDE DEF flags
<1>3. Going(h, {}, A(x), A(y))
  BY LineGoes
<1> HIDE DEF A
<1>4. Ends(h, B(x), B(y)) /\ Ends(h, C(x), C(y))
  BY <1>3, HeaderFieldStartGoes, HeaderValueStartGoes
<1> HIDE DEF B, C
<1> QED
  BY <1>2, <1>4, Zenon

LEMMA DiscardLwsGoes ==
  ASSUME NEW h, NEW x, NEW y, NEW ch, Going(h, {}, x, y)
  PROVE  Ends(h, DiscardLws(x, ch), DiscardLws(y, ch))
<1> DEFINE flags == Flag(x.parser.headerState)
           A(z) == UpdateState(AddFlags(z, flags), "header_field_start")
           B(z) == Mark(A(z), "header_value")
           C(z) == CallbackData(B(z), "header_value")
           D(z) == HeaderFieldStart(C(z), ch)
           E(z) == UpdateState(z, "header_value_discard_ws")
<1>1. y.parser.headerState = x.parser.headerState
  BY SameFields
<1>2. /\ DiscardLws(x, ch) = IF IsBlank(ch) THEN E(x) ELSE D(x)
      /\ DiscardLws(y, ch) = IF IsBlank(ch) THEN E(y) ELSE D(y)
  BY <1>1, Zenon DEF DiscardLws
<1> HIDE DEF flags
<1>3. Going(h, {}, A(x), A(y))
  BY LineGoes
<1> HIDE DEF A
<1>4. Going(h, {"header_value"}, B(x), B(y))
  BY <1>3, MarkFrom, FieldsAre
<1> HIDE DEF B
<1>5. Going(h, {}, C(x), C(y))
  BY <1>4, CallbackEnds, FieldsAre
<1> HIDE DEF C
<1>6. Ends(h, D(x), D(y)) /\ Ends(h, E(x), E(y))
  BY <1>5, HeaderFieldStartGoes, StateEnds
<1> HIDE DEF D, E
<1> QED
  BY <1>2, <1>6, Zenon

-----------------------------------------------------------------------------
(* The body, in two calls.                                                 *)

\* A body that goes on in the next data is marked with its next unit.
Bodies(h, x, y) ==
  /\ Alike(h, x, y) /\ ~x.ended
  /\ MarksSet(x) \subseteq {"body"} /\ MarksSet(y) \subseteq {"body"}

LEMMA RestsBodies ==
  ASSUME NEW h, NEW x, NEW y, Bodies(h, x, y),
         NEW u, NEW v, Rests(x, u), Rests(y, v), SameParser(u, v)
  PROVE  Bodies(h, u, v)
<1>1. /\ IsTaking(u) /\ MarksSet(u) = MarksSet(x) /\ Taken(u) = Taken(x)
      /\ IsTaking(v) /\ MarksSet(v) = MarksSet(y) /\ Taken(v) = Taken(y)
  BY RestsTakes, Zenon DEF Bodies, Alike
<1>2. u.ended = x.ended /\ v.ended = y.ended
  BY DEF Rests
<1> QED
  BY <1>1, <1>2, Zenon DEF Bodies, Alike

LEMMA CheckBodies ==
  ASSUME NEW h, NEW x, NEW y, Bodies(h, x, y), NEW test, NEW other
  PROVE  /\ Bodies(h, Check(x, test), Check(y, other))
         /\ Check(x, test).parser = x.parser /\ Check(y, other).parser = y.parser
<1>1. IsTaking(x) /\ IsTaking(y) /\ SameParser(x, y)
  BY DEF Bodies, Alike
<1>2. /\ Rests(x, Check(x, test)) /\ Rests(y, Check(y, other))
      /\ SameParser(Check(x, test), Check(y, other))
      /\ Check(x, test).parser = x.parser /\ Check(y, other).parser = y.parser
  BY <1>1 DEF IsTaking, SameParser, Rests, Check, ParserFields
<1> QED
  BY <1>2, RestsBodies

LEMMA StateBodies ==
  ASSUME NEW h, NEW x, NEW y, Bodies(h, x, y), NEW state
  PROVE  Bodies(h, UpdateState(x, state), UpdateState(y, state))
<1>1. IsTaking(x) /\ IsTaking(y) /\ SameParser(x, y)
  BY DEF Bodies, Alike
<1>2. /\ Rests(x, UpdateState(x, state)) /\ Rests(y, UpdateState(y, state))
      /\ SameParser(UpdateState(x, state), UpdateState(y, state))
  BY <1>1 DEF IsTaking, SameParser, Rests, UpdateState, ParserFields
<1> QED
  BY <1>2, RestsBodies

LEMMA BodiesFail ==
  ASSUME NEW h, NEW x, NEW y, Bodies(h, x, y), NEW errno, errno # "OK"
  PROVE  Ends(h, SetErrno(x, errno), SetErrno(y, errno))
<1> DEFINE u == SetErrno(x, errno)
           v == SetErrno(y, errno)
<1>1. /\ IsTaking(x) /\ IsTaking(y) /\ SameParser(x, y)
      /\ IsOne(MarksSet(x)) /\ IsOne(MarksSet(y))
  BY DEF Bodies, Alike
<1>2. /\ u.marks = x.marks /\ u.heard = x.heard /\ u.ended = TRUE
      /\ DOMAIN u = DOMAIN x /\ DOMAIN u.parser = DOMAIN x.parser
      /\ v.marks = y.marks /\ v.heard = y.heard /\ v.ended = TRUE
      /\ DOMAIN v = DOMAIN y /\ DOMAIN v.parser = DOMAIN y.parser
      /\ SameParser(u, v) /\ u.parser.errno = errno
  BY <1>1 DEF IsTaking, SameParser, SetErrno, ParserFields
<1> HIDE DEF u, v
<1>3. MarksSet(u) = MarksSet(x) /\ MarksSet(v) = MarksSet(y)
  BY <1>2 DEF MarksSet
<1>4. IsTaking(u) /\ IsTaking(v)
  BY <1>1, <1>2 DEF IsTaking
<1> QED
  BY <1>1, <1>2, <1>3, <1>4, Zenon DEF Ends, Fails, u, v

LEMMA BodiesMark ==
  ASSUME NEW h, NEW x, NEW y, Bodies(h, x, y)
  PROVE  /\ Going(h, {"body"}, Mark(x, "body"), Mark(y, "body"))
         /\ Mark(x, "body").parser = x.parser /\ Mark(y, "body").parser = y.parser
BY MarkGoes, FieldsAre DEF Bodies

LEMMA BodiesCall ==
  ASSUME NEW h, NEW x, NEW y, Bodies(h, x, y)
  PROVE  Ends(h, CallbackData(x, "body"), CallbackData(y, "body"))
<1>1. Going(h, {}, CallbackData(x, "body"), CallbackData(y, "body"))
  BY CallbackGoes, FieldsAre DEF Bodies
<1> QED
  BY <1>1, GoingEnds

\* A unit of a body is counted down.
LEMMA UnitGoes ==
  ASSUME NEW h, NEW x, NEW y, Bodies(h, x, y), NEW test, NEW other
  PROVE  LET u == [Mark(Check(x, test), "body") EXCEPT !.parser.contentLength = @ - 1]
             v == [Mark(Check(y, other), "body") EXCEPT !.parser.contentLength = @ - 1]
         IN  Going(h, {"body"}, u, v)
<1> DEFINE a == Check(x, test)
           b == Check(y, other)
           c == Mark(a, "body")
           d == Mark(b, "body")
           length == c.parser.contentLength - 1
<1>1. Bodies(h, a, b)
  BY CheckBodies
<1> HIDE DEF a, b
<1>2. Going(h, {"body"}, c, d)
  BY <1>1, BodiesMark
<1> HIDE DEF c, d
<1>3. d.parser.contentLength - 1 = length
  <2>1. c.parser.contentLength = d.parser.contentLength
    BY <1>2, SameFields
  <2> QED
    BY <2>1, Zenon
<1> HIDE DEF length
<1>4. Going(h, {"body"}, [c EXCEPT !.parser.contentLength = length],
                         [d EXCEPT !.parser.contentLength = length])
  BY <1>2, FieldsGo
<1> QED
  BY <1>3, <1>4, Zenon DEF length, a, b, c, d

LEMMA BodyIdentityGoes ==
  ASSUME NEW h, NEW x, NEW y, NEW ch, Bodies(h, x, y)
  PROVE  Ends(h, BodyIdentity(x, ch), BodyIdentity(y, ch))
<1> DEFINE A(z) == [Mark(Check(z, HasLength(z)), "body")
                      EXCEPT !.parser.contentLength = @ - 1]
           B(z) == Advance(A(z), ch)
           C(z) == CallbackData(B(z), "body")
           D(z) == MessageDone(C(z))
<1>1. \A z : BodyIdentity(z, ch) = IF A(z).parser.contentLength = 0 THEN D(z) ELSE A(z)
  BY Zenon DEF BodyIdentity
<1>2. Going(h, {"body"}, A(x), A(y))
  BY UnitGoes
<1> HIDE DEF A
<1>3. Going(h, {"body"}, B(x), B(y))
  BY <1>2, AdvanceGoes
<1> HIDE DEF B
<1>4. Going(h, {}, C(x), C(y))
  BY <1>3, CallbackEnds, FieldsAre
<1> HIDE DEF C
<1>5. Ends(h, D(x), D(y)) /\ Ends(h, A(x), A(y))
  BY <1>2, <1>4, MessageDoneGoes, DoneEnds, GoingEnds
<1>6. A(x).parser.contentLength = A(y).parser.contentLength
  BY <1>2, SameFields
<1> HIDE DEF D
<1> QED
  BY <1>1, <1>5, <1>6

LEMMA ChunkDataGoes ==
  ASSUME NEW h, NEW x, NEW y, NEW ch, Bodies(h, x, y)
  PROVE  Ends(h, ChunkData(x, ch), ChunkData(y, ch))
<1> DEFINE A(z) == [Mark(Check(z, IsChunked(z) /\ HasLength(z)), "body")
                      EXCEPT !.parser.contentLength = @ - 1]
           B(z) == UpdateState(A(z), "chunk_data_almost_done")
<1>1. \A z : ChunkData(z, ch) = IF A(z).parser.contentLength = 0 THEN B(z) ELSE A(z)
  BY Zenon DEF ChunkData
<1>2. Going(h, {"body"}, A(x), A(y))
  BY UnitGoes
<1> HIDE DEF A
<1>3. Ends(h, B(x), B(y)) /\ Ends(h, A(x), A(y))
  BY <1>2, StateEnds, GoingEnds
<1>4. A(x).parser.contentLength = A(y).parser.contentLength
  BY <1>2, SameFields
<1> HIDE DEF B
<1> QED
  BY <1>1, <1>3, <1>4

LEMMA ChunkDataAlmostDoneGoes ==
  ASSUME NEW h, NEW x, NEW y, NEW ch, Bodies(h, x, y)
  PROVE  Ends(h, ChunkDataAlmostDone(x, ch), ChunkDataAlmostDone(y, ch))
<1> DEFINE A(z) == Check(z, IsChunked(z) /\ z.parser.contentLength = 0)
           B(z) == UpdateState(A(z), "chunk_data_done")
           C(z) == CallbackData(B(z), "body")
           F(z) == SetErrno(A(z), "STRICT")
<1>1. \A z : ChunkDataAlmostDone(z, ch) = IF ch # "CR" THEN F(z) ELSE C(z)
  BY Zenon DEF ChunkDataAlmostDone
<1>2. Bodies(h, A(x), A(y))
  BY CheckBodies
<1> HIDE DEF A
<1>3. Bodies(h, B(x), B(y))
  BY <1>2, StateBodies
<1> HIDE DEF B
<1>4. Ends(h, C(x), C(y)) /\ Ends(h, F(x), F(y))
  BY <1>2, <1>3, BodiesCall, BodiesFail
<1> HIDE DEF C, F
<1> QED
  BY <1>1, <1>4

LEMMA ChunkSizeStartGoes ==
  ASSUME NEW h, NEW x, NEW y, NEW ch, Going(h, {}, x, y)
  PROVE  Ends(h, ChunkSizeStart(x, ch), ChunkSizeStart(y, ch))
<1> DEFINE digit == Digit[ch]
           A(z) == Check(z, z.parser.nread = 1 /\ IsChunked(z))
           B(z) == [A(z) EXCEPT !.parser.contentLength = digit]
           C(z) == UpdateState(B(z), "chunk_size")
           F(z) == SetErrno(A(z), "INVALID_CHUNK_SIZE")
<1>1. \A z : ChunkSizeStart(z, ch) = IF ch \notin DOMAIN Digit THEN F(z) ELSE C(z)
  BY Zenon DEF ChunkSizeStart
<1> HIDE DEF digit
<1>2. Going(h, {}, A(x), A(y))
  BY CheckGoes
<1> HIDE DEF A
<1>3. Going(h, {}, B(x), B(y))
  BY <1>2, FieldsGo
<1> HIDE DEF B
<1>4. Ends(h, C(x), C(y)) /\ Ends(h, F(x), F(y))
  BY <1>2, <1>3, StateEnds, SetErrnoEnds
<1> HIDE DEF C, F
<1> QED
  BY <1>1, <1>4

LEMMA ChunkSizeGoes ==
  ASSUME NEW h, NEW x, NEW y, NEW ch, Going(h, {}, x, y)
  PROVE  Ends(h, ChunkSize(x, ch), ChunkSize(y, ch))
<1> DEFINE A(z) == Check(z, IsChunked(z))
           length == Base * A(x).parser.contentLength + Digit[ch]
           large == Overflows(x.parser.contentLength)
           B(z) == UpdateState(A(z), "chunk_size_almost_done")
           C(z) == UpdateState(A(z), "chunk_parameters")
           D(z) == [A(z) EXCEPT !.parser.contentLength = length]
           E(z) == SetErrno(A(z), "INVALID_CONTENT_LENGTH")
           F(z) == SetErrno(A(z), "INVALID_CHUNK_SIZE")
           Result(z) == IF ch = "CR" THEN B(z) ELSE IF ch = "SP" THEN C(z)
                        ELSE IF ch \in DOMAIN Digit THEN IF large THEN E(z) ELSE D(z)
                        ELSE F(z)
<1>1. ASSUME NEW z, A(z).parser.contentLength = A(x).parser.contentLength,
             z.parser.contentLength = x.parser.contentLength
      PROVE  ChunkSize(z, ch) = Result(z)
  <2>1. ch \in DOMAIN Digit => ch \notin {"CR", "SP"}
    BY Digits
  <2>2. D(z) = [A(z) EXCEPT !.parser.contentLength = Base * @ + Digit[ch]]
    <3> HIDE DEF A
    <3> QED
      BY <1>1, Zenon
  <2>3. Overflows(z.parser.contentLength) <=> large
    BY <1>1, Zenon
  <2>4. ChunkSize(z, ch) =
          CASE ch = "CR" -> B(z) [] ch = "SP" -> C(z)
            [] ch \in DOMAIN Digit /\ Overflows(z.parser.contentLength) -> E(z)
            [] ch \in DOMAIN Digit /\ ~ Overflows(z.parser.contentLength) ->
                 [A(z) EXCEPT !.parser.contentLength = Base * @ + Digit[ch]]
            [] OTHER -> F(z)
    BY Zenon DEF ChunkSize
  <2> HIDE DEF A, B, C, D, E, F, length, large
  <2> QED
    BY <2>1, <2>2, <2>3, <2>4
<1>2. Going(h, {}, A(x), A(y))
  BY CheckGoes
<1> HIDE DEF A
<1>3. /\ A(y).parser.contentLength = A(x).parser.contentLength
      /\ y.parser.contentLength = x.parser.contentLength
  BY <1>2, SameFields
<1>4. ChunkSize(x, ch) = Result(x) /\ ChunkSize(y, ch) = Result(y)
  BY <1>1, <1>3, Zenon
<1> HIDE DEF length, large
<1>5. /\ Ends(h, B(x), B(y)) /\ Ends(h, C(x), C(y)) /\ Ends(h, E(x), E(y))
      /\ Ends(h, F(x), F(y))
  BY <1>2, StateEnds, SetErrnoEnds
<1>6. Ends(h, D(x), D(y))
  BY <1>2, FieldsGo, GoingEnds
<1> HIDE DEF B, C, D, E, F
<1> QED
  BY <1>4, <1>5, <1>6, Zenon

LEMMA ChunkParametersGoes ==
  ASSUME NEW h, NEW x, NEW y, NEW ch, Going(h, {}, x, y)
  PROVE  Ends(h, ChunkParameters(x, ch), ChunkParameters(y, ch))
<1> DEFINE A(z) == Check(z, IsChunked(z))
           B(z) == UpdateState(A(z), "chunk_size_almost_done")
<1>1. \A z : ChunkParameters(z, ch) = IF ch = "CR" THEN B(z) ELSE A(z)
  BY Zenon DEF ChunkParameters
<1>2. Going(h, {}, A(x), A(y))
  BY CheckGoes
<1> HIDE DEF A
<1>3. Ends(h, A(x), A(y)) /\ Ends(h, B(x), B(y))
  BY <1>2, GoingEnds, StateEnds
<1> HIDE DEF B
<1> QED
  BY <1>1, <1>3

LEMMA ChunkSizeAlmostDoneGoes ==
  ASSUME NEW h, NEW x, NEW y, NEW ch, Going(h, {}, x, y)
  PROVE  Ends(h, ChunkSizeAlmostDone(x, ch), ChunkSizeAlmostDone(y, ch))
<1> DEFINE A(z) == Check(z, IsChunked(z))
           B(z) == [A(z) EXCEPT !.parser.nread = 0]
           r(z) == SetChunked(A(z).request)
           C(z) == [B(z) EXCEPT !.request = r(z)]
           D(z) == AddFlags(C(z), {"trailing"})
           E(z) == UpdateState(D(z), "header_field_start")
           G(z) == UpdateState(C(z), "chunk_data")
           F(z) == SetErrno(z, "STRICT")
           Result(z) == IF ch # "LF" THEN F(z)
                        ELSE IF z.parser.contentLength = 0 THEN E(z) ELSE G(z)
<1>1. Going(h, {}, A(x), A(y))
  BY CheckGoes
<1>2. ASSUME NEW z, IsTaking(A(z)) PROVE ChunkSizeAlmostDone(z, ch) = Result(z)
  <2>1. C(z) = [A(z) EXCEPT !.parser.nread = 0, !.request = SetChunked(@)]
    <3> HIDE DEF A
    <3> QED
      BY <1>2 DEF IsTaking
  <2> HIDE DEF C
  <2> QED
    BY <2>1 DEF ChunkSizeAlmostDone
<1>3. IsTaking(A(x)) /\ IsTaking(A(y))
  BY <1>1, Zenon DEF Going, Alike
<1>4. ChunkSizeAlmostDone(x, ch) = Result(x) /\ ChunkSizeAlmostDone(y, ch) = Result(y)
  BY <1>2, <1>3, Zenon
<1> HIDE DEF A, r
<1>5. Going(h, {}, B(x), B(y))
  BY <1>1, FieldsGo
<1> HIDE DEF B
<1>6. Going(h, {}, C(x), C(y))
  BY <1>5, RequestGoes
<1> HIDE DEF C
<1>7. Going(h, {}, D(x), D(y))
  BY <1>6, FlagsGo
<1> HIDE DEF D
<1>8. Ends(h, E(x), E(y)) /\ Ends(h, G(x), G(y)) /\ Ends(h, F(x), F(y))
  BY <1>6, <1>7, StateEnds, SetErrnoEnds
<1>9. y.parser.contentLength = x.parser.contentLength
  BY SameFields
<1> HIDE DEF E, F, G
<1> QED
  BY <1>4, <1>8, <1>9

LEMMA ChunkDataDoneGoes ==
  ASSUME NEW h, NEW x, NEW y, NEW ch, Going(h, {}, x, y)
  PROVE  Ends(h, ChunkDataDone(x, ch), ChunkDataDone(y, ch))
<1> DEFINE A(z) == Check(z, IsChunked(z))
           B(z) == [A(z) EXCEPT !.parser.nread = 0]
           C(z) == UpdateState(B(z), "chunk_size_start")
           F(z) == SetErrno(A(z), "STRICT")
<1>1. \A z : ChunkDataDone(z, ch) = IF ch # "LF" THEN F(z) ELSE C(z)
  BY Zenon DEF ChunkDataDone
<1>2. Going(h, {}, A(x), A(y))
  BY CheckGoes
<1> HIDE DEF A
<1>3. Going(h, {}, B(x), B(y))
  BY <1>2, FieldsGo
<1> HIDE DEF B
<1>4. Ends(h, C(x), C(y)) /\ Ends(h, F(x), F(y))
  BY <1>2, <1>3, StateEnds, SetErrnoEnds
<1> HIDE DEF C, F
<1> QED
  BY <1>1, <1>4

-----------------------------------------------------------------------------
(* A round, in two calls.                                                  *)

CutStates == {"body_identity", "chunk_data", "chunk_data_almost_done"}

\* Which strings are under way is for the state to say, but for a body.
LEMMA WhatGoes ==
  ASSUME NEW h, NEW x, NEW y, NEW n, NEW k, IsGoing(x, n), IsGoing(y, k),
         Alike(h, x, y)
  PROVE  /\ x.parser.state = y.parser.state
         /\ x.parser.state \in CutStates => Bodies(h, x, y)
         /\ x.parser.state \in UrlStates => Going(h, {"url"}, x, y)
         /\ x.parser.state = "header_field" => Going(h, {"header_field"}, x, y)
         /\ x.parser.state = "header_value" => Going(h, {"header_value"}, x, y)
         /\ x.parser.state \notin CutStates \cup StringStates => Going(h, {}, x, y)
<1> DEFINE s == x.parser.state
<1>1. y.parser.state = s /\ ~x.ended /\ ~y.ended
  BY GoingIs DEF Alike, SameParser, ParserFields
<1>2. /\ s \in CutStates => s \in MarkStates["body"]
      /\ s \in UrlStates => s \in MarkStates["url"]
      /\ s = "header_field" => s \in MarkStates["header_field"]
      /\ s = "header_value" => s \in MarkStates["header_value"]
  BY DEF MarkStates, CutStates
<1>3. /\ s \in CutStates => MarksSet(x) \subseteq {"body"} /\ MarksSet(y) \subseteq {"body"}
      /\ s \in UrlStates => MarksSet(x) = {"url"} /\ MarksSet(y) = {"url"}
      /\ s = "header_field" =>
           MarksSet(x) = {"header_field"} /\ MarksSet(y) = {"header_field"}
      /\ s = "header_value" =>
           MarksSet(x) = {"header_value"} /\ MarksSet(y) = {"header_value"}
  BY <1>1, <1>2, OnlyMark, FieldsAre
<1>4. s \notin CutStates \cup StringStates => MarksSet(x) = {} /\ MarksSet(y) = {}
  BY <1>1, NoMarks DEF CutStates, StringStates
<1> QED
  BY <1>1, <1>3, <1>4 DEF Bodies, Going

LEMMA SomeGoes ==
  ASSUME NEW h, NEW x, NEW y, NEW n, NEW k, IsGoing(x, n), IsGoing(y, k),
         Alike(h, x, y), x.parser.state \notin CutStates
  PROVE  \E m : Going(h, m, x, y)
BY WhatGoes DEF StringStates

LEMMA PlainSwitchGoes ==
  ASSUME NEW h, NEW x, NEW y, NEW ch, NEW last, Going(h, {}, x, y),
         x.parser.state \in {"dead", "req_http_start", "req_first_http_major",
                             "req_first_http_minor"}
  PROVE  Ends(h, Switch(x, ch, last), Switch(y, ch, TRUE))
<1> USE DEF UrlStates, UrlBegin, UrlEnd, Query, Fragment, Expected
<1>1. x.parser.state = y.parser.state
  BY SameFields
<1>2. Ends(h, x, y)
  BY GoingEnds
<1>3. CASE x.parser.state = "dead"
  <2> DEFINE F(z) == SetErrno(z, "CLOSED_CONNECTION")
  <2>1. /\ Switch(x, ch, last) = IF ch \in {"CR", "LF"} THEN x ELSE F(x)
        /\ Switch(y, ch, TRUE) = IF ch \in {"CR", "LF"} THEN y ELSE F(y)
    BY <1>1, <1>3 DEF Switch
  <2>2. Ends(h, F(x), F(y))
    BY SetErrnoEnds
  <2> HIDE DEF F
  <2> QED
    BY <1>2, <2>1, <2>2
<1>4. CASE x.parser.state = "req_http_start"
  <2> DEFINE A(z) == UpdateState(z, "req_first_http_major")
             F(z) == SetErrno(z, "INVALID_CONSTANT")
             Result(z) == IF ch = "SP" THEN z ELSE IF ch = "HTTP/" THEN A(z) ELSE F(z)
  <2>1. Switch(x, ch, last) = Result(x) /\ Switch(y, ch, TRUE) = Result(y)
    BY <1>1, <1>4 DEF Switch
  <2>2. Ends(h, F(x), F(y)) /\ Ends(h, A(x), A(y))
    BY SetErrnoEnds, StateEnds
  <2> HIDE DEF A, F
  <2> QED
    BY <1>2, <2>1, <2>2
<1>5. CASE x.parser.state = "req_first_http_major"
  <2> DEFINE A(z) == FirstDigit(z, "httpMajor", ch, 1, "req_http_major")
  <2>1. Switch(x, ch, last) = A(x) /\ Switch(y, ch, TRUE) = A(y)
    BY <1>1, <1>5 DEF Switch
  <2>2. Ends(h, A(x), A(y))
    BY FirstDigitGoes DEF ParserFields
  <2> QED
    BY <2>1, <2>2
<1>6. CASE x.parser.state = "req_first_http_minor"
  <2> DEFINE A(z) == FirstDigit(z, "httpMinor", ch, 0, "req_http_minor")
  <2>1. Switch(x, ch, last) = A(x) /\ Switch(y, ch, TRUE) = A(y)
    BY <1>1, <1>6 DEF Switch
  <2>2. Ends(h, A(x), A(y))
    BY FirstDigitGoes DEF ParserFields
  <2> QED
    BY <2>1, <2>2
<1> QED
  BY <1>3, <1>4, <1>5, <1>6

LEMMA SwitchGoes ==
  ASSUME NEW h, NEW x, NEW y, NEW n, NEW k, NEW ch, NEW last,
         IsGoing(x, n), IsGoing(y, k), Alike(h, x, y),
         ch = "CTL" => (x.skips <=> y.skips)
  PROVE  Ends(h, Switch(x, ch, last), Switch(y, ch, TRUE))
<1> DEFINE s == x.parser.state
           Inline == {"dead", "req_http_start", "req_first_http_major",
                      "req_first_http_minor"}
           RequestStates == {"start_req", "req_method", "req_spaces_before_url",
                             "req_http_major", "req_http_minor"}
           Header == {"header_field_start", "header_value_discard_ws",
                      "header_value_discard_lws", "header_almost_done",
                      "header_value_lws", "headers_almost_done"}
           Chunk == ChunkStates \ CutStates
<1> USE DEF UrlStates, UrlBegin, UrlEnd, Query, Fragment, Expected
<1>1. s \in States
  BY DEF IsGoing, IsParsing
<1>2. y.parser.state = s
  BY WhatGoes
<1>3. CASE s \notin CutStates \cup StringStates
  <2>1. Going(h, {}, x, y)
    BY <1>3, WhatGoes
  <2>2. CASE s \in Inline
    BY <2>1, <2>2, PlainSwitchGoes
  <2>3. CASE s \in DOMAIN Expected
    <3>1. Switch(x, ch, last) = Expect(x, ch) /\ Switch(y, ch, TRUE) = Expect(y, ch)
      BY <1>2, <2>3 DEF Switch
    <3> QED
      BY <2>1, <2>3, <3>1, ExpectGoes
  <2>4. CASE s \in RequestStates
    <3>1. ASSUME NEW z, NEW l, z.parser.state = s
          PROVE  /\ s = "start_req" => Switch(z, ch, l) = StartReq(z, ch)
                 /\ s = "req_method" => Switch(z, ch, l) = ReqMethod(z, ch)
                 /\ s = "req_spaces_before_url" =>
                      Switch(z, ch, l) = SpacesBeforeUrl(z, ch)
                 /\ s = "req_http_major" => Switch(z, ch, l) = HttpMajor(z, ch)
                 /\ s = "req_http_minor" => Switch(z, ch, l) = HttpMinor(z, ch)
      <4> HIDE DEF s
      <4> QED
        BY <3>1 DEF Switch
    <3>2. /\ Ends(h, StartReq(x, ch), StartReq(y, ch))
          /\ Ends(h, ReqMethod(x, ch), ReqMethod(y, ch))
          /\ Ends(h, SpacesBeforeUrl(x, ch), SpacesBeforeUrl(y, ch))
          /\ Ends(h, HttpMajor(x, ch), HttpMajor(y, ch))
          /\ Ends(h, HttpMinor(x, ch), HttpMinor(y, ch))
      BY <2>1, StartReqGoes, ReqMethodGoes, SpacesBeforeUrlGoes, VersionGoes
    <3> QED
      BY <1>2, <2>4, <3>1, <3>2
  <2>5. CASE s \in Header
    <3>1. ASSUME NEW z, NEW l, z.parser.state = s
          PROVE  /\ s = "header_field_start" => Switch(z, ch, l) = HeaderFieldStart(z, ch)
                 /\ s = "header_value_discard_ws" => Switch(z, ch, l) = DiscardWs(z, ch)
                 /\ s = "header_value_discard_lws" => Switch(z, ch, l) = DiscardLws(z, ch)
                 /\ s = "header_almost_done" => Switch(z, ch, l) = HeaderAlmostDone(z, ch)
                 /\ s = "header_value_lws" => Switch(z, ch, l) = HeaderValueLws(z, ch)
                 /\ s = "headers_almost_done" =>
                      Switch(z, ch, l) = HeadersAlmostDone(z, ch)
      <4> HIDE DEF s
      <4> QED
        BY <3>1 DEF Switch
    <3>2. Ends(h, HeadersAlmostDone(x, ch), HeadersAlmostDone(y, ch))
      BY <2>1, HeadersAlmostDoneGoes, DoneEnds
    <3>3. /\ Ends(h, HeaderFieldStart(x, ch), HeaderFieldStart(y, ch))
          /\ Ends(h, DiscardWs(x, ch), DiscardWs(y, ch))
          /\ Ends(h, DiscardLws(x, ch), DiscardLws(y, ch))
          /\ Ends(h, HeaderAlmostDone(x, ch), HeaderAlmostDone(y, ch))
          /\ Ends(h, HeaderValueLws(x, ch), HeaderValueLws(y, ch))
      BY <2>1, HeaderFieldStartGoes, DiscardWsGoes, DiscardLwsGoes,
         HeaderAlmostDoneGoes, HeaderValueLwsGoes
    <3> QED
      BY <1>2, <2>5, <3>1, <3>2, <3>3
  <2>6. CASE s \in Chunk
    <3>1. ASSUME NEW z, NEW l, z.parser.state = s
          PROVE  /\ s = "chunk_size_start" => Switch(z, ch, l) = ChunkSizeStart(z, ch)
                 /\ s = "chunk_size" => Switch(z, ch, l) = ChunkSize(z, ch)
                 /\ s = "chunk_parameters" => Switch(z, ch, l) = ChunkParameters(z, ch)
                 /\ s = "chunk_size_almost_done" =>
                      Switch(z, ch, l) = ChunkSizeAlmostDone(z, ch)
                 /\ s = "chunk_data_done" => Switch(z, ch, l) = ChunkDataDone(z, ch)
      <4> HIDE DEF s
      <4> QED
        BY <3>1 DEF Switch
    <3>2. /\ Ends(h, ChunkSizeStart(x, ch), ChunkSizeStart(y, ch))
          /\ Ends(h, ChunkSize(x, ch), ChunkSize(y, ch))
          /\ Ends(h, ChunkParameters(x, ch), ChunkParameters(y, ch))
          /\ Ends(h, ChunkSizeAlmostDone(x, ch), ChunkSizeAlmostDone(y, ch))
          /\ Ends(h, ChunkDataDone(x, ch), ChunkDataDone(y, ch))
      BY <2>1, ChunkSizeStartGoes, ChunkSizeGoes, ChunkParametersGoes,
         ChunkSizeAlmostDoneGoes, ChunkDataDoneGoes
    <3> QED
      BY <1>2, <2>6, <3>1, <3>2 DEF ChunkStates, CutStates
  <2> QED
    BY <1>1, <1>3, <2>2, <2>3, <2>4, <2>5, <2>6
       DEF States, ChunkStates, CutStates, StringStates
<1>4. CASE s \in UrlStates
  <2>1. Switch(x, ch, last) = Url(x, ch) /\ Switch(y, ch, TRUE) = Url(y, ch)
    BY <1>2, <1>4 DEF Switch
  <2>2. Going(h, {"url"}, x, y)
    BY <1>4, WhatGoes
  <2> QED
    BY <2>1, <2>2, UrlGoes
<1>5. CASE s = "header_field"
  <2>1. /\ Switch(x, ch, last) = HeaderField(x, ch, last)
        /\ Switch(y, ch, TRUE) = HeaderField(y, ch, TRUE)
    BY <1>2, <1>5 DEF Switch
  <2>2. Going(h, {"header_field"}, x, y)
    BY <1>5, WhatGoes
  <2> QED
    BY <2>1, <2>2, HeaderFieldGoes
<1>6. CASE s = "header_value"
  <2>1. /\ Switch(x, ch, last) = HeaderValue(x, ch, last)
        /\ Switch(y, ch, TRUE) = HeaderValue(y, ch, TRUE)
    BY <1>2, <1>6 DEF Switch
  <2>2. Going(h, {"header_value"}, x, y)
    BY <1>6, WhatGoes
  <2> QED
    BY <2>1, <2>2, HeaderValueGoes
<1>7. CASE s \in CutStates
  <2>1. \/ /\ Switch(x, ch, last) = BodyIdentity(x, ch)
           /\ Switch(y, ch, TRUE) = BodyIdentity(y, ch)
        \/ /\ Switch(x, ch, last) = ChunkData(x, ch)
           /\ Switch(y, ch, TRUE) = ChunkData(y, ch)
        \/ /\ Switch(x, ch, last) = ChunkDataAlmostDone(x, ch)
           /\ Switch(y, ch, TRUE) = ChunkDataAlmostDone(y, ch)
    BY <1>2, <1>7 DEF Switch, CutStates
  <2>2. Bodies(h, x, y)
    BY <1>7, WhatGoes
  <2> QED
    BY <2>1, <2>2, BodyIdentityGoes, ChunkDataGoes, ChunkDataAlmostDoneGoes
<1> QED
  BY <1>3, <1>4, <1>5, <1>6, <1>7 DEF StringStates

LEMMA MarksAreOne ==
  ASSUME NEW x, NEW n, IsGoing(x, n)
  PROVE  IsOne(MarksSet(x))
<1>1. CASE MarksSet(x) = {}
  BY <1>1 DEF IsOne
<1>2. CASE MarksSet(x) # {}
  <2>1. PICK name : name \in MarksSet(x)
    BY <1>2
  <2>2. name \in DOMAIN MarkStates /\ x.parser.state \in MarkStates[name]
    BY <2>1, GoingIs DEF AreMarks, MarksSet, IsExec
  <2>3. MarksSet(x) = {name}
    BY <2>1, <2>2, OnlyMark
  <2> QED
    BY <2>2, <2>3 DEF IsOne
<1> QED
  BY <1>1, <1>2

\* A round counts its unit, but for the units of a body and for those that a
\* loop over a name or a value will count at its end.
CountUnit(x) ==
  IF ParsingHeader(x.parser.state) /\ x.inner = 0 THEN CountHeaderSize(x, 1) ELSE x

LEMMA CountTakes ==
  ASSUME NEW x, IsGoing(x, 0), IsTaking(x)
  PROVE  LET y == CountUnit(x)
         IN  /\ Counts(x, y) /\ y.skips = x.skips
             /\ ~y.ended => \E n : IsGoing(y, n)
<1> DEFINE counted == CountHeaderSize(x, 1)
<1>1. Counts(x, counted) /\ counted.skips = x.skips
  BY SizeCounts
<1>2. Counts(x, x)
  BY RestsCounts DEF Rests, SameParser
<1>3. counted.ended \/ IsGoing(counted, 1)
  BY CountedIsGoing
<1> HIDE DEF counted
<1>4. CountUnit(x) = counted \/ CountUnit(x) = x
  BY DEF CountUnit, counted
<1> QED
  BY <1>1, <1>2, <1>3, <1>4

\* What a round takes is a text.
LEMMA RoundTakes ==
  ASSUME NEW x, NEW ch, NEW last, IsGoing(x, 0), IsTaking(x)
  PROVE  LET y == Round(x, ch, last) IN IsTaking(y) /\ IsOne(MarksSet(y))
<1> DEFINE c == CountUnit(x)
           z == Switch(c, ch, last)
           y == Advance(z, ch)
<1>1. Round(x, ch, last) = IF c.ended THEN c ELSE y
  BY GoingIs DEF Round, CountUnit
<1>2. Counts(x, c) /\ (~c.ended => \E n : IsGoing(c, n))
  BY CountTakes
<1> HIDE DEF c
<1>3. IsTaking(c) /\ IsOne(MarksSet(c))
  BY <1>2, MarksAreOne DEF Counts
<1>4. ASSUME NEW n, IsGoing(c, n) PROVE IsTaking(y) /\ IsOne(MarksSet(y))
  <2> DEFINE v == Switch(c, ch, TRUE)
             w == Advance(v, ch)
  <2>1. Ends(<< >>, z, v)
    BY <1>3, <1>4, SelfAlike, SwitchGoes
  <2> HIDE DEF z, v
  <2>2. Ends(<< >>, y, w)
    BY <2>1, AdvanceEnds
  <2> QED
    BY <2>2 DEF Ends
<1> QED
  BY <1>1, <1>2, <1>3, <1>4

LEMMA RoundGoes ==
  ASSUME NEW h, NEW x, NEW y, NEW ch, NEW last,
         IsGoing(x, 0), IsGoing(y, 0), Alike(h, x, y),
         ch = "CTL" => (x.skips <=> y.skips)
  PROVE  Ends(h, Round(x, ch, last), Round(y, ch, TRUE))
<1> DEFINE c(z) == CountUnit(z)
           R(z, l) == IF c(z).ended THEN c(z) ELSE Advance(Switch(c(z), ch, l), ch)
           u == R(x, last)
           v == R(y, TRUE)
<1>1. Round(x, ch, last) = u /\ Round(y, ch, TRUE) = v
  BY GoingIs DEF Round, CountUnit
<1>2. IsTaking(x) /\ IsTaking(y)
  BY DEF Alike
<1>3. IsTaking(u) /\ IsOne(MarksSet(u)) /\ IsTaking(v) /\ IsOne(MarksSet(v))
  BY <1>1, <1>2, RoundTakes
<1>4. /\ Counts(x, c(x)) /\ c(x).skips = x.skips
      /\ ~c(x).ended => \E n : IsGoing(c(x), n)
      /\ Counts(y, c(y)) /\ c(y).skips = y.skips
      /\ ~c(y).ended => \E n : IsGoing(c(y), n)
  BY <1>2, CountTakes
<1>5. \/ /\ Alike(h, c(x), c(y)) /\ ~c(x).ended /\ ~c(y).ended
         /\ \E n : IsGoing(c(x), n)
         /\ \E n : IsGoing(c(y), n)
      \/ c(x).ended /\ ~HasRoom(c(x))
      \/ c(y).ended /\ ~HasRoom(c(y))
  <2>1. CASE x.parser.state \notin CutStates
    <3>1. PICK m : Going(h, m, x, y)
      BY <2>1, SomeGoes
    <3> HIDE DEF c
    <3>2. /\ ~c(x).ended /\ ~c(y).ended => Going(h, m, c(x), c(y))
          /\ c(x).ended => ~HasRoom(c(x))
          /\ c(y).ended => ~HasRoom(c(y))
      BY <1>4, <3>1, CountsGo
    <3> QED
      BY <1>4, <3>2 DEF Going
  <2>2. CASE x.parser.state \in CutStates
    <3>1. y.parser.state = x.parser.state
      BY WhatGoes
    <3>2. c(x) = x /\ c(y) = y
      BY <2>2, <3>1 DEF CountUnit, ParsingHeader, BodyStates, CutStates
    <3> QED
      BY <3>2, GoingIs
  <2> QED
    BY <2>1, <2>2
<1> HIDE DEF c
<1>6. CASE c(x).ended /\ ~HasRoom(c(x))
  BY <1>1, <1>3, <1>6 DEF Ends
<1>7. CASE c(y).ended /\ ~HasRoom(c(y))
  BY <1>1, <1>3, <1>7 DEF Ends
<1>8. CASE /\ Alike(h, c(x), c(y)) /\ ~c(x).ended /\ ~c(y).ended
           /\ \E n : IsGoing(c(x), n)
           /\ \E n : IsGoing(c(y), n)
  <2> DEFINE a == Switch(c(x), ch, last)
             b == Switch(c(y), ch, TRUE)
  <2>1. ch = "CTL" => (c(x).skips <=> c(y).skips)
    BY <1>4
  <2>2. Ends(h, a, b)
    BY <1>8, <2>1, SwitchGoes
  <2>3. u = Advance(a, ch) /\ v = Advance(b, ch)
    BY <1>8
  <2> HIDE DEF a, b, u, v
  <2>4. Ends(h, u, v)
    BY <2>2, <2>3, AdvanceEnds
  <2> QED
    BY <1>1, <2>4
<1> QED
  BY <1>5, <1>6, <1>7, <1>8

\* The string that is left is given to its callback.
LEMMA LeftoverTakes ==
  ASSUME NEW x, IsTaking(x), IsOne(MarksSet(x))
  PROVE  LET y == Leftover(x)
         IN  /\ IsTaking(y) /\ y.parser = x.parser /\ MarksSet(y) = {}
             /\ y.heard = Taken(x)
<1> DEFINE a == Check(x, Cardinality(MarksSet(x)) <= 1)
           b == CallbackData(a, "header_field")
           c == CallbackData(b, "header_value")
           d == CallbackData(c, "url")
           e == CallbackData(d, "body")
<1>1. Leftover(x) = e
  BY DEF Leftover
<1>2. /\ IsTaking(a) /\ MarksSet(a) = MarksSet(x) /\ Taken(a) = Taken(x)
      /\ a.parser = x.parser
  <2>1. Rests(x, a) /\ a.parser = x.parser
    BY DEF IsTaking, Rests, Check
  <2> QED
    BY <2>1, RestsTakes
<1> HIDE DEF a
<1>3. ASSUME NEW z, NEW name \in DOMAIN MarkStates, IsTaking(z), IsOne(MarksSet(z))
      PROVE  LET r == CallbackData(z, name)
             IN  /\ IsTaking(r) /\ MarksSet(r) = MarksSet(z) \ {name}
                 /\ Taken(r) = Taken(z) /\ r.parser = z.parser /\ IsOne(MarksSet(r))
  <2> DEFINE r == CallbackData(z, name)
  <2>1. /\ IsTaking(r) /\ MarksSet(r) = MarksSet(z) \ {name}
        /\ Taken(r) = Taken(z) /\ r.parser = z.parser
    BY <1>3, CallbackTakes
  <2> HIDE DEF r
  <2>2. IsOne(MarksSet(r))
    BY <1>3, <2>1 DEF IsOne
  <2> QED
    BY <2>1, <2>2 DEF r
<1>4. /\ IsTaking(b) /\ MarksSet(b) = MarksSet(a) \ {"header_field"}
      /\ Taken(b) = Taken(a) /\ b.parser = a.parser /\ IsOne(MarksSet(b))
  BY <1>2, <1>3, FieldsAre
<1> HIDE DEF b
<1>5. /\ IsTaking(c) /\ MarksSet(c) = MarksSet(b) \ {"header_value"}
      /\ Taken(c) = Taken(b) /\ c.parser = b.parser /\ IsOne(MarksSet(c))
  BY <1>3, <1>4, FieldsAre
<1> HIDE DEF c
<1>6. /\ IsTaking(d) /\ MarksSet(d) = MarksSet(c) \ {"url"}
      /\ Taken(d) = Taken(c) /\ d.parser = c.parser /\ IsOne(MarksSet(d))
  BY <1>3, <1>5, FieldsAre
<1> HIDE DEF d
<1>7. /\ IsTaking(e) /\ MarksSet(e) = MarksSet(d) \ {"body"}
      /\ Taken(e) = Taken(d) /\ e.parser = d.parser
  BY <1>6, CallbackTakes, FieldsAre
<1> HIDE DEF e
<1>8. MarksSet(x) \subseteq {"url", "header_field", "header_value", "body"}
  BY FieldsAre DEF MarksSet, IsTaking
<1>9. MarksSet(e) = {}
  BY <1>2, <1>4, <1>5, <1>6, <1>7, <1>8
<1>10. e.heard = Taken(x)
  BY <1>2, <1>4, <1>5, <1>6, <1>7, <1>9, TakenIs
<1> QED
  BY <1>1, <1>2, <1>4, <1>5, <1>6, <1>7, <1>9, <1>10

LEMMA EndOfDataTakes ==
  ASSUME NEW x, IsTaking(x), IsOne(MarksSet(x))
  PROVE  LET y == EndOfData(x)
         IN  /\ IsTaking(y) /\ y.parser = x.parser
             /\ ~x.ended \/ MarksSet(x) = {} => y.heard = Taken(x)
<1>1. CASE x.ended
  BY <1>1, TakenIs DEF EndOfData
<1>2. CASE ~x.ended
  BY <1>2, LeftoverTakes DEF EndOfData
<1> QED
  BY <1>1, <1>2

-----------------------------------------------------------------------------
(* The exchange, in two calls.                                             *)

LEMMA StartMarks ==
  ASSUME NEW state
  PROVE  LET marks == MarksAtStart(state)
         IN  /\ DOMAIN marks = DOMAIN MarkStates
             /\ \A name \in DOMAIN MarkStates :
                  /\ DOMAIN marks[name] = {"set", "text"}
                  /\ marks[name].set \in BOOLEAN /\ marks[name].text = << >>
                  /\ IsText(marks[name].text)
<1>1. IsText(<< >>)
  BY PairIsText, Zenon
<1>2. /\ DOMAIN Marked = {"set", "text"} /\ Marked.set \in BOOLEAN
      /\ DOMAIN Unset = {"set", "text"} /\ Unset.set \in BOOLEAN
      /\ Marked.text = << >> /\ Unset.text = << >>
  BY DEF Marked, Unset
<1> DEFINE marks == MarksAtStart(state)
<1>3. /\ DOMAIN marks = DOMAIN MarkStates
      /\ \A name \in DOMAIN MarkStates : marks[name] \in {Marked, Unset}
  BY FieldsAre DEF MarksAtStart
<1> HIDE DEF marks
<1> QED
  BY <1>1, <1>2, <1>3 DEF marks

\* A call begins with nothing taken.
LEMMA BeginTakes ==
  ASSUME NEW x, IsTaking(x)
  PROVE  LET y == Begin(x)
         IN  /\ IsTaking(y) /\ y.parser = x.parser /\ y.heard = x.heard
             /\ y.ended <=> x.parser.errno # "OK"
             /\ y.ended \in BOOLEAN /\ ~y.skips
             /\ IsOne(MarksSet(y)) => Taken(y) = x.heard
<1> DEFINE marks == MarksAtStart(x.parser.state)
           y == Begin(x)
<1>1. /\ DOMAIN marks = DOMAIN MarkStates
      /\ \A name \in DOMAIN MarkStates :
           /\ DOMAIN marks[name] = {"set", "text"}
           /\ marks[name].set \in BOOLEAN /\ marks[name].text = << >>
           /\ IsText(marks[name].text)
  BY StartMarks
<1>2. y = [x EXCEPT !.marks = marks, !.inner = 0, !.skips = FALSE,
                    !.ended = x.parser.errno # "OK"]
  BY DEF Begin
<1> HIDE DEF marks, y
<1>3. /\ y.parser = x.parser /\ y.heard = x.heard /\ y.marks = marks
      /\ DOMAIN y = DOMAIN x
      /\ y.ended <=> x.parser.errno # "OK"
      /\ y.ended \in BOOLEAN /\ ~y.skips
  BY <1>2 DEF IsTaking
<1>4. IsTaking(y)
  BY <1>1, <1>3 DEF IsTaking
<1>5. ASSUME IsOne(MarksSet(y)) PROVE Taken(y) = x.heard
  <2>1. CASE MarksSet(y) = {}
    BY <1>3, <2>1, TakenIs
  <2>2. ASSUME NEW name \in DOMAIN MarkStates, MarksSet(y) = {name}
        PROVE  Taken(y) = x.heard
    <3>1. Taken(y) = x.heard \o Tag(name, << >>)
      <4>1. y.marks[name].text = << >>
        BY <1>1, <1>3
      <4>2. Taken(y) = y.heard \o Tag(name, y.marks[name].text)
        BY <2>2, TakenIs
      <4> QED
        BY <1>3, <4>1, <4>2
    <3>2. IsText(x.heard) /\ IsText(<< >>)
      BY PairIsText, Zenon DEF IsTaking
    <3>3. Tag(name, << >>) = << >>
      BY <3>2, TagIs
    <3> QED
      BY <3>1, <3>2, <3>3, JoinNothing
  <2> QED
    BY <1>5, <2>1, <2>2 DEF IsOne
<1> QED
  BY <1>3, <1>4, <1>5 DEF y

TakingInv == ParserInv /\ IsTaking(exec)

LEMMA FreshTakes ==
  ASSUME NEW x, NEW state,
         DOMAIN x = {"parser", "request", "marks", "inner", "skips", "heard", "ended",
                     "asserted"},
         DOMAIN x.parser = ParserFields, x.marks = MarksAtStart(state), IsText(x.heard)
  PROVE  IsTaking(x)
<1> DEFINE marks == MarksAtStart(state)
<1>1. /\ DOMAIN marks = DOMAIN MarkStates
      /\ \A name \in DOMAIN MarkStates :
           /\ DOMAIN marks[name] = {"set", "text"} /\ marks[name].set \in BOOLEAN
           /\ IsText(marks[name].text)
  BY StartMarks
<1> HIDE DEF marks
<1>2. x.marks = marks
  BY DEF marks
<1> QED
  BY <1>1, <1>2 DEF IsTaking

LEMMA TakingStarts == Init => IsTaking(exec)
<1> SUFFICES ASSUME Init PROVE IsTaking(exec)
  OBVIOUS
<1>1. /\ exec.parser = NewParser /\ exec.marks = MarksAtStart("start_req")
      /\ exec.heard = << >>
      /\ DOMAIN exec = {"parser", "request", "marks", "inner", "skips", "heard",
                        "ended", "asserted"}
  BY DEF Init
<1>2. IsText(exec.heard)
  BY <1>1, PairIsText, Zenon
<1>3. DOMAIN exec.parser = ParserFields
  BY <1>1, FieldsAre
<1> QED
  BY <1>1, <1>2, <1>3, FreshTakes

LEMMA TakingHolds == TakingInv /\ [Next]_vars => IsTaking(exec)'
<1> SUFFICES ASSUME TakingInv, [Next]_vars PROVE IsTaking(exec')
  OBVIOUS
<1>1. IsTaking(exec)
  BY DEF TakingInv
<1>2. ASSUME IsResult(exec), NEW ch, NEW last
      PROVE  LET y == Round(exec, ch, last)
             IN  IsTaking(y) /\ (IsOne(MarksSet(y)) \/ y.ended)
  <2>1. CASE exec.ended
    BY <1>1, <2>1 DEF Round
  <2>2. CASE ~exec.ended
    <3>1. IsGoing(exec, 0)
      BY <1>2, <2>2 DEF IsResult, IsGoing
    <3> QED
      BY <1>1, <3>1, RoundTakes
  <2> QED
    BY <2>1, <2>2
<1>3. ASSUME Start PROVE IsTaking(exec')
  <2> DEFINE r == Clear(exec.request)
  <2>1. exec' = [exec EXCEPT !.parser = NewParser, !.request = r, !.heard = << >>]
    BY <1>3 DEF Start
  <2>2. IsText(<< >>)
    BY PairIsText, Zenon
  <2> HIDE DEF r
  <2>3. /\ DOMAIN exec' = DOMAIN exec /\ exec'.parser = NewParser
        /\ exec'.marks = exec.marks /\ exec'.heard = << >>
    BY <1>1, <2>1 DEF IsTaking
  <2> QED
    BY <1>1, <2>2, <2>3, FieldsAre DEF IsTaking
<1>4. ASSUME Receive PROVE IsTaking(exec')
  BY <1>1, <1>4, BeginTakes DEF Receive
<1>5. ASSUME Parse PROVE IsTaking(exec')
  BY <1>2, <1>5, ParserInvIs DEF Parse, TakingInv
<1>6. ASSUME ParseLast PROVE IsTaking(exec')
  <2> DEFINE z == Round(exec, stream[got + 1], TRUE)
             x == EndOfData(z)
             y == [x EXCEPT !.marks = MarksAtStart("start_req"), !.inner = 0,
                            !.skips = FALSE, !.ended = FALSE]
  <2>1. pc = "execute" /\ exec' = y
    BY <1>6 DEF ParseLast
  <2>2. IsTaking(z) /\ (IsOne(MarksSet(z)) \/ z.ended)
    BY <1>2, <2>1, ParserInvIs DEF TakingInv
  <2> HIDE DEF z
  <2>3. IsTaking(x)
    <3>1. CASE z.ended
      BY <2>2, <3>1 DEF EndOfData
    <3>2. CASE ~z.ended
      BY <2>2, <3>2, EndOfDataTakes
    <3> QED
      BY <3>1, <3>2
  <2> HIDE DEF x
  <2>4. /\ DOMAIN y = DOMAIN x /\ y.parser = x.parser /\ y.heard = x.heard
        /\ y.marks = MarksAtStart("start_req")
    BY <2>3 DEF IsTaking
  <2> HIDE DEF y
  <2>5. /\ DOMAIN y = {"parser", "request", "marks", "inner", "skips", "heard", "ended",
                       "asserted"}
        /\ DOMAIN y.parser = ParserFields /\ IsText(y.heard)
    BY <2>3, <2>4 DEF IsTaking
  <2>6. IsTaking(y)
    BY <2>4, <2>5, FreshTakes
  <2> QED
    BY <2>1, <2>6
<1>7. ASSUME Handle PROVE IsTaking(exec')
  <2> DEFINE p == Finish(exec.parser)
             r == LookUpConnection(exec.request)
  <2>1. exec' = [exec EXCEPT !.parser = p, !.request = r]
    BY <1>7 DEF Handle
  <2>2. DOMAIN p = DOMAIN exec.parser
    BY DEF Finish
  <2> HIDE DEF p, r
  <2>3. /\ DOMAIN exec' = DOMAIN exec /\ exec'.parser = p
        /\ exec'.marks = exec.marks /\ exec'.heard = exec.heard
    BY <1>1, <2>1 DEF IsTaking
  <2> QED
    BY <1>1, <2>2, <2>3 DEF IsTaking
<1>8. ASSUME UpgradeAccepted \/ UpgradeRefused \/ ClientCloses \/ UNCHANGED vars
      PROVE  IsTaking(exec')
  BY <1>1, <1>8 DEF UpgradeAccepted, UpgradeRefused, ClientCloses, vars
<1> QED
  BY <1>3, <1>4, <1>5, <1>6, <1>7, <1>8 DEF Next

\* A unit in the middle of the data, and the same by itself.
LEMMA UnitAlone ==
  ASSUME NEW x, NEW ch, NEW last, IsGoing(x, 0), IsTaking(x), ~(x.skips /\ ch = "CTL")
  PROVE  LET u == Round(x, ch, last)
             y == ByItself(x, ch)
         IN  /\ IsTaking(u) /\ IsOne(MarksSet(u))
             /\ HasRoom(u) /\ HasRoom(y) =>
                  /\ SameParser(u, y)
                  /\ y.parser.errno = "OK" =>
                       /\ Taken(u) = Taken(x) \o y.heard
                       /\ u.ended => MarksSet(u) = {}
<1> DEFINE g == [x EXCEPT !.heard = << >>]
           b == Begin(g)
           u == Round(x, ch, last)
           v == Round(b, ch, TRUE)
           y == EndOfData(v)
<1>1. ByItself(x, ch) = y
  BY DEF ByItself
<1>2. /\ DOMAIN g = DOMAIN x /\ g.parser = x.parser /\ g.request = x.request
      /\ g.marks = x.marks /\ g.heard = << >> /\ g.asserted = x.asserted
      /\ g.ended = x.ended /\ g.inner = x.inner /\ g.skips = x.skips
  BY DEF IsTaking
<1> HIDE DEF g
<1>3. IsText(<< >>)
  BY PairIsText, Zenon
<1>4. IsTaking(g)
  BY <1>2, <1>3 DEF IsTaking
<1>5. IsExec(g) /\ g.asserted /\ IsParsing(g.parser, 0)
  BY <1>2 DEF IsGoing, IsExec
<1>6. IsResult(b)
  BY <1>5, BeginKeeps
<1>7. IsTaking(b) /\ b.parser = x.parser /\ ~b.ended /\ b.ended \in BOOLEAN /\ ~b.skips
      /\ (IsOne(MarksSet(b)) => Taken(b) = << >>)
  BY <1>2, <1>4, BeginTakes, GoingIs
<1> HIDE DEF b
<1>8. IsGoing(b, 0)
  BY <1>6, <1>7 DEF IsGoing, IsResult
<1>9. IsOne(MarksSet(b)) /\ IsOne(MarksSet(x)) /\ ~x.ended
  BY <1>8, MarksAreOne, GoingIs
<1>10. IsText(Taken(x)) /\ Taken(x) \o << >> = Taken(x)
  BY <1>9, TakenIsText, JoinNothing
<1>11. x.ended = b.ended
  BY <1>7, <1>9 DEF IsGoing, IsExec
<1>12. Alike(Taken(x), x, b)
  BY <1>7, <1>9, <1>10, <1>11 DEF Alike, SameParser
<1>13. Ends(Taken(x), u, v)
  BY <1>7, <1>8, <1>12, RoundGoes
<1> HIDE DEF u, v
<1>14. IsTaking(u) /\ IsOne(MarksSet(u)) /\ IsTaking(v) /\ IsOne(MarksSet(v))
  BY <1>13 DEF Ends
<1>15. y.parser = v.parser /\ (~v.ended \/ MarksSet(v) = {} => y.heard = Taken(v))
  BY <1>14, EndOfDataTakes
<1> HIDE DEF y
<1>16. ASSUME HasRoom(u), HasRoom(y)
       PROVE  /\ SameParser(u, y)
              /\ y.parser.errno = "OK" =>
                   /\ Taken(u) = Taken(x) \o y.heard
                   /\ u.ended => MarksSet(u) = {}
  <2>1. Done(Taken(x), u, v) \/ Fails(u, v)
    BY <1>13, <1>15, <1>16 DEF Ends, HasRoom
  <2>2. SameParser(u, v)
    BY <2>1 DEF Done, Alike, Fails
  <2>3. SameParser(u, y) /\ u.parser.errno = y.parser.errno
    BY <1>15, <2>2 DEF SameParser, ParserFields
  <2>4. ASSUME y.parser.errno = "OK"
        PROVE  /\ Taken(u) = Taken(x) \o y.heard
               /\ u.ended => MarksSet(u) = {}
    <3>1. Done(Taken(x), u, v)
      BY <2>1, <2>3, <2>4 DEF Fails
    <3>2. /\ u.ended = v.ended /\ MarksSet(u) = MarksSet(v)
          /\ Taken(u) = Taken(x) \o Taken(v)
          /\ u.ended => MarksSet(u) = {}
      BY <2>3, <2>4, <3>1 DEF Done, Alike
    <3>3. y.heard = Taken(v)
      BY <1>15, <3>2
    <3> QED
      BY <3>2, <3>3
  <2> QED
    BY <2>3, <2>4
<1> QED
  BY <1>1, <1>14, <1>16 DEF u

\* The inductive invariant of what was taken: the marks and the history of
\* the callbacks are texts, next to the invariant of the parser.
LEMMA TakingInvariance == Spec => []TakingInv
<1>1. Init => TakingInv
  BY InitHolds, TakingStarts DEF TakingInv
<1>2. TakingInv /\ [Next]_vars => TakingInv'
  <2>1. ParserInv /\ [Next]_vars => ParserInv'
    BY StartHolds, ReceiveHolds, ParseHolds, ParseLastHolds, HandleHolds, OthersHold
       DEF Next
  <2> QED
    BY <2>1, TakingHolds DEF TakingInv
<1> QED
  BY <1>1, <1>2, PTL DEF Spec

\* A cut does not show, however the stream is cut and whatever the clients
\* send: a unit in the middle of a call of execute() and the same unit in a
\* call of its own leave the same parser behind and give the callbacks the
\* same text, sooner or later.
THEOREM CutsNeverShow == Spec => CutsDoNotShow
<1> DEFINE ch == stream[got + 1]
           y == ByItself(exec, ch)
           takes == pc = "execute" /\ ~ exec.ended /\ ~ (exec.skips /\ ch = "CTL")
           Shows == takes /\ HasRoom(exec') /\ HasRoom(y)
           Same == \A f \in DOMAIN exec.parser \ {"nread"} : exec'.parser[f] = y.parser[f]
           Told == y.parser.errno = "OK" => Taken(exec') = Taken(exec) \o y.heard
<1>1. ASSUME TakingInv, Next, Shows PROVE Same /\ Told
  <2>1. IsGoing(exec, 0) /\ IsTaking(exec)
    BY <1>1, ParserInvIs DEF TakingInv, IsResult, IsGoing
  <2>2. DOMAIN exec.parser = ParserFields
    BY <2>1 DEF IsTaking
  <2>3. Parse \/ ParseLast
    BY <1>1 DEF Next, Start, Idle, Receive, Handle, UpgradeAccepted, UpgradeRefused,
                ClientCloses
  <2>4. CASE Parse
    <3>1. exec' = Round(exec, ch, FALSE)
      BY <2>4 DEF Parse
    <3> HIDE DEF ch, y
    <3>2. /\ SameParser(exec', y)
          /\ y.parser.errno = "OK" => Taken(exec') = Taken(exec) \o y.heard
      BY <1>1, <2>1, <3>1, UnitAlone DEF y
    <3> QED
      BY <2>2, <3>2 DEF SameParser
  <2>5. CASE ParseLast
    <3> DEFINE u == Round(exec, ch, TRUE)
               x == EndOfData(u)
               z == [x EXCEPT !.marks = MarksAtStart("start_req"), !.inner = 0,
                              !.skips = FALSE, !.ended = FALSE]
    <3>1. exec' = z
      BY <2>5 DEF ParseLast
    <3> HIDE DEF ch, y
    <3>2. /\ IsTaking(u) /\ IsOne(MarksSet(u))
          /\ HasRoom(u) /\ HasRoom(y) =>
               /\ SameParser(u, y)
               /\ y.parser.errno = "OK" =>
                    /\ Taken(u) = Taken(exec) \o y.heard
                    /\ u.ended => MarksSet(u) = {}
      BY <1>1, <2>1, UnitAlone DEF y
    <3> HIDE DEF u
    <3>3. /\ IsTaking(x) /\ x.parser = u.parser
          /\ ~u.ended \/ MarksSet(u) = {} => x.heard = Taken(u)
      BY <3>2, EndOfDataTakes
    <3> HIDE DEF x
    <3>4. /\ z.parser = x.parser /\ z.heard = x.heard
          /\ z.marks = MarksAtStart("start_req")
      BY <3>3 DEF IsTaking
    <3> HIDE DEF z
    <3>5. MarksSet(z) = {}
      <4>1. "start_req" \notin DOMAIN MarkStates \cup UrlStates
        BY FieldsAre DEF UrlStates, UrlBegin, UrlEnd, Query, Fragment
      <4>2. /\ DOMAIN MarksAtStart("start_req") = DOMAIN MarkStates
            /\ \A name \in DOMAIN MarkStates :
                 ~MarksAtStart("start_req")[name].set
        BY <4>1, FieldsAre DEF MarksAtStart, Unset
      <4> QED
        BY <3>4, <4>2 DEF MarksSet
    <3>6. Taken(z) = x.heard
      BY <3>4, <3>5, TakenIs
    <3>7. HasRoom(u) /\ HasRoom(y)
      BY <1>1, <3>1, <3>3, <3>4 DEF HasRoom
    <3>8. SameParser(z, y)
      BY <3>2, <3>3, <3>4, <3>7 DEF SameParser
    <3>9. y.parser.errno = "OK" => Taken(z) = Taken(exec) \o y.heard
      BY <3>2, <3>3, <3>6, <3>7
    <3> QED
      BY <2>2, <3>1, <3>8, <3>9 DEF SameParser
  <2> QED
    BY <2>3, <2>4, <2>5
<1>2. TakingInv /\ [Next]_vars => [Shows => Same /\ Told]_vars
  BY <1>1
<1> QED
  BY <1>2, TakingInvariance, PTL DEF Spec, CutsDoNotShow
=============================================================================
