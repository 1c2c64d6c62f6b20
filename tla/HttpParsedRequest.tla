------------------------- MODULE HttpParsedRequest --------------------------
(***************************************************************************)
(* The request object of a worker: HttpParsedRequest, as the callbacks of  *)
(* HttpRequestParser fill it.  One object serves all requests of all       *)
(* connections of its worker; clear() runs when a connection starts, not   *)
(* when a request does.                                                    *)
(*                                                                         *)
(* A string is a sequence of pieces: a piece stands for characters that    *)
(* the parser does not tell apart.  Numbers are written in base 2, which   *)
(* keeps bodies with a length of two digits short.  The body is what is    *)
(* found from body on, body_offset units; what no copy has left there, or  *)
(* lies outside the memory allocated at body, is "undefined".              *)
(***************************************************************************)
EXTENDS Integers, Sequences, SequencesExt, TLC

CONSTANT HeapSize           \* the largest piece of memory the heap has, in units

ASSUME HeapSizeAssumption == HeapSize \in Nat

Base == 2

Digit == [d \in {"0", "1"} |-> IF d = "0" THEN 0 ELSE 1]

\* atoi(), of a number an int holds: it stops at what is no digit.
LeadingDigits(s) ==
  LET n == SelectInSeq(s, LAMBDA ch : ch \notin DOMAIN Digit)
  IN  IF n = 0 THEN s ELSE SubSeq(s, 1, n - 1)
Number(s) == FoldLeft(LAMBDA n, d : Base * n + Digit[d], 0, LeadingDigits(s))

ContentLength == <<"Con", "tent-Length">>
Connection == <<"Con", "nection">>
Upgrade == <<"Up", "grade">>
SecWebSocketKey == <<"Sec-WebSocket-Key">>

\* The object after its construction.  bodySize is the size of the memory at
\* body, 0 for NULL; body_offset is Len(body).
NewRequest ==
  [url |-> << >>, method |-> "none", isUpgrade |-> FALSE,
   headers |-> << >>, headerField |-> << >>, headerValue |-> << >>,
   concatField |-> FALSE, concatValue |-> FALSE,
   expectedLength |-> 0, isChunked |-> FALSE, completed |-> FALSE,
   body |-> << >>, bodySize |-> 0]

\* Mutant: headers.clear() is forgotten.
ClearKeepsHeaders(r) ==
  [r EXCEPT !.concatField = FALSE, !.concatValue = FALSE,
            !.expectedLength = 0, !.isChunked = FALSE, !.completed = FALSE,
            !.body = << >>, !.bodySize = 0]

\* clear(): url, method, is_Upgrade and the two strings of the header under
\* way keep their values.
Clear(r) ==
  [r EXCEPT !.concatField = FALSE, !.concatValue = FALSE,
            !.expectedLength = 0, !.isChunked = FALSE, !.completed = FALSE,
            !.body = << >>, !.bodySize = 0, !.headers = << >>]

\* on_url: set_url() assigns.
SetUrl(r, s) == [r EXCEPT !.url = s]

\* Mutant: the second part of a name replaces the first.
SetHeaderFieldAssigns(r, s) ==
  [r EXCEPT !.concatValue = FALSE, !.concatField = TRUE, !.headerField = s]

\* on_header_field: a name that comes in parts is put together.
SetHeaderField(r, s) ==
  [r EXCEPT !.concatValue = FALSE, !.concatField = TRUE,
            !.headerField = IF r.concatField THEN @ \o s ELSE s]

\* headers[name] = s
WithEntry(headers, name, s) == (name :> s) @@ headers

\* on_header_value: so is a value, but only its first part is stored.
SetHeaderValue(r, s) ==
  IF r.concatValue
    THEN [r EXCEPT !.concatField = FALSE, !.headerValue = @ \o s]
    ELSE [r EXCEPT !.concatField = FALSE, !.concatValue = TRUE,
                   !.headerValue = s,
                   !.headers = WithEntry(@, r.headerField, s)]

\* on_headers_complete
SetHeadersComplete(r, method, upgrade) ==
  [r EXCEPT !.expectedLength = IF ContentLength \in DOMAIN r.headers
                                 THEN Number(r.headers[ContentLength]) ELSE @,
            !.method = method,
            !.isUpgrade = upgrade]

\* malloc(n), realloc(body, n): 0 is NULL.
Alloc(n) == IF n <= HeapSize THEN n ELSE 0

Undefined(s) == [i \in DOMAIN s |-> "undefined"]

\* memcpy() of s to the end of the body, of which a number of units is memory.
Copied(body, s, size) ==
  [i \in DOMAIN (body \o s) |-> IF i <= size THEN (body \o s)[i] ELSE "undefined"]

\* Mutant: memory for the first part of the body only.
SetBodyFirstPart(r, s) ==
  LET size == IF r.bodySize = 0 THEN Alloc(Len(s)) ELSE r.bodySize
  IN  [r EXCEPT !.isChunked = @ \/ (r.expectedLength = 0 /\ s # << >>),
                !.bodySize = size, !.body = Copied(@, s, size)]

\* on_body: set_body() allocates Content-Length bytes for the first part, or
\* lets the memory grow with every part when no length is known.  When it
\* cannot grow the body is lost, but not its length.
SetBody(r, s) ==
  LET grows == r.isChunked \/ (r.expectedLength = 0 /\ s # << >>)
      size == CASE grows /\ r.bodySize # 0 -> Alloc(Len(r.body) + Len(s))
                [] grows /\ r.bodySize = 0 -> Alloc(Len(s))
                [] ~ grows /\ r.bodySize = 0 -> Alloc(r.expectedLength)
                [] OTHER -> r.bodySize
      freed == grows /\ r.bodySize # 0 /\ size = 0
  IN  [r EXCEPT !.isChunked = grows, !.bodySize = size,
                !.body = IF freed THEN Undefined(@) ELSE Copied(@, s, size)]

\* on_chunk_header, on_message_complete
SetChunked(r) == [r EXCEPT !.isChunked = TRUE]
SetMessageComplete(r) == [r EXCEPT !.completed = TRUE]

-----------------------------------------------------------------------------
(* The parts of a URL.  Positions count from 1; 0 is string::npos.         *)

LastSlash(url) == SelectLastInSeq(url, LAMBDA ch : ch = "/")
FirstQuery(url) == SelectInSeq(url, LAMBDA ch : ch = "?")

\* get_path(): up to the last slash.  Nothing is erased when that is the
\* first character, and everything when there is none.
GetPath(url) ==
  LET i == LastSlash(url) IN IF i = 1 THEN url ELSE SubSeq(url, 1, i)


\* get_filename(), of a URL that is not empty: from the last slash to the
\* first question mark.  No slash is taken for one at the first place, and
\* the length wraps round when the slash is behind the question mark.
GetFilename(url) ==
  LET slash == IF LastSlash(url) = 0 THEN 1 ELSE LastSlash(url)
      query == FirstQuery(url)
      end == CASE query = 0 -> Len(url)
               [] query = 1 /\ slash = 1 -> slash
               [] query > slash -> query - 1
               [] OTHER -> Len(url)
  IN  SubSeq(url, slash + 1, end)

\* get_query(): from the first question mark
GetQuery(url) ==
  IF FirstQuery(url) = 0 THEN << >> ELSE SubSeq(url, FirstQuery(url), Len(url))

-----------------------------------------------------------------------------
\* headers["Connection"] makes an empty entry when there is none.
LookUpConnection(r) ==
  [r EXCEPT !.headers = IF Connection \in DOMAIN @ THEN @
                        ELSE WithEntry(@, Connection, << >>)]
=============================================================================
