------------------------- MODULE ClientOutputProofs --------------------------
(* Proofs about ClientOutput, for any files, contents, frames, size of a   *)
(* chunk and number of calls, and for every way in which the socket may    *)
(* cut what it is given, and fail.                                         *)
EXTENDS ClientOutput, SequenceLemmas, TLAPS

-----------------------------------------------------------------------------
(* The inductive invariant.                                                *)

\* What is due from this call, and how many units of it are no payload.
Now == calls[This].due
HeadLen == Len(Now) - size

\* Where buf stands in it, and how far the call is.
Base == CASE pc = "header" -> 0
          [] pc = "payload" -> HeadLen
          [] pc = "chunk" -> HeadLen + pos - Len(buf)
          [] OTHER -> HeadLen + pos
Progress == Base + bytesSent

\* What a call is about at each of its steps.
CallInv ==
  /\ calls # << >> =>
       /\ Len(Now) <= Len(due)
       /\ \A i \in 1..Len(Now) : due[Len(due) - Len(Now) + i] = Now[i]
  /\ pc # "idle" =>
       /\ calls # << >> /\ size <= Len(Now)
       /\ \A i \in 1..HeadLen : Now[i].unit # "byte"
       /\ \A i \in 1..size :
            Now[HeadLen + i] = Byte(This, i)
       /\ \A i \in 1..Len(buf) : buf[i] = Now[Base + i]
  /\ pc = "header" => Len(buf) = HeadLen /\ pos = 0 /\ bytesRead = 0
  /\ pc = "payload" => Len(buf) = size /\ kind \in {"content", "frame"}
  /\ pc = "chunk" => bytesRead + Len(buf) <= pos /\ Len(buf) > 0
  /\ pc = "read" => bytesRead <= pos
  /\ pc \in {"chunk", "read"} => kind = "file"
  /\ kind \in {"missing", "upgrade"} => size = 0

\* What was sent of the payloads is of earlier calls, or in front of where
\* the call is.
Passed(u) ==
  u.unit = "byte" =>
    /\ u.call <= This
    /\ u.call = This /\ pc # "idle" => u.i + HeadLen <= Progress

OrderInv == GoesUp /\ \A i \in 1..Len(out) : Passed(out[i])

\* Nothing of this call was lost so far; of a file, a chunk that was lost is
\* missing in bytesRead.
OnTrack ==
  /\ pc = "payload" => ~Failed("header")
  /\ pc = "chunk" => bytesRead + Len(buf) = pos
  /\ pc = "read" => bytesRead = pos

TrackInv ==
  /\ pc # "idle" /\ OnTrack =>
       /\ Progress <= Len(out)
       /\ \A i \in 1..Progress : out[Len(out) - Progress + i] = Now[i]
  /\ pc # "idle" => ret = "none"
  /\ SizeMeansSent

Remaining == IF pc = "idle" THEN 0 ELSE Len(Now) - Progress

GapInv ==
  failures = {} =>
    /\ pc # "idle" => OnTrack
    /\ Len(out) = Len(due) - Remaining
    /\ \A i \in 1..Len(out) : out[i] = due[i]

IInv == TypeOK /\ CallInv /\ OrderInv /\ TrackInv /\ GapInv

-----------------------------------------------------------------------------
(* What is due from a call are units.                                      *)

\* The search leaves a type of the table, or the one before.
LEMMA FileTypeTypes ==
  ASSUME NEW name, NEW old \in ContentTypes
  PROVE  /\ TypeOfFile(name, old) \in ContentTypes
         /\ TypesMeant(name) \in SUBSET ContentTypes
<1> DEFINE hits == {i \in DOMAIN FileTypeMapping :
                      Stricmp(FileTypeMapping[i].key, Extension(name))}
           first == CHOOSE i \in hits : \A j \in hits : i <= j
<1>1. DOMAIN FileTypeMapping = 1..14
  BY DEF FileTypeMapping
<1>2. ASSUME hits # {} PROVE first \in hits
  <2>1. hits \subseteq 1..14
    BY <1>1
  <2>2. \E i \in hits : \A j \in hits : i <= j
    BY <1>2, <2>1
  <2> QED
    BY <2>2
<1>3. TypeOfFile(name, old) = IF name = "" THEN Html
                              ELSE IF hits = {} THEN old
                              ELSE FileTypeMapping[first].value
  BY DEF TypeOfFile
<1>4. hits # {} => FileTypeMapping[first].value \in ContentTypes
  BY <1>2 DEF ContentTypes
<1>5. Html \in ContentTypes
  BY DEF ContentTypes
<1>6. TypesMeant(name) \in SUBSET ContentTypes
  BY DEF TypesMeant, ContentTypes
<1> HIDE DEF hits, first
<1> QED
  BY <1>3, <1>4, <1>5, <1>6

\* The units that are no payload.
Lines == {u \in Units : u.unit # "byte"}
Headers == [length : Nat \cup {-1}, type : ContentTypes]

LEMMA LineTypes ==
  /\ \A name \in {"status", "length", "accept", "blank", "octet"} :
     \A value \in Nat : Line(name, value) \in Lines
  /\ \A type \in ContentTypes : TypeLine(type) \in Lines
  /\ \A call, i \in Nat : Byte(call, i) \in Units
BY DEF Line, TypeLine, Byte, Lines, Units

\* The lines of a header, with the entries of the map that are there.
LEMMA HeaderTypes ==
  ASSUME NEW status \in {200, 404, 500}, NEW h \in Headers
  PROVE  HeaderLines(status, h) \in Seq(Lines)
<1> DEFINE a == <<Line("status", status)>>
           b == IF h.length = -1 THEN << >> ELSE <<Line("length", h.length)>>
           c == IF h.type = "" THEN << >> ELSE <<TypeLine(h.type)>>
           d == <<Blank>>
<1>1. a \in Seq(Lines)
  BY LineTypes
<1>2. b \in Seq(Lines)
  BY LineTypes DEF Headers
<1>3. c \in Seq(Lines)
  <2>1. TypeLine(h.type) \in Lines
    BY LineTypes DEF Headers
  <2>2. CASE h.type = ""
    <3>1. c = << >>
      BY <2>2, Zenon
    <3> HIDE DEF c
    <3> QED
      BY <3>1
  <2>3. CASE h.type # ""
    <3>1. c = <<TypeLine(h.type)>>
      BY <2>3
    <3> HIDE DEF c
    <3> QED
      BY <2>1, <3>1
  <2> QED
    BY <2>2, <2>3
<1>4. d \in Seq(Lines)
  BY LineTypes DEF Blank
<1>5. HeaderLines(status, h) = a \o b \o c \o d
  BY DEF HeaderLines
<1> HIDE DEF a, b, c, d
<1>6. a \o b \in Seq(Lines)
  BY <1>1, <1>2, ConcatExtends, Zenon
<1>7. a \o b \o c \in Seq(Lines)
  BY <1>3, <1>6, ConcatExtends, Zenon
<1>8. a \o b \o c \o d \in Seq(Lines)
  BY <1>4, <1>7, ConcatExtends, Zenon
<1> QED
  BY <1>5, <1>8

\* The lines of the handshake.
LEMMA UpgradeTypes ==
  <<Line("status", 101), Line("accept", 0), Blank>> \in Seq(Lines)
BY LineTypes DEF Blank

\* The bytes of a frame's header.
LEMMA OctetTypes ==
  ASSUME NEW f \in Frames
  PROVE  Octets(CreateHeader(f.opcode, f.length, f.fin)) \in Seq(Lines)
<1> DEFINE first == (IF f.fin THEN 128 ELSE 0) + f.opcode
           h == HeaderBytes(first, f.length)
<1>1. f.length \in Nat /\ first \in Nat
  BY FramesAssumption
<1>2. \A n \in Nat : LowByte(n) \in Nat /\ Shift(n) \in Nat
  BY SMT DEF LowByte, Shift
<1> HIDE DEF first
<1>3. h \in Seq(Nat)
  <2> DEFINE n == f.length
  <2>1. LowByte(n) \in Nat /\ LowByte(Shift(n)) \in Nat
    BY <1>1, <1>2
  <2>2. LowByte(Shift(Shift(n))) \in Nat /\ LowByte(Shift(Shift(Shift(n)))) \in Nat
    BY <1>1, <1>2
  <2> HIDE DEF h
  <2>3. CASE n < Short
    BY <1>1, <2>3 DEF h, HeaderBytes
  <2>4. CASE ~(n < Short) /\ n < Medium
    BY <1>1, <2>1, <2>4 DEF h, HeaderBytes
  <2>5. CASE ~(n < Short) /\ ~(n < Medium)
    BY <1>1, <2>1, <2>2, <2>5 DEF h, HeaderBytes
  <2> QED
    BY <2>3, <2>4, <2>5
<1> HIDE DEF h
<1>4. \A i \in 1..Len(h) : Line("octet", h[i]) \in Lines
  BY <1>3, LineTypes
<1>5. Octets(h) \in Seq(Lines)
  BY <1>3, <1>4 DEF Octets, Line
<1> QED
  BY <1>5 DEF h, first, CreateHeader

LEMMA BytesTypes ==
  ASSUME NEW call \in Nat, NEW from \in Nat, NEW n \in Nat
  PROVE  /\ Bytes(call, from, n) \in Seq(Units)
         /\ Len(Bytes(call, from, n)) = n
         /\ \A i \in 1..n : Bytes(call, from, n)[i] = Byte(call, from + i)
<1>1. \A i \in 1..n : Byte(call, from + i) \in Units
  BY LineTypes
<1> QED
  BY <1>1 DEF Bytes

-----------------------------------------------------------------------------
(* How far a call is.                                                      *)

CallRecords == [due : Seq(Units), body : Seq(Units), means : Meanings]

\* A call stands within what is due from it.
LEMMA NumbersAre ==
  ASSUME TypeOK, CallInv
  PROVE  /\ This \in Nat
         /\ size \in Nat /\ onDisk \in Nat /\ pos \in Nat /\ bytesRead \in Nat
         /\ bytesSent \in Nat /\ Len(buf) \in Nat /\ bytesSent <= Len(buf)
         /\ pos <= size /\ pos <= onDisk /\ onDisk <= size /\ bytesRead <= size
         /\ Len(out) \in Nat /\ Len(due) \in Nat
         /\ pc \notin Sendings => buf = << >> /\ bytesSent = 0
         /\ calls # << >> => Now \in Seq(Units) /\ Len(Now) \in Nat /\ This >= 1
         /\ pc # "idle" =>
              /\ calls # << >>
              /\ HeadLen \in Nat /\ Base \in Nat /\ Progress \in Nat
              /\ Base + Len(buf) <= Len(Now) /\ Progress <= Len(Now)
<1>1. /\ calls \in Seq(CallRecords) /\ Len(calls) \in Nat
      /\ size \in Nat /\ onDisk \in 0..size /\ pos \in 0..onDisk
      /\ bytesRead \in 0..size /\ bytesSent \in 0..Len(buf)
      /\ Len(buf) \in Nat /\ Len(out) \in Nat /\ Len(due) \in Nat
      /\ pc \notin Sendings => buf = << >> /\ bytesSent = 0
      /\ pc \in Sendings \cup {"idle", "read"}
  BY DEF TypeOK, CallRecords
<1>2. calls # << >> => Now \in Seq(Units) /\ Len(Now) \in Nat /\ This >= 1
  <2> SUFFICES ASSUME calls # << >>
               PROVE  Now \in Seq(Units) /\ Len(Now) \in Nat /\ This >= 1
    OBVIOUS
  <2>1. Len(calls) >= 1
    BY <1>1
  <2>2. calls[Len(calls)] \in CallRecords
    BY <1>1, <2>1
  <2>3. Now \in Seq(Units)
    BY <2>2 DEF Now, This, CallRecords
  <2> QED
    BY <2>1, <2>3, LenProperties DEF This
<1>3. ASSUME pc # "idle"
      PROVE  /\ calls # << >>
             /\ HeadLen \in Nat /\ Base \in Nat /\ Progress \in Nat
             /\ Base + Len(buf) <= Len(Now) /\ Progress <= Len(Now)
  <2>1. calls # << >> /\ size <= Len(Now) /\ Len(Now) \in Nat
    BY <1>2, <1>3 DEF CallInv
  <2>2. HeadLen \in Nat /\ HeadLen + size = Len(Now)
    BY <1>1, <2>1 DEF HeadLen
  <2>3. Base \in Nat /\ Base + Len(buf) <= Len(Now)
    <3>1. CASE pc = "header"
      BY <1>1, <2>2, <3>1 DEF Base, CallInv
    <3>2. CASE pc = "payload"
      BY <1>1, <2>2, <3>2 DEF Base, CallInv
    <3>3. CASE pc = "chunk"
      BY <1>1, <2>2, <3>3 DEF Base, CallInv
    <3>4. CASE pc = "read"
      <4>1. Len(buf) = 0
        BY <1>1, <3>4 DEF Sendings
      <4> QED
        BY <1>1, <2>2, <3>4, <4>1 DEF Base
    <3> QED
      BY <1>1, <1>3, <3>1, <3>2, <3>3, <3>4 DEF Sendings
  <2> QED
    BY <1>1, <2>1, <2>2, <2>3 DEF Progress
<1> QED
  BY <1>1, <1>2, <1>3 DEF This

-----------------------------------------------------------------------------
(* A new call.                                                             *)

\* A call begins: its header is due, and a payload of n bytes behind it.
LEMMA CallKeeps ==
  ASSUME IInv, NEW k, NEW n \in Nat, NEW held \in 0..n, NEW units \in Seq(Lines),
         NEW means \in Meanings, Call(k, n, held, units), Due(units, n, means),
         k \in {"file", "content", "missing", "upgrade", "frame"},
         k \in {"missing", "upgrade"} => n = 0,
         headers' \in Headers, isWebSocket' = isWebSocket
  PROVE  IInv'
<1> DEFINE body == Bytes(This + 1, 0, n)
           whole == units \o body
<1>0. /\ TypeOK /\ CallInv /\ OrderInv /\ TrackInv /\ GapInv
      /\ calls \in Seq(CallRecords)
  BY DEF IInv, TypeOK, CallRecords
<1>1. This \in Nat /\ Len(calls) = This /\ Len(due) \in Nat /\ Len(out) \in Nat
  BY <1>0, NumbersAre DEF This
<1>2. /\ body \in Seq(Units) /\ Len(body) = n
      /\ \A i \in 1..n : body[i] = Byte(This + 1, i)
  <2>1. This + 1 \in Nat /\ 0 \in Nat
    BY <1>1
  <2>2. /\ body \in Seq(Units) /\ Len(body) = n
        /\ \A i \in 1..n : body[i] = Byte(This + 1, 0 + i)
    BY <2>1, BytesTypes, Zenon
  <2>3. \A i \in 1..n : 0 + i = i
    OBVIOUS
  <2> HIDE DEF body
  <2> QED
    BY <2>2, <2>3
<1>3. units \in Seq(Units) /\ Len(units) \in Nat
  BY DEF Lines
<1> HIDE DEF body
<1>4. whole \in Seq(Units) /\ Extends(whole, units, body)
  BY <1>2, <1>3, ConcatExtends, Zenon
<1> HIDE DEF whole
<1>5. /\ Len(whole) = Len(units) + n /\ Len(whole) \in Nat
      /\ \A i \in 1..Len(units) : whole[i] = units[i]
      /\ \A i \in 1..n : whole[Len(units) + i] = Byte(This + 1, i)
  BY <1>2, <1>3, <1>4 DEF Extends
<1>6. PICK record : record = [due |-> whole, body |-> body, means |-> means]
  OBVIOUS
<1>7. /\ calls' = Append(calls, record)
      /\ due' = due \o whole
  BY <1>6 DEF Due, body, whole
<1>8. record \in CallRecords /\ record.due = whole
  BY <1>2, <1>4, <1>6 DEF CallRecords
<1>9. /\ calls' \in Seq(CallRecords) /\ This' = This + 1 /\ Now' = whole
      /\ calls' # << >>
  <2>1. /\ calls' \in Seq(CallRecords) /\ Len(calls') = Len(calls) + 1
        /\ calls'[Len(calls) + 1] = record
    BY <1>0, <1>7, <1>8, AppendExtends
  <2>2. calls' # << >>
    BY <1>1, <2>1
  <2> QED
    BY <1>1, <1>8, <2>1, <2>2 DEF This, Now
<1>10. due' \in Seq(Units) /\ Extends(due', due, whole)
  <2>1. due \in Seq(Units)
    BY <1>0 DEF TypeOK
  <2> QED
    BY <1>4, <1>7, <2>1, ConcatExtends, Zenon
<1>11. /\ Len(due') = Len(due) + Len(whole)
       /\ \A i \in 1..Len(due) : due'[i] = due[i]
       /\ \A i \in 1..Len(whole) : due'[Len(due) + i] = whole[i]
  BY <1>10 DEF Extends
<1>12. /\ pc = "idle" /\ pc' = "header" /\ This < MaxCalls
       /\ kind' = k /\ size' = n /\ onDisk' = held /\ pos' = 0 /\ bytesRead' = 0
       /\ buf' = units /\ bytesSent' = 0
       /\ ret' = "none" /\ out' = out /\ failures' = failures
  BY DEF Call
<1>13. HeadLen' = Len(units) /\ Base' = 0 /\ Progress' = 0
  BY <1>3, <1>5, <1>9, <1>12 DEF HeadLen, Base, Progress
<1>14. TypeOK'
  <2>1. failures' \subseteq (1..Len(calls')) \X (Sendings \cup {"read"})
    <3>1. failures \subseteq (1..This) \X (Sendings \cup {"read"})
      BY <1>0 DEF TypeOK, This
    <3>2. Len(calls') = This + 1
      BY <1>9 DEF This
    <3>3. 1..This \subseteq 1..Len(calls')
      BY <1>1, <3>2
    <3> QED
      BY <1>12, <3>1, <3>3
  <2>2. Len(calls') <= MaxCalls
    BY <1>1, <1>9, <1>12, CallsAssumption DEF This
  <2>3. calls' \in Seq([due : Seq(Units), body : Seq(Units), means : Meanings])
    BY <1>9 DEF CallRecords
  <2>4. out' \in Seq(Units) /\ isWebSocket' \in BOOLEAN
    BY <1>0, <1>12 DEF TypeOK
  <2> QED
    BY <1>3, <1>10, <1>12, <2>1, <2>2, <2>3, <2>4
    DEF TypeOK, Sendings, Headers
<1>15. CallInv'
  <2>1. /\ Len(whole) <= Len(due')
        /\ \A i \in 1..Len(whole) : due'[Len(due') - Len(whole) + i] = whole[i]
    BY <1>1, <1>5, <1>11
  <2>2. \A i \in 1..Len(units) : whole[i].unit # "byte" /\ units[i] = whole[0 + i]
    BY <1>3, <1>5 DEF Lines
  <2>3. n <= Len(whole)
    BY <1>3, <1>5
  <2> QED
    BY <1>5, <1>9, <1>12, <1>13, <2>1, <2>2, <2>3 DEF CallInv, Byte
<1>16. OrderInv'
  <2>1. GoesUp'
    BY <1>0, <1>12 DEF OrderInv, GoesUp, Before
  <2>2. ASSUME NEW i \in 1..Len(out) PROVE Passed(out[i])'
    <3>1. Passed(out[i]) /\ out[i] \in Units
      BY <1>0 DEF OrderInv, TypeOK
    <3>2. out[i].unit = "byte" => out[i].call \in Nat /\ out[i].call <= This
      BY <3>1 DEF Passed, Units
    <3>3. out[i].unit = "byte" => out[i].call <= This + 1 /\ out[i].call # This + 1
      BY <1>1, <3>2
    <3> QED
      BY <1>9, <1>12, <3>3 DEF Passed
  <2> QED
    BY <1>12, <2>1, <2>2 DEF OrderInv
<1>17. TrackInv'
  BY <1>1, <1>12, <1>13 DEF TrackInv, SizeMeansSent
<1>18. GapInv'
  <2> SUFFICES ASSUME failures = {}
               PROVE  /\ OnTrack'
                      /\ Len(out) = Len(due') - Remaining'
                      /\ \A i \in 1..Len(out) : out[i] = due'[i]
    BY <1>12 DEF GapInv
  <2>1. Remaining' = Len(whole)
    BY <1>5, <1>9, <1>12, <1>13 DEF Remaining
  <2>2. /\ Len(out) = Len(due) /\ \A i \in 1..Len(out) : out[i] = due[i]
    BY <1>0, <1>1, <1>12 DEF GapInv, Remaining
  <2> QED
    BY <1>1, <1>5, <1>11, <1>12, <2>1, <2>2 DEF OnTrack
<1> QED
  BY <1>14, <1>15, <1>16, <1>17, <1>18 DEF IInv

\* Every call the handlers make, and the one that is refused.
LEMMA NewCallKeeps == IInv /\ NewCall => IInv'
<1> SUFFICES ASSUME IInv, NewCall PROVE IInv'
  OBVIOUS
<1>0. TypeOK /\ headers \in Headers
  BY DEF IInv, TypeOK, Headers
<1>1. \A h \in Builders : h \in Headers
  <2>1. NoHeaders \in Headers
    BY DEF NoHeaders, Headers, ContentTypes
  <2> QED
    BY <1>0, <2>1 DEF Builders
<1>2. \A h \in Headers, n \in Nat, type \in ContentTypes :
        [h EXCEPT !.length = n, !.type = type] \in Headers
  BY DEF Headers
<1>3. \A status \in {101, 200, 404, 500}, types \in SUBSET ContentTypes,
         end \in {"length", "close", "none"} :
        Response(status, types, end) \in Meanings
  BY DEF Response, Meanings
<1>4. Html \in ContentTypes
  BY DEF ContentTypes
<1>5. CASE SendContent
  <2>1. PICK n \in Contents, status \in {200, 500}, h \in Builders :
          LET new == [h EXCEPT !.length = n, !.type = Html]
              units == HeaderLines(status, new)
          IN  /\ ~isWebSocket /\ This < MaxResponses
              /\ Call("content", n, n, units)
              /\ headers' = new
              /\ Due(units, n, Response(status, {Html}, "length"))
              /\ UNCHANGED isWebSocket
    BY <1>5 DEF SendContent
  <2> DEFINE new == [h EXCEPT !.length = n, !.type = Html]
             units == HeaderLines(status, new)
  <2>2. n \in Nat /\ n \in 0..n
    BY ContentsAssumption
  <2>3. new \in Headers
    BY <1>1, <1>2, <1>4, <2>2
  <2> HIDE DEF new
  <2>4. units \in Seq(Lines)
    BY <2>3, HeaderTypes
  <2>5. Response(status, {Html}, "length") \in Meanings
    BY <1>3, <1>4
  <2>6. /\ Call("content", n, n, units)
        /\ Due(units, n, Response(status, {Html}, "length"))
        /\ headers' = new /\ isWebSocket' = isWebSocket
    BY <2>1 DEF new
  <2> HIDE DEF units
  <2> QED
    BY <2>2, <2>3, <2>4, <2>5, <2>6, CallKeeps
<1>6. CASE SendFile
  <2>1. PICK f \in Files, h \in Builders :
          LET new == [h EXCEPT !.length = f.size,
                               !.type = TypeOfFile(f.name, h.type)]
              units == HeaderLines(200, new)
          IN  /\ Call("file", f.size, f.onDisk, units)
              /\ headers' = new
              /\ Due(units, f.size, Response(200, TypesMeant(f.name), "length"))
              /\ UNCHANGED isWebSocket
    BY <1>6 DEF SendFile
  <2> DEFINE type == TypeOfFile(f.name, h.type)
             types == TypesMeant(f.name)
             new == [h EXCEPT !.length = f.size, !.type = type]
             units == HeaderLines(200, new)
  <2>2. f.size \in Nat /\ f.onDisk \in 0..f.size
    BY FilesAssumption
  <2>3. type \in ContentTypes /\ types \in SUBSET ContentTypes
    <3>1. h.type \in ContentTypes
      BY <1>1 DEF Headers
    <3> QED
      BY <3>1, FileTypeTypes
  <2> HIDE DEF type, types
  <2>4. new \in Headers
    BY <1>1, <1>2, <2>2, <2>3
  <2> HIDE DEF new
  <2>5. units \in Seq(Lines)
    BY <2>4, HeaderTypes
  <2>6. Response(200, types, "length") \in Meanings
    BY <1>3, <2>3
  <2>7. /\ Call("file", f.size, f.onDisk, units)
        /\ Due(units, f.size, Response(200, types, "length"))
        /\ headers' = new /\ isWebSocket' = isWebSocket
    BY <2>1 DEF new, type, types
  <2> HIDE DEF units
  <2> QED
    BY <2>2, <2>4, <2>5, <2>6, <2>7, CallKeeps
<1>7. CASE SendMissing
  <2>1. PICK h \in Builders :
          LET units == HeaderLines(404, h)
          IN  /\ Call("missing", 0, 0, units)
              /\ headers' = h
              /\ Due(units, 0, Response(404, {}, IF h = NoHeaders THEN "close"
                                                                  ELSE "none"))
              /\ UNCHANGED isWebSocket
    BY <1>7 DEF SendMissing
  <2> DEFINE units == HeaderLines(404, h)
             means == Response(404, {}, IF h = NoHeaders THEN "close" ELSE "none")
  <2>2. h \in Headers
    BY <1>1
  <2>3. units \in Seq(Lines)
    BY <2>2, HeaderTypes
  <2>4. means \in Meanings
    BY <1>3
  <2>5. /\ Call("missing", 0, 0, units) /\ Due(units, 0, means)
        /\ headers' = h /\ isWebSocket' = isWebSocket
    BY <2>1
  <2> HIDE DEF units, means
  <2>6. 0 \in Nat /\ 0 \in 0..0
    OBVIOUS
  <2> QED
    BY <2>2, <2>3, <2>4, <2>5, <2>6, CallKeeps
<1>8. CASE SendUpgradeResponse
  <2> DEFINE units == <<Line("status", 101), Line("accept", 0), Blank>>
             means == Response(101, {}, "length")
  <2>1. units \in Seq(Lines)
    BY UpgradeTypes
  <2>2. means \in Meanings
    BY <1>3
  <2>3. /\ Call("upgrade", 0, 0, units) /\ Due(units, 0, means)
        /\ headers' = headers /\ isWebSocket' = isWebSocket
    BY <1>8 DEF SendUpgradeResponse
  <2> HIDE DEF units, means
  <2>4. 0 \in Nat /\ 0 \in 0..0
    OBVIOUS
  <2> QED
    BY <1>0, <2>1, <2>2, <2>3, <2>4, CallKeeps
<1>9. CASE SendFrame
  <2>1. PICK f \in Frames :
          LET units == Octets(CreateHeader(f.opcode, f.length, f.fin))
          IN  /\ Call("frame", f.length, f.length, units)
              /\ Due(units, f.length, Frame(f))
              /\ UNCHANGED <<headers, isWebSocket>>
    BY <1>9 DEF SendFrame
  <2> DEFINE units == Octets(CreateHeader(f.opcode, f.length, f.fin))
  <2>2. f.length \in Nat /\ f.length \in 0..f.length
    BY FramesAssumption
  <2>3. units \in Seq(Lines)
    BY OctetTypes
  <2>4. Frame(f) \in Meanings
    BY DEF Frame, Meanings
  <2>5. /\ Call("frame", f.length, f.length, units) /\ Due(units, f.length, Frame(f))
        /\ headers' = headers /\ isWebSocket' = isWebSocket
    BY <2>1
  <2> HIDE DEF units
  <2> QED
    BY <1>0, <2>2, <2>3, <2>4, <2>5, CallKeeps
<1>10. CASE SendFrameRefused
  <2> USE DEF IInv, SendFrameRefused, local, sending, history
  <2>1. TypeOK'
    BY <1>10 DEF TypeOK
  <2>2. CallInv'
    BY <1>10 DEF CallInv, Now, This, HeadLen, Base
  <2>3. OrderInv'
    BY <1>10 DEF OrderInv, GoesUp, Before, Passed, This
  <2>4. TrackInv'
    BY <1>10 DEF TrackInv, SizeMeansSent
  <2>5. GapInv'
    BY <1>10 DEF GapInv, Remaining
  <2> QED
    BY <2>1, <2>2, <2>3, <2>4, <2>5
<1> QED
  BY <1>5, <1>6, <1>7, <1>8, <1>9, <1>10 DEF NewCall

-----------------------------------------------------------------------------
(* The loop of send(), and what follows it.                                *)

\* The socket takes m units: they are the next ones of what is due.
LEMMA PartSent ==
  ASSUME TypeOK, CallInv, SendPart
  PROVE  \E m \in Nat :
           /\ bytesSent' = bytesSent + m /\ bytesSent' <= Len(buf)
           /\ Progress' = Progress + m
           /\ out' \in Seq(Units) /\ Len(out') = Len(out) + m
           /\ \A i \in 1..Len(out) : out'[i] = out[i]
           /\ \A i \in 1..m : out'[Len(out) + i] = Now[Progress + i]
<1>1. PICK m \in 1..(Len(buf) - bytesSent) :
        /\ out' = out \o SubSeq(buf, bytesSent + 1, bytesSent + m)
        /\ bytesSent' = bytesSent + m
  BY DEF SendPart
<1>2. /\ pc # "idle" /\ bytesSent \in Nat /\ Len(buf) \in Nat
      /\ Progress \in Nat /\ Base \in Nat
  BY NumbersAre DEF SendPart, Sending, Sendings
<1>3. m \in Nat /\ bytesSent + m <= Len(buf)
  BY <1>2
<1> DEFINE part == SubSeq(buf, bytesSent + 1, bytesSent + m)
<1>4. /\ part \in Seq(Units) /\ Len(part) = m
      /\ \A i \in 1..m : part[i] = buf[bytesSent + i]
  BY <1>2, <1>3, SliceOf DEF TypeOK
<1>5. out' = out \o part /\ out \in Seq(Units)
  BY <1>1 DEF TypeOK
<1> HIDE DEF part
<1>6. out' \in Seq(Units) /\ Extends(out', out, part)
  BY <1>4, <1>5, ConcatExtends, Zenon
<1>7. ASSUME NEW i \in 1..m PROVE part[i] = Now[Progress + i]
  <2>1. bytesSent + i \in 1..Len(buf)
    BY <1>2, <1>3
  <2>2. buf[bytesSent + i] = Now[Base + (bytesSent + i)]
    BY <1>2, <2>1 DEF CallInv
  <2>3. Base + (bytesSent + i) = Progress + i
    BY <1>2, <1>3 DEF Progress
  <2> QED
    BY <1>4, <2>2, <2>3
<1>8. Progress' = Progress + m
  <2>1. Base' = Base
    BY DEF SendPart, Base, HeadLen, Now, This, local, history
  <2> QED
    BY <1>1, <1>2, <1>3, <2>1 DEF Progress
<1> QED
  BY <1>1, <1>3, <1>4, <1>6, <1>7, <1>8 DEF Extends

LEMMA SendPartKeeps == IInv /\ SendPart => IInv'
<1> SUFFICES ASSUME IInv, SendPart PROVE IInv'
  OBVIOUS
<1>0. /\ TypeOK /\ CallInv /\ OrderInv /\ TrackInv /\ GapInv
  BY DEF IInv
<1>1. PICK m \in Nat :
        /\ bytesSent' = bytesSent + m /\ bytesSent' <= Len(buf)
        /\ Progress' = Progress + m
        /\ out' \in Seq(Units) /\ Len(out') = Len(out) + m
        /\ \A i \in 1..Len(out) : out'[i] = out[i]
        /\ \A i \in 1..m : out'[Len(out) + i] = Now[Progress + i]
  BY <1>0, PartSent
<1>2. /\ UNCHANGED <<kind, size, onDisk, pos, bytesRead, pc, buf, headers,
                     isWebSocket, ret, calls, due, failures>>
      /\ pc \in Sendings /\ pc # "idle"
  BY DEF SendPart, Sending, Sendings, local, history
<1>3. /\ This \in Nat /\ size \in Nat /\ bytesSent \in Nat /\ Len(buf) \in Nat
      /\ HeadLen \in Nat /\ Progress \in Nat /\ Len(Now) \in Nat
      /\ Len(out) \in Nat /\ Len(due) \in Nat
      /\ Progress <= Len(Now) /\ Base \in Nat /\ Base + Len(buf) <= Len(Now)
      /\ calls # << >>
  BY <1>0, <1>2, NumbersAre
<1>4. Progress + m <= Len(Now)
  BY <1>1, <1>3 DEF Progress
<1>5. /\ Now' = Now /\ This' = This /\ HeadLen' = HeadLen /\ Base' = Base
      /\ OnTrack' <=> OnTrack
  BY <1>2 DEF Now, This, HeadLen, Base, OnTrack, Failed
<1>6. TypeOK'
  BY <1>0, <1>1, <1>2, <1>3 DEF TypeOK
<1>7. CallInv'
  BY <1>0, <1>2, <1>5 DEF CallInv
<1>8. ASSUME NEW i \in 1..Len(out')
      PROVE  \/ i \in 1..Len(out) /\ out'[i] = out[i]
             \/ \E j \in 1..m : i = Len(out) + j /\ out'[i] = Now[Progress + j]
  <2>1. CASE i <= Len(out)
    BY <1>1, <1>3, <2>1
  <2>2. CASE i > Len(out)
    <3> DEFINE j == i - Len(out)
    <3>1. j \in 1..m /\ i = Len(out) + j
      BY <1>1, <1>3, <2>2
    <3> HIDE DEF j
    <3> QED
      BY <1>1, <3>1
  <2> QED
    BY <1>3, <2>1, <2>2
\* A byte among the new units.
<1>9. ASSUME NEW j \in 1..m, Now[Progress + j].unit = "byte"
      PROVE  /\ Now[Progress + j].call = This
             /\ Now[Progress + j].i = Progress + j - HeadLen
             /\ Progress + j > HeadLen
  <2> DEFINE i == Progress + j - HeadLen
  <2>1. ~ Progress + j <= HeadLen
    <3>1. CASE Progress + j <= HeadLen
      <4>1. Progress + j \in 1..HeadLen
        BY <1>3, <3>1
      <4> QED
        BY <1>0, <1>2, <1>9, <4>1 DEF CallInv
    <3> QED
      BY <3>1
  <2>2. i \in 1..size /\ HeadLen + i = Progress + j
    BY <1>1, <1>3, <1>4, <2>1 DEF HeadLen
  <2> HIDE DEF i
  <2>3. Now[HeadLen + i] = Byte(This, i)
    BY <1>0, <1>2, <2>2 DEF CallInv
  <2>4. Now[Progress + j] = Byte(This, i)
    BY <2>2, <2>3
  <2> QED
    BY <1>3, <2>1, <2>4 DEF Byte, i
\* A byte among the old ones.
<1>10. ASSUME NEW i \in 1..Len(out), out[i].unit = "byte"
       PROVE  /\ out[i].call \in Nat /\ out[i].i \in Nat /\ out[i].call <= This
              /\ out[i].call = This => out[i].i + HeadLen <= Progress
  <2>1. out[i] \in Units /\ Passed(out[i])
    BY <1>0 DEF TypeOK, OrderInv
  <2> QED
    BY <1>2, <1>10, <2>1 DEF Units, Passed
<1>11. OrderInv'
  <2>1. ASSUME NEW i \in 1..Len(out'), NEW j \in 1..Len(out'), i < j,
               out'[i].unit = "byte", out'[j].unit = "byte"
        PROVE  Before(out'[i], out'[j])
    <3>1. CASE j \in 1..Len(out) /\ out'[j] = out[j]
      <4>1. i \in 1..Len(out) /\ out'[i] = out[i]
        BY <1>1, <1>3, <2>1, <3>1
      <4> QED
        BY <1>0, <2>1, <3>1, <4>1 DEF OrderInv, GoesUp
    <3>2. CASE \E q \in 1..m : j = Len(out) + q /\ out'[j] = Now[Progress + q]
      <4>1. PICK q \in 1..m : j = Len(out) + q /\ out'[j] = Now[Progress + q]
        BY <3>2
      <4>2. out'[j].call = This /\ out'[j].i = Progress + q - HeadLen
        BY <1>9, <2>1, <4>1
      <4>3. CASE i \in 1..Len(out) /\ out'[i] = out[i]
        <5>1. /\ out'[i].call \in Nat /\ out'[i].i \in Nat /\ out'[i].call <= This
              /\ out'[i].call = This => out'[i].i + HeadLen <= Progress
          BY <1>10, <2>1, <4>3
        <5> QED
          BY <1>3, <4>2, <5>1 DEF Before
      <4>4. CASE \E p \in 1..m : i = Len(out) + p /\ out'[i] = Now[Progress + p]
        <5>1. PICK p \in 1..m : i = Len(out) + p /\ out'[i] = Now[Progress + p]
          BY <4>4
        <5>2. out'[i].call = This /\ out'[i].i = Progress + p - HeadLen
          BY <1>9, <2>1, <5>1
        <5>3. p < q
          BY <1>3, <2>1, <4>1, <5>1
        <5> QED
          BY <1>3, <4>2, <5>2, <5>3 DEF Before
      <4> QED
        BY <1>8, <4>3, <4>4
    <3> QED
      BY <1>8, <3>1, <3>2
  <2>2. GoesUp'
    BY <2>1 DEF GoesUp, Before
  <2>3. ASSUME NEW i \in 1..Len(out'), out'[i].unit = "byte"
        PROVE  /\ out'[i].call <= This
               /\ out'[i].call = This => out'[i].i + HeadLen <= Progress + m
    <3>1. CASE i \in 1..Len(out) /\ out'[i] = out[i]
      <4>1. /\ out'[i].call <= This /\ out'[i].i \in Nat
            /\ out'[i].call = This => out'[i].i + HeadLen <= Progress
        BY <1>10, <2>3, <3>1
      <4> QED
        BY <1>3, <4>1
    <3>2. CASE \E p \in 1..m : i = Len(out) + p /\ out'[i] = Now[Progress + p]
      <4>1. PICK p \in 1..m : out'[i] = Now[Progress + p]
        BY <3>2
      <4>2. out'[i].call = This /\ out'[i].i = Progress + p - HeadLen
        BY <1>9, <2>3, <4>1
      <4> QED
        BY <1>3, <4>2
    <3> QED
      BY <1>8, <3>1, <3>2
  <2>4. \A i \in 1..Len(out') : Passed(out[i])'
    BY <1>1, <1>5, <2>3 DEF Passed
  <2> QED
    BY <2>2, <2>4 DEF OrderInv
<1>12. TrackInv'
  <2>1. ASSUME OnTrack
        PROVE  /\ Progress + m <= Len(out')
               /\ \A i \in 1..(Progress + m) :
                    out'[Len(out') - (Progress + m) + i] = Now[i]
    <3>1. /\ Progress <= Len(out)
          /\ \A i \in 1..Progress : out[Len(out) - Progress + i] = Now[i]
      BY <1>0, <1>2, <2>1 DEF TrackInv
    <3>2. ASSUME NEW i \in 1..(Progress + m)
          PROVE  out'[Len(out') - (Progress + m) + i] = Now[i]
      <4>1. CASE i <= Progress
        <5>1. i \in Nat /\ i >= 1 /\ i \in 1..Progress
          BY <1>3, <4>1
        <5>2. Len(out') = Len(out) + m
          BY <1>1
        <5>3. Len(out') - (Progress + m) + i = Len(out) - Progress + i
          BY <1>3, <5>1, <5>2
        <5>4. Len(out) - Progress + i \in 1..Len(out)
          <6>1. Progress <= Len(out) /\ i <= Progress
            BY <3>1, <4>1
          <6> QED
            BY <1>3, <5>1, <6>1
        <5> QED
          BY <1>1, <3>1, <5>1, <5>3, <5>4
      <4>2. CASE i > Progress
        <5> DEFINE j == i - Progress
        <5>1. /\ j \in 1..m /\ i = Progress + j
              /\ Len(out') - (Progress + m) + i = Len(out) + j
          BY <1>1, <1>3, <4>2
        <5> HIDE DEF j
        <5> QED
          BY <1>1, <5>1
      <4> QED
        BY <1>3, <4>1, <4>2
    <3> QED
      BY <1>1, <1>3, <3>1, <3>2
  <2>2. ret' = "none"
    BY <1>0, <1>2 DEF TrackInv
  <2> QED
    BY <1>1, <1>2, <1>5, <2>1, <2>2 DEF TrackInv, SizeMeansSent
<1>13. GapInv'
  <2> SUFFICES ASSUME failures = {}
               PROVE  /\ OnTrack'
                      /\ Len(out') = Len(due) - (Len(Now) - Progress')
                      /\ \A i \in 1..Len(out') : out'[i] = due[i]
    BY <1>2, <1>5 DEF GapInv, Remaining
  <2>1. /\ OnTrack
        /\ Len(out) = Len(due) - (Len(Now) - Progress)
        /\ \A i \in 1..Len(out) : out[i] = due[i]
    BY <1>0, <1>2 DEF GapInv, Remaining
  <2>2. ASSUME NEW i \in 1..Len(out') PROVE out'[i] = due[i]
    <3>1. CASE i \in 1..Len(out) /\ out'[i] = out[i]
      BY <2>1, <3>1
    <3>2. CASE \E p \in 1..m : i = Len(out) + p /\ out'[i] = Now[Progress + p]
      <4>1. PICK p \in 1..m : i = Len(out) + p /\ out'[i] = Now[Progress + p]
        BY <3>2
      <4>2. Progress + p \in 1..Len(Now)
        BY <1>3, <1>4
      <4>3. due[Len(due) - Len(Now) + (Progress + p)] = Now[Progress + p]
        BY <1>0, <1>3, <4>2 DEF CallInv
      <4>4. Len(due) - Len(Now) + (Progress + p) = i
        BY <1>3, <2>1, <4>1
      <4> QED
        BY <4>1, <4>3, <4>4
    <3> QED
      BY <1>8, <3>1, <3>2
  <2> QED
    BY <1>1, <1>3, <1>5, <2>1, <2>2
<1> QED
  BY <1>6, <1>7, <1>11, <1>12, <1>13 DEF IInv

-----------------------------------------------------------------------------
(* The call goes on, or returns.                                           *)

\* The call is over: what it says of itself is true of what was sent.
LEMMA ReturnKeeps ==
  ASSUME IInv, pc # "idle",
         NEW r \in {"size", "errno", "error", "true", "false"}, Return(r),
         UNCHANGED <<out, calls, due, headers>>, isWebSocket' \in BOOLEAN,
         failures' \subseteq (1..This) \X (Sendings \cup {"read"}),
         r = "true" \/ (r = "size" /\ <<This, "header">> \notin failures') =>
           OnTrack /\ Progress = Len(Now),
         failures' = {} => failures = {} /\ Progress = Len(Now)
  PROVE  IInv'
<1>0. TypeOK /\ CallInv /\ OrderInv /\ TrackInv /\ GapInv
  BY DEF IInv
<1>1. /\ Len(out) \in Nat /\ Len(due) \in Nat
      /\ Now \in Seq(Units) /\ Len(Now) \in Nat /\ Progress \in Nat
  BY <1>0, NumbersAre
<1>2. /\ This' = This /\ Now' = Now /\ pc' = "idle" /\ kind' = "none"
      /\ buf' = << >> /\ ret' = r
  BY DEF This, Now, Return
<1>3. TypeOK'
  <2>1. << >> \in Seq(Units) /\ Len(<< >>) = 0
    OBVIOUS
  <2>2. /\ size' = 0 /\ onDisk' = 0 /\ pos' = 0 /\ bytesRead' = 0
        /\ bytesSent' = 0 /\ pc' = "idle" /\ kind' = "none" /\ buf' = << >>
        /\ ret' = r
    BY DEF Return
  <2>3. /\ headers' \in [length : Nat \cup {-1}, type : ContentTypes]
        /\ out' \in Seq(Units) /\ due' \in Seq(Units)
        /\ calls' \in Seq([due : Seq(Units), body : Seq(Units), means : Meanings])
        /\ Len(calls') <= MaxCalls
    BY <1>0 DEF TypeOK
  <2>4. failures' \subseteq (1..Len(calls')) \X (Sendings \cup {"read"})
    BY <1>2 DEF This
  <2> QED
    BY <2>1, <2>2, <2>3, <2>4 DEF TypeOK
<1>4. CallInv'
  BY <1>0, <1>2 DEF CallInv
<1>5. OrderInv'
  <2>1. GoesUp'
    BY <1>0 DEF OrderInv, GoesUp, Before
  <2>2. \A i \in 1..Len(out) : Passed(out[i])'
    BY <1>0, <1>2 DEF OrderInv, Passed
  <2> QED
    BY <2>1, <2>2 DEF OrderInv
<1>6. TrackInv'
  <2> SUFFICES ASSUME r = "true" \/ (r = "size" /\ <<This, "header">> \notin failures')
               PROVE  IsSuffix(calls[This].due, out)
    BY <1>2 DEF TrackInv, SizeMeansSent, Failed
  <2>1. OnTrack /\ Progress = Len(Now)
    OBVIOUS
  <2>2. /\ Len(Now) <= Len(out)
        /\ \A i \in 1..Len(Now) : out[Len(out) - Len(Now) + i] = Now[i]
    BY <1>0, <2>1 DEF TrackInv
  <2>3. Now \in Seq(Units) /\ out \in Seq(Units)
    BY <1>0, <1>1 DEF TypeOK
  <2> QED
    BY <2>2, <2>3, SuffixBy DEF Now
<1>7. GapInv'
  <2> SUFFICES ASSUME failures' = {}
               PROVE  Len(out) = Len(due) /\ \A i \in 1..Len(out) : out[i] = due[i]
    BY <1>1, <1>2 DEF GapInv, Remaining
  <2>1. failures = {} /\ Progress = Len(Now)
    OBVIOUS
  <2> QED
    BY <1>0, <1>1, <2>1 DEF GapInv, Remaining
<1> QED
  BY <1>3, <1>4, <1>5, <1>6, <1>7 DEF IInv

\* The call goes on behind what it sent or lost.
LEMMA NextKeeps ==
  ASSUME IInv, pc # "idle", pc' # "idle",
         UNCHANGED <<size, ret, out, calls, due>>,
         TypeOK', CallInv', Progress' \in Nat, Progress <= Progress',
         OnTrack' => OnTrack /\ Progress' = Progress,
         failures' = {} => failures = {} /\ OnTrack'
  PROVE  IInv'
<1>0. TypeOK /\ CallInv /\ OrderInv /\ TrackInv /\ GapInv
  BY DEF IInv
<1>1. Len(out) \in Nat /\ Len(due) \in Nat /\ HeadLen \in Nat /\ Progress \in Nat
  BY <1>0, NumbersAre
<1>2. This' = This /\ Now' = Now /\ HeadLen' = HeadLen
  BY DEF This, Now, HeadLen
<1>3. OrderInv'
  <2>1. GoesUp'
    BY <1>0 DEF OrderInv, GoesUp, Before
  <2>2. ASSUME NEW i \in 1..Len(out) PROVE Passed(out[i])'
    <3>1. Passed(out[i]) /\ out[i] \in Units
      BY <1>0 DEF OrderInv, TypeOK
    <3>2. out[i].unit = "byte" => out[i].i \in Nat
      BY <3>1 DEF Units
    <3> QED
      BY <1>1, <1>2, <3>1, <3>2 DEF Passed
  <2> QED
    BY <2>1, <2>2 DEF OrderInv
<1>4. TrackInv'
  <2>1. SizeMeansSent'
    <3>1. ret' = "none"
      BY <1>0 DEF TrackInv
    <3> QED
      BY <3>1 DEF SizeMeansSent
  <2>2. ASSUME OnTrack'
        PROVE  /\ Progress' <= Len(out)
               /\ \A i \in 1..Progress' : out[Len(out) - Progress' + i] = Now[i]
    <3>1. OnTrack /\ Progress' = Progress
      BY <2>2
    <3> QED
      BY <1>0, <3>1 DEF TrackInv
  <2> QED
    BY <1>0, <1>2, <2>1, <2>2 DEF TrackInv
<1>5. GapInv'
  <2> SUFFICES ASSUME failures' = {}
               PROVE  /\ OnTrack'
                      /\ Len(out) = Len(due) - (Len(Now) - Progress')
                      /\ \A i \in 1..Len(out) : out[i] = due[i]
    BY <1>2 DEF GapInv, Remaining
  <2>1. failures = {} /\ OnTrack' /\ Progress' = Progress
    OBVIOUS
  <2> QED
    BY <1>0, <2>1 DEF GapInv, Remaining
<1> QED
  BY <1>3, <1>4, <1>5 DEF IInv

-----------------------------------------------------------------------------
(* What follows the header.                                                *)

\* Where a call is while its header is sent.
LEMMA AtHeader ==
  ASSUME IInv, pc = "header"
  PROVE  /\ OnTrack /\ Len(buf) = HeadLen /\ Progress = bytesSent
         /\ bytesSent \in Nat /\ bytesSent <= HeadLen /\ HeadLen \in Nat
         /\ size \in Nat /\ HeadLen + size = Len(Now) /\ pos = 0 /\ bytesRead = 0
<1>1. /\ Len(buf) = HeadLen /\ pos = 0 /\ bytesRead = 0 /\ TypeOK /\ CallInv
  BY DEF IInv, CallInv
<1>2. /\ HeadLen \in Nat /\ size \in Nat /\ bytesSent \in Nat
      /\ bytesSent <= Len(buf) /\ Len(Now) \in Nat
  BY <1>1, NumbersAre
<1> QED
  BY <1>1, <1>2 DEF OnTrack, Progress, Base, HeadLen

\* The payload of a frame or a string is sent, whether its header was or not.
LEMMA PayloadKeeps ==
  ASSUME IInv, pc = "header", kind \in {"content", "frame"},
         SendNext("payload", Payload),
         UNCHANGED <<local, headers, ret, out, calls, due>>,
         isWebSocket' \in BOOLEAN,
         failures' \subseteq (1..This) \X (Sendings \cup {"read"}),
         failures' = {} => failures = {},
         <<This, "header">> \in failures' \/ bytesSent = Len(buf)
  PROVE  IInv'
<1>0. TypeOK /\ CallInv
  BY DEF IInv
<1>1. /\ Len(buf) = HeadLen /\ Progress = bytesSent /\ OnTrack
      /\ bytesSent \in Nat /\ bytesSent <= HeadLen /\ HeadLen \in Nat
      /\ size \in Nat /\ HeadLen + size = Len(Now)
  BY AtHeader
<1>2. /\ This' = This /\ Now' = Now /\ HeadLen' = HeadLen /\ size' = size
      /\ kind' = kind /\ pc' = "payload" /\ bytesSent' = 0 /\ buf' = Payload
      /\ calls # << >> /\ This \in Nat
  BY <1>0, NumbersAre DEF This, Now, HeadLen, local, SendNext
<1>3. /\ Payload \in Seq(Units) /\ Len(Payload) = size
      /\ \A i \in 1..size : Payload[i] = Byte(This, i)
  <2>1. /\ Payload \in Seq(Units) /\ Len(Payload) = size
        /\ \A i \in 1..size : Payload[i] = Byte(This, 0 + i)
    <3>1. This \in Nat /\ size \in Nat /\ 0 \in Nat
      BY <1>1, <1>2
    <3> QED
      BY <3>1, BytesTypes, Zenon DEF Payload
  <2>2. \A i \in 1..size : 0 + i = i
    BY <1>1
  <2> QED
    BY <2>1, <2>2
<1>4. Base' = HeadLen /\ Progress' = HeadLen
  BY <1>1, <1>2 DEF Base, Progress
<1>5. TypeOK'
  <2>1. failures' \subseteq (1..Len(calls')) \X (Sendings \cup {"read"})
    BY DEF This
  <2> QED
    BY <1>0, <1>1, <1>2, <1>3, <2>1 DEF TypeOK, local, Sendings
<1>6. CallInv'
  <2>1. \A i \in 1..Len(Payload) : Payload[i] = Now[HeadLen + i]
    BY <1>0, <1>3 DEF CallInv
  <2> QED
    BY <1>0, <1>2, <1>3, <1>4, <2>1 DEF CallInv
<1>7. OnTrack' => OnTrack /\ Progress' = Progress
  <2>1. OnTrack' => <<This, "header">> \notin failures'
    BY <1>2 DEF OnTrack, Failed
  <2> QED
    BY <1>1, <1>4, <2>1
<1>8. failures' = {} => failures = {} /\ OnTrack'
  BY <1>2 DEF OnTrack, Failed
<1>9. pc' # "idle" /\ Progress' \in Nat /\ Progress <= Progress'
  BY <1>1, <1>2, <1>4
<1> QED
  BY <1>5, <1>6, <1>7, <1>8, <1>9, NextKeeps DEF local

\* The loop over a file goes on with the next chunk, or ends there.
LEMMA LoopKeeps ==
  ASSUME IInv, pc \in {"header", "chunk"}, kind = "file", SendNext("read", << >>),
         UNCHANGED <<kind, size, onDisk, pos, headers, ret, out, calls, due>>,
         isWebSocket' \in BOOLEAN, bytesRead' \in Nat, bytesRead' <= pos,
         failures' \subseteq (1..This) \X (Sendings \cup {"read"}),
         failures' = {} => failures = {} /\ bytesRead' = pos,
         bytesRead' = pos => OnTrack /\ bytesSent = Len(buf)
  PROVE  IInv'
<1>0. TypeOK /\ CallInv /\ pc # "idle"
  BY DEF IInv
<1>1. /\ HeadLen \in Nat /\ Progress \in Nat /\ pos \in Nat /\ size \in Nat
      /\ pos <= size /\ bytesSent \in Nat /\ bytesSent <= Len(buf)
      /\ Len(buf) \in Nat /\ calls # << >>
  BY <1>0, NumbersAre
<1>2. /\ This' = This /\ Now' = Now /\ HeadLen' = HeadLen
      /\ pc' = "read" /\ bytesSent' = 0 /\ buf' = << >>
  BY DEF This, Now, HeadLen, SendNext
<1>3. Progress' = HeadLen + pos
  BY <1>1, <1>2 DEF Base, Progress
<1>4. Progress <= HeadLen + pos /\ (bytesSent = Len(buf) => Progress = HeadLen + pos)
  <2>1. CASE pc = "header"
    BY <1>1, <2>1, AtHeader
  <2>2. CASE pc = "chunk"
    BY <1>1, <2>2 DEF Base, Progress
  <2> QED
    BY <2>1, <2>2
<1>5. TypeOK'
  <2>1. failures' \subseteq (1..Len(calls')) \X (Sendings \cup {"read"})
    BY DEF This
  <2>2. << >> \in Seq(Units) /\ Len(<< >>) = 0 /\ bytesRead' \in 0..size
    BY <1>1
  <2> QED
    BY <1>0, <1>2, <2>1, <2>2 DEF TypeOK, Sendings
<1>6. CallInv'
  <2>1. Len(<< >>) = 0
    OBVIOUS
  <2> QED
    BY <1>0, <1>2, <2>1 DEF CallInv
<1>7. OnTrack' <=> bytesRead' = pos
  BY <1>2 DEF OnTrack
<1>8. /\ pc' # "idle" /\ Progress' \in Nat /\ Progress <= Progress'
      /\ OnTrack' => OnTrack /\ Progress' = Progress
      /\ failures' = {} => failures = {} /\ OnTrack'
  BY <1>1, <1>2, <1>3, <1>4, <1>7
<1> QED
  BY <1>0, <1>5, <1>6, <1>8, NextKeeps

-----------------------------------------------------------------------------
(* The steps of a call.                                                    *)

LEMMA HeaderSentKeeps == IInv /\ HeaderSent => IInv'
<1> SUFFICES ASSUME IInv, HeaderSent PROVE IInv'
  OBVIOUS
<1>1. /\ pc = "header" /\ bytesSent = Len(buf)
      /\ UNCHANGED <<headers, out, calls, due, failures>>
  BY DEF HeaderSent, Sent, history
<1>2. /\ OnTrack /\ Progress = bytesSent /\ bytesSent = HeadLen
      /\ HeadLen + size = Len(Now) /\ HeadLen \in Nat
      /\ pos = 0 /\ bytesRead = 0
  BY <1>1, AtHeader
<1>3. /\ isWebSocket' \in BOOLEAN
      /\ failures' \subseteq (1..This) \X (Sendings \cup {"read"})
      /\ kind \in {"missing", "upgrade"} => size = 0
  BY <1>1 DEF HeaderSent, IInv, TypeOK, CallInv, This
<1>4. ASSUME size = 0 PROVE Progress = Len(Now)
  BY <1>2, <1>4
<1>5. CASE kind = "file" /\ SendNext("read", << >>) /\ UNCHANGED <<local, ret>>
  <2>1. UNCHANGED <<kind, size, onDisk, pos, bytesRead, ret>>
    BY <1>5 DEF local
  <2> QED
    BY <1>1, <1>2, <1>3, <1>5, <2>1, LoopKeeps
<1>6. CASE kind = "missing" /\ Return("size")
  BY <1>1, <1>2, <1>3, <1>4, <1>6, ReturnKeeps
<1>7. CASE /\ kind = "content" \/ (kind = "frame" /\ size > 0)
           /\ SendNext("payload", Payload) /\ UNCHANGED <<local, ret>>
  BY <1>1, <1>3, <1>7, PayloadKeeps
<1>8. CASE (kind = "upgrade" \/ (kind = "frame" /\ size = 0)) /\ Return("true")
  BY <1>1, <1>2, <1>3, <1>4, <1>8, ReturnKeeps
<1> QED
  BY <1>5, <1>6, <1>7, <1>8 DEF HeaderSent

LEMMA SendFailsKeeps == IInv /\ SendFails => IInv'
<1> SUFFICES ASSUME IInv, SendFails PROVE IInv'
  OBVIOUS
<1>0. TypeOK /\ CallInv
  BY DEF IInv
<1>1. /\ pc \in Sendings /\ pc # "idle"
      /\ failures' = failures \cup {<<This, pc>>}
      /\ UNCHANGED <<headers, out, calls, due>>
  BY DEF SendFails, Sending, Sendings
<1>2. failures' \subseteq (1..This) \X (Sendings \cup {"read"})
  <2>1. This \in 1..This
    BY <1>0, <1>1, NumbersAre
  <2>2. failures \subseteq (1..This) \X (Sendings \cup {"read"})
    BY <1>0 DEF TypeOK, This
  <2> QED
    BY <1>1, <2>1, <2>2
<1>3. failures' # {} /\ isWebSocket' \in BOOLEAN /\ <<This, pc>> \in failures'
  BY <1>0, <1>1 DEF SendFails, TypeOK
<1>4. ASSUME NEW r \in {"size", "errno", "error", "true", "false"}, Return(r),
             r # "true", r = "size" => pc = "header"
      PROVE  IInv'
  BY <1>1, <1>2, <1>3, <1>4, ReturnKeeps
<1>5. CASE pc = "header" /\ kind \in {"file", "missing"} /\ Return("size")
  BY <1>4, <1>5
<1>6. CASE Return("error")
  BY <1>4, <1>6
<1>7. CASE Return("false")
  BY <1>4, <1>7
<1>8. CASE /\ pc = "header" /\ kind = "frame"
           /\ SendNext("payload", Payload) /\ UNCHANGED <<local, ret>>
  BY <1>1, <1>2, <1>3, <1>8, PayloadKeeps
<1>9. CASE pc = "chunk" /\ SendNext("read", << >>) /\ UNCHANGED <<local, ret>>
  <2>1. kind = "file" /\ bytesRead + Len(buf) <= pos /\ Len(buf) > 0
    BY <1>0, <1>9 DEF CallInv
  <2>2. bytesRead \in Nat /\ pos \in Nat /\ Len(buf) \in Nat
    BY <1>0, NumbersAre
  <2>3. bytesRead # pos /\ bytesRead <= pos
    BY <2>1, <2>2
  <2>4. UNCHANGED <<kind, size, onDisk, pos, bytesRead, ret>>
    BY <1>9 DEF local
  <2> QED
    BY <1>1, <1>2, <1>3, <1>9, <2>1, <2>2, <2>3, <2>4, LoopKeeps
<1> QED
  BY <1>5, <1>6, <1>7, <1>8, <1>9 DEF SendFails

LEMMA PayloadSentKeeps == IInv /\ PayloadSent => IInv'
<1> SUFFICES ASSUME IInv, PayloadSent PROVE IInv'
  OBVIOUS
<1>0. TypeOK /\ CallInv
  BY DEF IInv
<1>1. /\ pc = "payload" /\ bytesSent = Len(buf)
      /\ UNCHANGED <<headers, isWebSocket, out, calls, due, failures>>
  BY DEF PayloadSent, Sent, history
<1> DEFINE r == IF kind = "content" THEN "size"
                ELSE IF Failed("header") THEN "false" ELSE "true"
<1>2. Return(r) /\ r \in {"size", "errno", "error", "true", "false"}
  BY DEF PayloadSent
<1>3. r = "true" => ~Failed("header")
  OBVIOUS
<1> HIDE DEF r
<1>4. /\ isWebSocket' \in BOOLEAN
      /\ failures' \subseteq (1..This) \X (Sendings \cup {"read"})
  BY <1>0, <1>1 DEF TypeOK, This
<1>5. Progress = Len(Now)
  <2>1. /\ size \in Nat /\ HeadLen \in Nat /\ Len(Now) \in Nat
    BY <1>0, <1>1, NumbersAre
  <2>2. Len(buf) = size
    BY <1>0, <1>1 DEF CallInv
  <2> QED
    BY <1>1, <2>1, <2>2 DEF Progress, Base, HeadLen
<1>6. OnTrack <=> ~Failed("header")
  BY <1>1 DEF OnTrack
<1>7. ~Failed("header") <=> <<This, "header">> \notin failures'
  BY <1>1 DEF Failed
<1> QED
  BY <1>0, <1>1, <1>2, <1>3, <1>4, <1>5, <1>6, <1>7, ReturnKeeps

LEMMA ReadChunkKeeps == IInv /\ ReadChunk => IInv'
<1> SUFFICES ASSUME IInv, ReadChunk PROVE IInv'
  OBVIOUS
<1>0. TypeOK /\ CallInv
  BY DEF IInv
<1>1. /\ pc = "read" /\ pc' = "chunk" /\ bytesRead < size
      /\ onDisk - pos >= Want
      /\ buf' = Bytes(This, pos, Want) /\ bytesSent' = 0 /\ pos' = pos + Want
      /\ UNCHANGED <<kind, size, onDisk, bytesRead, headers, isWebSocket, ret, out,
                     calls, due, failures>>
  BY DEF ReadChunk, SendNext, history
<1>2. /\ This \in Nat /\ size \in Nat /\ onDisk \in Nat /\ pos \in Nat
      /\ bytesRead \in Nat /\ HeadLen \in Nat /\ Len(Now) \in Nat
      /\ onDisk <= size /\ bytesSent = 0 /\ calls # << >>
  BY <1>0, <1>1, NumbersAre DEF Sendings
<1>3. Want \in Nat /\ Want > 0
  <2>1. ChunkSize \in Nat /\ ChunkSize > 0
    BY ChunkAssumption
  <2> QED
    BY <1>1, <1>2, <2>1 DEF Want, Least
<1>4. PICK n \in Nat : n = Want /\ n > 0
  BY <1>3
<1>5. /\ buf' \in Seq(Units) /\ Len(buf') = n
      /\ \A i \in 1..n : buf'[i] = Byte(This, pos + i)
  <2>1. buf' = Bytes(This, pos, n)
    BY <1>1, <1>4
  <2>2. /\ Bytes(This, pos, n) \in Seq(Units) /\ Len(Bytes(This, pos, n)) = n
        /\ \A i \in 1..n : Bytes(This, pos, n)[i] = Byte(This, pos + i)
    BY <1>2, BytesTypes, Zenon
  <2> QED
    BY <2>1, <2>2
<1>6. This' = This /\ Now' = Now /\ HeadLen' = HeadLen
  BY <1>1 DEF This, Now, HeadLen
<1>7. pos' = pos + n /\ pos' <= onDisk /\ pos' \in Nat
  BY <1>1, <1>2, <1>4
<1>8. /\ Progress = HeadLen + pos /\ Progress' = HeadLen + pos
      /\ Base' = HeadLen + pos
  BY <1>1, <1>2, <1>4, <1>5, <1>6, <1>7 DEF Progress, Base
<1>9. TypeOK'
  <2>1. pos' \in 0..onDisk /\ 0 \in 0..Len(buf')
    BY <1>2, <1>4, <1>5, <1>7
  <2> QED
    BY <1>0, <1>1, <1>5, <2>1 DEF TypeOK, Sendings
<1>10. CallInv'
  <2>1. ASSUME NEW i \in 1..n PROVE buf'[i] = Now[Base' + i]
    <3>1. pos + i \in 1..size
      BY <1>2, <1>7
    <3>2. Now[HeadLen + (pos + i)] = Byte(This, pos + i)
      BY <1>0, <1>1, <3>1 DEF CallInv
    <3>3. HeadLen + (pos + i) = Base' + i
      BY <1>2, <1>8
    <3> QED
      BY <1>5, <3>2, <3>3
  <2>2. bytesRead <= pos /\ kind = "file"
    BY <1>0, <1>1 DEF CallInv
  <2>3. bytesRead + n <= pos'
    BY <1>2, <1>7, <2>2
  <2> QED
    BY <1>0, <1>1, <1>4, <1>5, <1>6, <2>1, <2>2, <2>3 DEF CallInv
<1>11. OnTrack' <=> OnTrack
  <2>1. OnTrack <=> bytesRead = pos
    BY <1>1 DEF OnTrack
  <2>2. OnTrack' <=> bytesRead + n = pos + n
    BY <1>1, <1>5, <1>7 DEF OnTrack
  <2> QED
    BY <1>2, <2>1, <2>2
<1>12. failures = {} => OnTrack
  BY <1>1 DEF IInv, GapInv
<1> QED
  BY <1>1, <1>2, <1>8, <1>9, <1>10, <1>11, <1>12, NextKeeps

LEMMA ReadShortKeeps == IInv /\ ReadShort => IInv'
<1> SUFFICES ASSUME IInv, ReadShort PROVE IInv'
  OBVIOUS
<1>0. TypeOK /\ CallInv
  BY DEF IInv
<1>1. /\ pc = "read" /\ Return("errno")
      /\ failures' = failures \cup {<<This, "read">>}
      /\ UNCHANGED <<headers, isWebSocket, out, calls, due>>
  BY DEF ReadShort
<1>2. failures' \subseteq (1..This) \X (Sendings \cup {"read"})
  <2>1. This \in 1..This
    BY <1>0, <1>1, NumbersAre
  <2>2. failures \subseteq (1..This) \X (Sendings \cup {"read"})
    BY <1>0 DEF TypeOK, This
  <2> QED
    BY <1>1, <2>1, <2>2
<1>3. failures' # {} /\ isWebSocket' \in BOOLEAN
  BY <1>0, <1>1 DEF TypeOK
<1> QED
  BY <1>1, <1>2, <1>3, ReturnKeeps

LEMMA ChunkSentKeeps == IInv /\ ChunkSent => IInv'
<1> SUFFICES ASSUME IInv, ChunkSent PROVE IInv'
  OBVIOUS
<1>0. TypeOK /\ CallInv
  BY DEF IInv
<1>1. /\ pc = "chunk" /\ bytesSent = Len(buf) /\ SendNext("read", << >>)
      /\ bytesRead' = bytesRead + Len(buf)
      /\ UNCHANGED <<kind, size, onDisk, pos, headers, isWebSocket, ret, out,
                     calls, due, failures>>
  BY DEF ChunkSent, Sent, history
<1>2. kind = "file" /\ bytesRead + Len(buf) <= pos
  BY <1>0, <1>1 DEF CallInv
<1>3. bytesRead \in Nat /\ Len(buf) \in Nat
  BY <1>0, NumbersAre
<1>4. OnTrack <=> bytesRead + Len(buf) = pos
  BY <1>1 DEF OnTrack
<1>5. failures = {} => OnTrack
  BY <1>1 DEF IInv, GapInv
<1>6. /\ failures' \subseteq (1..This) \X (Sendings \cup {"read"})
      /\ isWebSocket' \in BOOLEAN /\ bytesRead' \in Nat
  BY <1>0, <1>1, <1>3 DEF TypeOK, This
<1> QED
  BY <1>1, <1>2, <1>3, <1>4, <1>5, <1>6, LoopKeeps

\* At the end of the loop bytesRead is the size: no chunk is missing in it.
LEMMA FileSentKeeps == IInv /\ FileSent => IInv'
<1> SUFFICES ASSUME IInv, FileSent PROVE IInv'
  OBVIOUS
<1>0. TypeOK /\ CallInv
  BY DEF IInv
<1>1. /\ pc = "read" /\ bytesRead >= size /\ Return("size")
      /\ UNCHANGED <<headers, isWebSocket, out, calls, due, failures>>
  BY DEF FileSent, history
<1>2. /\ bytesRead \in Nat /\ size \in Nat /\ pos \in Nat /\ pos <= size
      /\ HeadLen \in Nat /\ Len(Now) \in Nat /\ bytesSent = 0
  BY <1>0, <1>1, NumbersAre DEF Sendings
<1>3. bytesRead <= pos
  BY <1>0, <1>1 DEF CallInv
<1>4. bytesRead = pos /\ pos = size
  BY <1>1, <1>2, <1>3
<1>5. OnTrack /\ Progress = Len(Now)
  BY <1>1, <1>2, <1>4 DEF OnTrack, Progress, Base, HeadLen
<1>6. /\ failures' \subseteq (1..This) \X (Sendings \cup {"read"})
      /\ isWebSocket' \in BOOLEAN
  BY <1>0, <1>1 DEF TypeOK, This
<1> QED
  BY <1>1, <1>5, <1>6, ReturnKeeps

-----------------------------------------------------------------------------
(* The theorems.                                                           *)

LEMMA InitInv == Init => IInv
<1> SUFFICES ASSUME Init PROVE IInv
  OBVIOUS
<1>1. /\ << >> \in Seq(Units) /\ Len(<< >>) = 0
      /\ << >> \in Seq([due : Seq(Units), body : Seq(Units), means : Meanings])
  OBVIOUS
<1>2. TypeOK
  <2>1. headers \in [length : Nat \cup {-1}, type : ContentTypes]
    BY DEF Init, NoHeaders, ContentTypes
  <2>2. /\ buf \in Seq(Units) /\ out \in Seq(Units) /\ due \in Seq(Units)
        /\ calls \in Seq([due : Seq(Units), body : Seq(Units), means : Meanings])
    BY <1>1 DEF Init
  <2>3. Len(calls) <= MaxCalls
    BY <1>1, CallsAssumption DEF Init
  <2>4. bytesSent \in 0..Len(buf)
    BY <1>1 DEF Init
  <2> QED
    BY <2>1, <2>2, <2>3, <2>4 DEF Init, TypeOK
<1>3. CallInv
  BY DEF Init, CallInv
<1>4. OrderInv
  BY <1>1 DEF Init, OrderInv, GoesUp
<1>5. TrackInv
  BY DEF Init, TrackInv, SizeMeansSent
<1>6. GapInv
  BY <1>1 DEF Init, GapInv, Remaining
<1> QED
  BY <1>2, <1>3, <1>4, <1>5, <1>6 DEF IInv

LEMMA StutterKeeps == IInv /\ UNCHANGED vars => IInv'
<1> SUFFICES ASSUME IInv, UNCHANGED vars PROVE IInv'
  OBVIOUS
<1> USE DEF IInv, vars, local, sending, history
<1>1. TypeOK'
  BY DEF TypeOK
<1>2. Now' = Now /\ This' = This /\ HeadLen' = HeadLen /\ Base' = Base
  BY DEF Now, This, HeadLen, Base
<1>3. Progress' = Progress /\ (OnTrack' <=> OnTrack)
  BY <1>2 DEF Progress, OnTrack, Failed
<1>4. CallInv'
  BY <1>2 DEF CallInv
<1>5. OrderInv'
  BY <1>2, <1>3 DEF OrderInv, GoesUp, Before, Passed
<1>6. TrackInv'
  BY <1>2, <1>3 DEF TrackInv, SizeMeansSent, Failed
<1>7. GapInv'
  BY <1>2, <1>3 DEF GapInv, Remaining
<1> QED
  BY <1>1, <1>4, <1>5, <1>6, <1>7

\* The inductive invariant holds always: what a call has sent and what is due
\* from it agree as far as nothing of it was lost.
THEOREM Invariance == Spec => []IInv
<1>1. IInv /\ [Next]_vars => IInv'
  BY NewCallKeeps, SendPartKeeps, SendFailsKeeps, HeaderSentKeeps,
     PayloadSentKeeps, ReadChunkKeeps, ReadShortKeeps, ChunkSentKeeps,
     FileSentKeeps, StutterKeeps
  DEF Next, Step
<1> QED
  BY InitInv, <1>1, PTL DEF Spec

\* Every variable has its type: the position of the file stays within what it
\* holds, bytesRead within its size, bytesSent within the buffer.
THEOREM TypeCorrect == Spec => []TypeOK
<1>1. IInv => TypeOK
  BY DEF IInv
<1> QED
  BY Invariance, <1>1, PTL

\* However the socket cuts and fails, no byte of a payload reaches the client
\* twice or out of order (ClientConnection.cpp:239-253).
THEOREM PayloadsGoUp == Spec => []GoesUp
<1>1. IInv => GoesUp
  BY DEF IInv, OrderInv
<1> QED
  BY Invariance, <1>1, PTL

\* A call that says that all was sent has sent all that was due, last
\* (ClientConnection.cpp:477-489, HttpResponseBuilder.h:189-221).
THEOREM WhatIsSaidIsSent == Spec => []SizeMeansSent
<1>1. IInv => SizeMeansSent
  BY DEF IInv, TrackInv
<1> QED
  BY Invariance, <1>1, PTL

\* Without a failure the client has a beginning of what was due to it
\* (ClientConnection.cpp:239-253, HttpResponseBuilder.h:195-209).
THEOREM NothingIsMissing == Spec => []NoGap
<1>1. IInv => NoGap
  <2> SUFFICES ASSUME IInv, failures = {} PROVE IsPrefix(out, due)
    BY DEF NoGap
  <2>1. TypeOK /\ CallInv /\ GapInv /\ out \in Seq(Units) /\ due \in Seq(Units)
    BY DEF IInv, TypeOK
  <2>2. /\ Len(out) = Len(due) - Remaining
        /\ \A i \in 1..Len(out) : out[i] = due[i]
    BY <2>1 DEF GapInv
  <2>3. Remaining \in Nat
    <3>1. CASE pc = "idle"
      BY <3>1 DEF Remaining
    <3>2. CASE pc # "idle"
      <4>1. Progress \in Nat /\ Len(Now) \in Nat /\ Progress <= Len(Now)
        BY <2>1, <3>2, NumbersAre
      <4> QED
        BY <3>2, <4>1 DEF Remaining
    <3> QED
      BY <3>1, <3>2
  <2>4. Len(out) <= Len(due)
    <3>1. Len(out) \in Nat /\ Len(due) \in Nat
      BY <2>1, NumbersAre
    <3> QED
      BY <2>2, <2>3, <3>1
  <2> QED
    BY <2>1, <2>2, <2>4, PrefixBy
<1> QED
  BY Invariance, <1>1, PTL
=============================================================================
