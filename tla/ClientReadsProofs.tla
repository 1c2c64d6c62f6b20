-------------------------- MODULE ClientReadsProofs --------------------------
(* Proofs about the client of ClientOutput: it reads back the header of a  *)
(* frame, for every length that fits into 32 bits and every choice of the  *)
(* two limits that LengthsAssumption allows, and it finds in the stream,   *)
(* one after the other, the responses and frames that the handlers sent.   *)
EXTENDS ClientOutputProofs

-----------------------------------------------------------------------------
(* The header of a frame.                                                  *)

\* The lengths below 2^32.
Lengths == {n \in Nat : n < 4294967296}

\* A number is what is in front of its last byte, and that.
LEMMA LastByte ==
  ASSUME NEW n \in Nat
  PROVE  /\ n = 256 * Shift(n) + LowByte(n)
         /\ LowByte(n) \in 0..255
         /\ Shift(n) \in Nat
BY SMT DEF Shift, LowByte

\* A number below 2^16 has two bytes, one below 2^32 has four.
LEMMA ShortNumbers ==
  ASSUME NEW n \in Nat
  PROVE  /\ n < 65536 => LowByte(Shift(n)) = Shift(n)
         /\ n \in Lengths => LowByte(Shift(Shift(Shift(n)))) = Shift(Shift(Shift(n)))
BY SMT DEF Shift, LowByte, Lengths

\* A frame of the server (createHeader(), sendFrame()): its header consists of
\* bytes, is as long as sendFrame() says, and tells a client, which finds its
\* end in the second byte, opcode, fin and length that sendFrame() was given.
THEOREM HeaderDecodes ==
  ASSUME NEW opcode \in 0..15, NEW fin \in BOOLEAN,
         NEW length \in Lengths
  PROVE  LET h == CreateHeader(opcode, length, fin)
         IN  /\ h \in Seq(0..255)
             /\ Len(h) = HeaderSize(length)
             /\ DecodedSize(h) = HeaderSize(length)
             /\ Decode(h) = [opcode |-> opcode, fin |-> fin, length |-> length]
<1> DEFINE h == CreateHeader(opcode, length, fin)
           first == (IF fin THEN 128 ELSE 0) + opcode
<1>1. /\ first \in 0..255
      /\ first % 128 = opcode
      /\ (first >= 128) = fin
  BY SMT
<1>2. /\ LowByte(length) \in 0..255
      /\ LowByte(Shift(length)) \in 0..255
      /\ LowByte(Shift(Shift(length))) \in 0..255
      /\ LowByte(Shift(Shift(Shift(length)))) \in 0..255
  <2>1. length \in Nat
    BY SMT DEF Lengths
  <2> QED
    BY <2>1, LastByte
<1>3. CASE length < Short
  <2>1. h = <<first, length>>
    BY <1>3, SMT DEF CreateHeader, HeaderBytes
  <2>2. length \in 0..255 /\ length # 126 /\ length # 127
    BY <1>3, LengthsAssumption, SMT DEF Lengths
  <2> HIDE DEF h, first
  <2>3. h \in Seq(0..255) /\ Len(h) = 2 /\ h[1] = first /\ h[2] = length
    BY <1>1, <2>1, <2>2, SMT
  <2>4. DecodedSize(h) = 2 /\ HeaderSize(length) = 2
    BY <1>3, <2>2, <2>3, SMT DEF DecodedSize, HeaderSize
  <2>5. Decode(h) = [opcode |-> opcode, fin |-> fin, length |-> length]
    BY <1>1, <2>2, <2>3, Zenon DEF Decode, DecodedLength
  <2> QED
    BY <2>3, <2>4, <2>5, Zenon DEF h
<1>4. CASE length >= Short /\ length < Medium
  <2>1. h = <<first, 126, LowByte(Shift(length)), LowByte(length)>>
    BY <1>4, LengthsAssumption, SMT DEF CreateHeader, HeaderBytes, Lengths
  <2>2. length = 256 * LowByte(Shift(length)) + LowByte(length)
    <3>1. length \in Nat /\ length < 65536
      BY <1>4, LengthsAssumption, SMT DEF Lengths
    <3> QED
      BY <3>1, LastByte, ShortNumbers, SMT
  <2> HIDE DEF h, first
  <2>3. /\ h \in Seq(0..255) /\ Len(h) = 4 /\ h[1] = first /\ h[2] = 126
        /\ h[3] = LowByte(Shift(length)) /\ h[4] = LowByte(length)
    BY <1>1, <1>2, <2>1, SMT
  <2>4. DecodedSize(h) = 4 /\ HeaderSize(length) = 4
    BY <1>4, <2>3, LengthsAssumption, SMT DEF DecodedSize, HeaderSize, Lengths
  <2>5. Number2(h, 3) = length
    BY <2>2, <2>3, SMT DEF Number2
  <2>6. Decode(h) = [opcode |-> opcode, fin |-> fin, length |-> length]
    BY <1>1, <2>3, <2>5, Zenon DEF Decode, DecodedLength
  <2> QED
    BY <2>3, <2>4, <2>6, Zenon DEF h
<1>5. CASE length >= Medium
  <2> DEFINE s1 == Shift(length)
             s2 == Shift(Shift(length))
             s3 == Shift(Shift(Shift(length)))
  <2>1. h = <<first, 127, 0, 0, 0, 0,
              LowByte(s3), LowByte(s2), LowByte(s1), LowByte(length)>>
    BY <1>5, LengthsAssumption, SMT DEF CreateHeader, HeaderBytes, Lengths
  <2>2. length = 256 * (256 * (256 * LowByte(s3) + LowByte(s2)) + LowByte(s1))
                   + LowByte(length)
    <3>1. length \in Nat
      BY SMT DEF Lengths
    <3>2. s1 \in Nat /\ s2 \in Nat /\ s3 \in Nat
      BY <3>1, LastByte
    <3>3. length = 256 * s1 + LowByte(length)
      BY <3>1, LastByte
    <3>4. s1 = 256 * s2 + LowByte(s1) /\ s2 = 256 * s3 + LowByte(s2)
      BY <3>2, LastByte
    <3>5. s3 = LowByte(s3)
      BY <3>1, ShortNumbers
    <3> HIDE DEF s1, s2, s3
    <3> QED
      BY <1>2, <3>1, <3>2, <3>3, <3>4, <3>5, SMT
  <2> HIDE DEF h, first
  <2>3. /\ h \in Seq(0..255) /\ Len(h) = 10 /\ h[1] = first /\ h[2] = 127
        /\ h[3] = 0 /\ h[4] = 0 /\ h[5] = 0 /\ h[6] = 0
        /\ h[7] = LowByte(s3) /\ h[8] = LowByte(s2)
        /\ h[9] = LowByte(s1) /\ h[10] = LowByte(length)
    BY <1>1, <1>2, <2>1, SMT
  <2>4. DecodedSize(h) = 10 /\ HeaderSize(length) = 10
    BY <1>5, <2>3, LengthsAssumption, SMT DEF DecodedSize, HeaderSize, Lengths
  <2>5. /\ \A i \in 3..6 : h[i] = 0
        /\ Number4(h, 7) = length
    BY <2>2, <2>3, SMT DEF Number2, Number4
  <2>6. Decode(h) = [opcode |-> opcode, fin |-> fin, length |-> length]
    <3>1. h[2] # 126
      BY <2>3, SMT
    <3> QED
      BY <1>1, <2>3, <2>5, <3>1, SMT DEF Decode, DecodedLength
  <2> QED
    BY <2>3, <2>4, <2>6, Zenon DEF h
<1> QED
  BY <1>3, <1>4, <1>5, LengthsAssumption, SMT DEF Lengths

-----------------------------------------------------------------------------
(* The types of files.                                                     *)

\* The empty string, which the map has for no type.
NoType == ""

\* A file whose extension stands in the table is sent with the one type that
\* the table has for it (getStandardHeaders()).
LEMMA TypeIsMeant ==
  ASSUME NEW name, NEW old, TypesMeant(name) # {}
  PROVE  TypesMeant(name) = {TypeOfFile(name, old)} /\ TypeOfFile(name, old) # NoType
<1> DEFINE hits == {i \in DOMAIN FileTypeMapping :
                      Stricmp(FileTypeMapping[i].key, Extension(name))}
           first == CHOOSE i \in hits : \A j \in hits : i <= j
           meant == {j \in DOMAIN FileTypeMapping :
                       SameLetters(FileTypeMapping[j].key, Extension(name))}
<1>1. DOMAIN FileTypeMapping = 1..14
  BY DEF FileTypeMapping
<1>2. name # ""
  BY TableAssumption
<1>3. meant # {} /\ meant \subseteq hits
  <2>1. meant # {}
    BY DEF TypesMeant
  <2>2. \A a, b : SameLetters(a, b) => Stricmp(a, b)
    BY DEF SameLetters, Stricmp
  <2> QED
    BY <2>1, <2>2
<1>4. first \in hits
  <2>1. hits \subseteq Nat /\ hits # {}
    BY <1>1, <1>3
  <2> HIDE DEF hits
  <2> QED
    BY <2>1, LeastExists
<1>5. TypeOfFile(name, old) = FileTypeMapping[first].value
  <2>1. hits # {}
    BY <1>4
  <2> QED
    BY <1>2, <2>1, Zenon DEF TypeOfFile
<1>6. ASSUME NEW j \in meant
      PROVE  FileTypeMapping[j].value = FileTypeMapping[first].value
  <2>1. \A a, b, c : Stricmp(a, c) /\ SameLetters(b, c) => Stricmp(a, b)
    BY DEF Stricmp, SameLetters
  <2>2. Stricmp(FileTypeMapping[first].key, FileTypeMapping[j].key)
    BY <1>4, <2>1
  <2> HIDE DEF first
  <2> QED
    BY <1>4, <2>2, TableAssumption
<1>7. FileTypeMapping[first].value # NoType
  <2> DEFINE v(i) == FileTypeMapping[i].value
  <2>1. /\ v(1) # NoType /\ v(2) # NoType /\ v(3) # NoType /\ v(4) # NoType /\ v(5) # NoType
        /\ v(6) # NoType /\ v(7) # NoType /\ v(8) # NoType /\ v(9) # NoType /\ v(10) # NoType
        /\ v(11) # NoType /\ v(12) # NoType /\ v(13) # NoType /\ v(14) # NoType
    BY DEF FileTypeMapping, Type, Html, NoType
  <2>2. ASSUME NEW i \in 1..14 PROVE v(i) # NoType
    <3>1. \/ i = 1 \/ i = 2 \/ i = 3 \/ i = 4 \/ i = 5 \/ i = 6 \/ i = 7
          \/ i = 8 \/ i = 9 \/ i = 10 \/ i = 11 \/ i = 12 \/ i = 13 \/ i = 14
      OBVIOUS
    <3> QED
      BY <2>1, <3>1, Zenon
  <2> QED
    BY <1>1, <1>4, <2>2
<1>8. TypesMeant(name) = {FileTypeMapping[i].value : i \in meant}
  BY DEF TypesMeant
<1> HIDE DEF hits, first, meant
<1> QED
  BY <1>3, <1>5, <1>6, <1>7, <1>8

-----------------------------------------------------------------------------
(* What is due from a call, as a client will take it.                      *)

\* A response: its status line, lines of the map, its empty line at q, and
\* its body, of which its lengths speak.
IsResponse(c, q) ==
  /\ c.means.kind = "response"
  /\ q \in 2..Len(c.due)
  /\ c.due[1] = Line("status", c.means.head) /\ c.due[q] = Blank
  /\ \A i \in 2..q - 1 : c.due[i].unit \notin {"status", "blank"}
  /\ Len(c.due) = q + Len(c.body)
  /\ \A i \in 1..Len(c.body) : c.due[q + i] = c.body[i]
  /\ c.means.head = 101 => Len(c.body) = 0
  /\ c.means.end = "length" /\ c.means.head # 101 =>
       {c.due[i].value : i \in {j \in 1..q : c.due[j].unit = "length"}} = {Len(c.body)}
  /\ c.means.end = "close" =>
       c.means.head # 101 /\ \A i \in 1..q : c.due[i].unit # "length"
  /\ c.means.types # {} =>
       {c.due[i].type : i \in {j \in 1..q : c.due[j].unit = "type"}} = c.means.types

\* The header of a frame of sendFrame().
HeaderOf(f) == CreateHeader(f.opcode, f.length, f.fin)

\* A frame: its header and its payload.
IsFrame(c) ==
  LET h == HeaderOf(c.means.head)
  IN  /\ c.means.kind = "frame" /\ c.means.head \in Frames /\ c.means.types = {}
      /\ Len(c.body) = c.means.head.length
      /\ Len(c.due) = Len(h) + Len(c.body)
      /\ \A i \in 1..Len(h) : c.due[i] = [unit |-> "octet", value |-> h[i]]
      /\ \A i \in 1..Len(c.body) : c.due[Len(h) + i] = c.body[i]

FormsInv ==
  \A i \in 1..This : IsFrame(calls[i]) \/ \E q \in Nat : IsResponse(calls[i], q)

\* The handshake is among the first n of the calls cs.
IsUpgrade(c) == c.means.kind = "response" /\ c.means.head = 101
Switched(cs, n) == \E i \in 1..n : IsUpgrade(cs[i])

\* Until something fails, the frames are what comes after the handshake.
KindsInv ==
  failures = {} =>
    /\ \A i \in 1..This : calls[i].means.kind = "frame" <=> Switched(calls, i - 1)
    /\ pc = "idle" => (isWebSocket <=> Switched(calls, This))
    /\ pc # "idle" =>
         /\ isWebSocket <=> Switched(calls, This - 1)
         /\ kind = "upgrade" <=> IsUpgrade(calls[This])

\* What is due from the calls stands one after the other, that of call i
\* behind at[i].
StandAt(at) ==
  /\ at \in [1..This + 1 -> Nat]
  /\ at[1] = 0 /\ at[This + 1] = Len(due)
  /\ \A i \in 1..This + 1 : at[i] <= Len(due)
  /\ \A i \in 1..This :
       /\ at[i + 1] = at[i] + Len(calls[i].due)
       /\ \A j \in 1..Len(calls[i].due) : due[at[i] + j] = calls[i].due[j]

FormInv == FormsInv /\ KindsInv /\ \E at \in [1..This + 1 -> Nat] : StandAt(at)

-----------------------------------------------------------------------------
(* It is kept.                                                             *)

\* A call as calls records it.
Record(units, n, means) ==
  LET body == Bytes(This + 1, 0, n)
  IN  [due |-> units \o body, body |-> body, means |-> means]

LEMMA BodyIs ==
  ASSUME This \in Nat, NEW n \in Nat
  PROVE  Bytes(This + 1, 0, n) \in Seq(Units) /\ Len(Bytes(This + 1, 0, n)) = n
<1>1. This + 1 \in Nat /\ 0 \in Nat
  OBVIOUS
<1> QED
  BY <1>1, BytesTypes, Zenon

\* A new call comes behind those before.
LEMMA CallForms ==
  ASSUME IInv, FormInv, NEW k, NEW n \in Nat, NEW held, NEW units \in Seq(Lines),
         NEW means \in Meanings, Call(k, n, held, units), Due(units, n, means),
         isWebSocket' = isWebSocket,
         LET c == Record(units, n, means)
         IN  IsFrame(c) \/ \E q \in Nat : IsResponse(c, q),
         means.kind = "frame" <=> isWebSocket,
         k = "upgrade" <=> means.kind = "response" /\ means.head = 101
  PROVE  FormInv'
<1> DEFINE c == Record(units, n, means)
<1>1. /\ TypeOK /\ CallInv /\ calls \in Seq(CallRecords) /\ due \in Seq(Units)
      /\ This \in Nat /\ Len(due) \in Nat /\ Len(calls) = This
  BY NumbersAre DEF IInv, TypeOK, CallRecords, This
<1>2. c \in CallRecords /\ c.due \in Seq(Units) /\ c.means = means
  <2>1. Bytes(This + 1, 0, n) \in Seq(Units)
    BY <1>1, BodyIs
  <2>2. units \in Seq(Units)
    BY DEF Lines
  <2>3. units \o Bytes(This + 1, 0, n) \in Seq(Units)
    BY <2>1, <2>2, ConcatExtends, Zenon
  <2> QED
    BY <2>1, <2>3 DEF Record, CallRecords
<1>3. calls' = Append(calls, c) /\ due' = due \o c.due
  BY DEF Due, Record
<1>4. IsFrame(c) \/ \E q \in Nat : IsResponse(c, q)
  OBVIOUS
<1> HIDE DEF c
<1>5. /\ This' = This + 1 /\ calls'[This + 1] = c
      /\ \A i \in 1..This : calls'[i] = calls[i]
  BY <1>1, <1>2, <1>3, AppendExtends DEF This
<1>6. /\ Len(due') = Len(due) + Len(c.due)
      /\ \A i \in 1..Len(due) : due'[i] = due[i]
      /\ \A i \in 1..Len(c.due) : due'[Len(due) + i] = c.due[i]
  <2>1. Extends(due', due, c.due)
    BY <1>1, <1>2, <1>3, ConcatExtends, Zenon
  <2> QED
    BY <2>1 DEF Extends
<1>7. FormsInv'
  <2> SUFFICES ASSUME NEW i \in 1..This + 1
               PROVE  IsFrame(calls'[i]) \/ \E q \in Nat : IsResponse(calls'[i], q)
    BY <1>5 DEF FormsInv
  <2>1. CASE i = This + 1
    BY <1>4, <1>5, <2>1
  <2>2. CASE i # This + 1
    <3>1. i \in 1..This
      BY <1>1, <2>2
    <3>2. IsFrame(calls[i]) \/ \E q \in Nat : IsResponse(calls[i], q)
      BY <3>1 DEF FormInv, FormsInv
    <3>3. calls'[i] = calls[i]
      BY <1>5, <3>1
    <3> QED
      BY <3>2, <3>3
  <2> QED
    BY <2>1, <2>2
<1>8. KindsInv'
  <2> SUFFICES ASSUME failures = {}
               PROVE  /\ \A i \in 1..This + 1 :
                           calls'[i].means.kind = "frame" <=> Switched(calls', i - 1)
                      /\ isWebSocket <=> Switched(calls', This)
                      /\ k = "upgrade" <=> IsUpgrade(calls'[This + 1])
    <3>1. (This + 1) - 1 = This
      BY <1>1
    <3> QED
      BY <1>5, <3>1 DEF KindsInv, Call
  <2>1. /\ \A i \in 1..This : calls[i].means.kind = "frame" <=> Switched(calls, i - 1)
        /\ isWebSocket <=> Switched(calls, This)
    BY DEF FormInv, KindsInv, Call
  <2>2. \A m \in 0..This : Switched(calls', m) <=> Switched(calls, m)
    <3>1. \A m \in 0..This : \A i \in 1..m : calls'[i] = calls[i]
      BY <1>1, <1>5
    <3> QED
      BY <3>1 DEF Switched
  <2>3. ASSUME NEW i \in 1..This + 1
        PROVE  calls'[i].means.kind = "frame" <=> Switched(calls', i - 1)
    <3>1. CASE i = This + 1
      <4>1. i - 1 = This /\ This \in 0..This
        BY <1>1, <3>1
      <4>2. Switched(calls', This) <=> Switched(calls, This)
        BY <2>2, <4>1
      <4>3. calls'[i].means.kind = "frame" <=> Switched(calls', This)
        BY <1>2, <1>5, <2>1, <3>1, <4>2
      <4> QED
        BY <4>1, <4>3
    <3>2. CASE i # This + 1
      <4>1. i \in 1..This /\ i - 1 \in 0..This
        BY <1>1, <3>2
      <4>2. calls'[i] = calls[i]
        BY <1>5, <4>1
      <4> QED
        BY <2>1, <2>2, <4>1, <4>2
    <3> QED
      BY <3>1, <3>2
  <2>4. isWebSocket <=> Switched(calls', This)
    <3>1. This \in 0..This
      BY <1>1
    <3> QED
      BY <2>1, <2>2, <3>1
  <2>5. k = "upgrade" <=> IsUpgrade(calls'[This + 1])
    BY <1>2, <1>5 DEF IsUpgrade
  <2> QED
    BY <2>3, <2>4, <2>5
<1>9. \E at \in [1..This' + 1 -> Nat] : StandAt(at)'
  <2>1. PICK at \in [1..This + 1 -> Nat] : StandAt(at)
    BY DEF FormInv
  <2> DEFINE new == [i \in 1..(This + 1) + 1 |->
                       IF i = (This + 1) + 1 THEN Len(due') ELSE at[i]]
  <2>2. Len(c.due) \in Nat /\ Len(due') \in Nat
    BY <1>1, <1>2, <1>6
  <2>3. /\ new \in [1..(This + 1) + 1 -> Nat]
        /\ new[(This + 1) + 1] = Len(due')
        /\ \A i \in 1..This + 1 : new[i] = at[i]
    BY <1>1, <2>2
  <2> HIDE DEF new
  <2>4. /\ at[1] = 0 /\ at[This + 1] = Len(due)
        /\ \A i \in 1..This + 1 : at[i] <= Len(due)
        /\ \A i \in 1..This :
             /\ at[i + 1] = at[i] + Len(calls[i].due)
             /\ \A j \in 1..Len(calls[i].due) : due[at[i] + j] = calls[i].due[j]
    BY <2>1 DEF StandAt
  <2>5. new[1] = 0
    BY <1>1, <2>3, <2>4
  <2>6. ASSUME NEW i \in 1..This + 1
        PROVE  /\ new[i + 1] = new[i] + Len(calls'[i].due)
               /\ \A j \in 1..Len(calls'[i].due) :
                    due'[new[i] + j] = calls'[i].due[j]
    <3>1. CASE i = This + 1
      <4>1. calls'[i] = c /\ new[i] = Len(due) /\ new[i + 1] = Len(due')
        BY <1>1, <1>5, <2>3, <2>4, <3>1
      <4> QED
        BY <1>6, <4>1
    <3>2. CASE i # This + 1
      <4>1. i \in 1..This /\ i + 1 \in 1..This + 1
        BY <1>1, <3>2
      <4>2. calls'[i] = calls[i] /\ new[i] = at[i] /\ new[i + 1] = at[i + 1]
        BY <1>5, <2>3, <4>1
      <4>3. /\ at[i + 1] = at[i] + Len(calls[i].due)
            /\ \A j \in 1..Len(calls[i].due) : due[at[i] + j] = calls[i].due[j]
        BY <2>4, <4>1
      <4>4. at[i] + Len(calls[i].due) <= Len(due)
        BY <2>4, <4>1, <4>3
      <4>5. \A j \in 1..Len(calls[i].due) : at[i] + j \in 1..Len(due)
        <5>1. at[i] \in Nat /\ calls[i] \in CallRecords
          BY <1>1, <4>1
        <5>2. Len(calls[i].due) \in Nat
          BY <5>1 DEF CallRecords
        <5> QED
          BY <1>1, <4>4, <5>1, <5>2
      <4> QED
        BY <1>6, <4>2, <4>3, <4>5
    <3> QED
      BY <3>1, <3>2
  <2>7. ASSUME NEW i \in 1..(This + 1) + 1 PROVE new[i] <= Len(due')
    <3>1. CASE i = (This + 1) + 1
      BY <2>2, <2>3, <3>1
    <3>2. CASE i # (This + 1) + 1
      <4>1. i \in 1..This + 1
        BY <1>1, <3>2
      <4>2. new[i] <= Len(due) /\ new[i] \in Nat
        BY <2>1, <2>3, <2>4, <4>1
      <4> QED
        BY <1>1, <1>6, <2>2, <4>2
    <3> QED
      BY <3>1, <3>2
  <2> QED
    BY <1>5, <2>3, <2>5, <2>6, <2>7 DEF StandAt
<1> QED
  BY <1>7, <1>8, <1>9 DEF FormInv

\* The values, and the types, of the lines of a header.
ValuesOf(s) == {s[i].value : i \in {j \in 1..Len(s) : s[j].unit = "length"}}
TypesOf(s) == {s[i].type : i \in {j \in 1..Len(s) : s[j].unit = "type"}}

\* A header has its status line first, its empty line last, and between them
\* what the map says.
LEMMA HeaderIs ==
  ASSUME NEW status, NEW h \in Headers
  PROVE  LET s == HeaderLines(status, h)
         IN  /\ Len(s) \in Nat /\ Len(s) >= 2
             /\ s[1] = Line("status", status) /\ s[Len(s)] = Blank
             /\ \A i \in 2..Len(s) - 1 : s[i].unit \in {"length", "type"}
             /\ ValuesOf(s) = IF h.length = -1 THEN {} ELSE {h.length}
             /\ TypesOf(s) = IF h.type = NoType THEN {} ELSE {h.type}
<1> DEFINE s == HeaderLines(status, h)
           a == Line("status", status)
           b == Line("length", h.length)
           c == TypeLine(h.type)
<1>1. /\ a.unit = "status" /\ b.unit = "length" /\ b.value = h.length
      /\ c.unit = "type" /\ c.type = h.type /\ Blank.unit = "blank"
  BY DEF Line, TypeLine, Blank
<1> DEFINE y == IF h.length = -1 THEN << >> ELSE <<b>>
           z == IF h.type = NoType THEN << >> ELSE <<c>>
           S == {a, b, c, Blank}
<1>2. s = <<a>> \o y \o z \o <<Blank>>
  BY Zenon DEF HeaderLines, NoType, s, a, b, c
<1>3. /\ h.length = -1 => y = << >>
      /\ h.length # -1 => y = <<b>>
      /\ h.type = NoType => z = << >>
      /\ h.type # NoType => z = <<c>>
  BY Zenon
<1> HIDE DEF a, b, c, s, y, z
<1>4. /\ <<a>> \in Seq(S) /\ <<Blank>> \in Seq(S) /\ y \in Seq(S) /\ z \in Seq(S)
      /\ Len(<<a>>) = 1 /\ Len(<<Blank>>) = 1 /\ Len(y) \in 0..1 /\ Len(z) \in 0..1
  <2>1. y = << >> \/ y = <<b>>
    BY <1>3, Zenon
  <2>2. z = << >> \/ z = <<c>>
    BY <1>3, Zenon
  <2>3. /\ << >> \in Seq(S) /\ <<b>> \in Seq(S) /\ <<c>> \in Seq(S)
        /\ Len(<< >>) = 0 /\ Len(<<b>>) = 1 /\ Len(<<c>>) = 1
    OBVIOUS
  <2>4. Len(y) = 0 \/ Len(y) = 1
    BY <2>1, <2>3, Zenon
  <2>5. Len(z) = 0 \/ Len(z) = 1
    BY <2>2, <2>3, Zenon
  <2>6. y \in Seq(S) /\ z \in Seq(S)
    BY <2>1, <2>2, <2>3, Zenon
  <2> QED
    BY <2>3, <2>4, <2>5, <2>6
<1> HIDE DEF S
<1>5. /\ Len(s) = 2 + Len(y) + Len(z) /\ s[1] = a /\ s[Len(s)] = Blank
      /\ Len(y) = 1 => s[2] = y[1]
      /\ Len(z) = 1 => s[2 + Len(y)] = z[1]
  <2> DEFINE u == <<a>> \o y
             v == u \o z
  <2>1. u \in Seq(S) /\ Extends(u, <<a>>, y)
    BY <1>4, ConcatExtends, Zenon
  <2> HIDE DEF u
  <2>2. v \in Seq(S) /\ Extends(v, u, z)
    BY <1>4, <2>1, ConcatExtends, Zenon
  <2> HIDE DEF v
  <2>3. Extends(s, v, <<Blank>>)
    BY <1>2, <1>4, <2>2, ConcatExtends, Zenon DEF u, v
  <2>4. Len(u) = 1 + Len(y) /\ u[1] = a /\ (Len(y) = 1 => u[2] = y[1])
    BY <1>4, <2>1 DEF Extends
  <2>5. /\ Len(v) = 1 + Len(y) + Len(z) /\ v[1] = a
        /\ Len(y) = 1 => v[2] = y[1]
        /\ Len(z) = 1 => v[2 + Len(y)] = z[1]
    BY <1>4, <2>2, <2>4 DEF Extends
  <2>6. /\ Len(s) = Len(v) + 1 /\ s[Len(v) + 1] = Blank
        /\ \A i \in 1..Len(v) : s[i] = v[i]
    BY <1>4, <2>3 DEF Extends
  <2> QED
    BY <1>4, <2>5, <2>6
<1>6. CASE h.length = -1 /\ h.type = NoType
  <2>1. Len(y) = 0 /\ Len(z) = 0
    BY <1>3, <1>6
  <2>2. Len(s) = 2 /\ s[1] = a /\ s[2] = Blank
    BY <1>5, <2>1
  <2>3. \A j \in 1..Len(s) : s[j].unit # "length" /\ s[j].unit # "type"
    BY <1>1, <2>2
  <2>4. ValuesOf(s) = {} /\ TypesOf(s) = {}
    BY <2>3 DEF ValuesOf, TypesOf
  <2> QED
    BY <1>6, <2>2, <2>4 DEF s, a
<1>7. CASE h.length # -1 /\ h.type = NoType
  <2>1. Len(y) = 1 /\ Len(z) = 0 /\ y[1] = b
    BY <1>3, <1>7
  <2>2. Len(s) = 3 /\ s[1] = a /\ s[2] = b /\ s[3] = Blank
    BY <1>5, <2>1
  <2>3. \A j \in 1..Len(s) : s[j].unit # "type" /\ (s[j].unit = "length" <=> j = 2)
    BY <1>1, <2>2
  <2>4. ValuesOf(s) = {h.length} /\ TypesOf(s) = {}
    BY <1>1, <2>2, <2>3 DEF ValuesOf, TypesOf
  <2> QED
    BY <1>1, <1>7, <2>2, <2>4 DEF s, a
<1>8. CASE h.length = -1 /\ h.type # NoType
  <2>1. Len(y) = 0 /\ Len(z) = 1 /\ z[1] = c
    BY <1>3, <1>8
  <2>2. Len(s) = 3 /\ s[1] = a /\ s[2] = c /\ s[3] = Blank
    BY <1>5, <2>1
  <2>3. \A j \in 1..Len(s) : s[j].unit # "length" /\ (s[j].unit = "type" <=> j = 2)
    BY <1>1, <2>2
  <2>4. ValuesOf(s) = {} /\ TypesOf(s) = {h.type}
    BY <1>1, <2>2, <2>3 DEF ValuesOf, TypesOf
  <2> QED
    BY <1>1, <1>8, <2>2, <2>4 DEF s, a
<1>9. CASE h.length # -1 /\ h.type # NoType
  <2>1. Len(y) = 1 /\ Len(z) = 1 /\ y[1] = b /\ z[1] = c
    BY <1>3, <1>9
  <2>2. Len(s) = 4 /\ s[1] = a /\ s[2] = b /\ s[3] = c /\ s[4] = Blank
    BY <1>5, <2>1
  <2>3. \A j \in 1..Len(s) :
          (s[j].unit = "length" <=> j = 2) /\ (s[j].unit = "type" <=> j = 3)
    BY <1>1, <2>2
  <2>4. ValuesOf(s) = {h.length} /\ TypesOf(s) = {h.type}
    BY <1>1, <2>2, <2>3 DEF ValuesOf, TypesOf
  <2> QED
    BY <1>1, <1>9, <2>2, <2>4 DEF s, a
<1> QED
  BY <1>6, <1>7, <1>8, <1>9

\* The header s of a response speaks of a body of length n.
SpeaksOf(s, n, means) ==
  /\ means.kind = "response"
  /\ Len(s) >= 2 /\ s[1] = Line("status", means.head) /\ s[Len(s)] = Blank
  /\ \A i \in 2..Len(s) - 1 : s[i].unit \notin {"status", "blank"}
  /\ means.head = 101 => n = 0
  /\ means.end = "length" /\ means.head # 101 => ValuesOf(s) = {n}
  /\ means.end = "close" => means.head # 101 /\ ValuesOf(s) = {}
  /\ means.types # {} => TypesOf(s) = means.types

\* Such a header, with that body behind it, is a response.
LEMMA ResponseIs ==
  ASSUME NEW s \in Seq(Lines), NEW n \in Nat, NEW means,
         SpeaksOf(s, n, means), This \in Nat
  PROVE  \E q \in Nat : IsResponse(Record(s, n, means), q)
<1> USE DEF SpeaksOf
<1> DEFINE c == Record(s, n, means)
           body == Bytes(This + 1, 0, n)
           q == Len(s)
<1>1. body \in Seq(Units) /\ Len(body) = n
  BY BodyIs
<1>2. s \in Seq(Units) /\ q \in Nat
  BY DEF Lines
<1>3. c.due = s \o body /\ c.body = body /\ c.means = means
  BY DEF Record
<1> HIDE DEF c, body
<1>4. /\ Len(c.due) = q + n /\ \A i \in 1..q : c.due[i] = s[i]
      /\ \A i \in 1..n : c.due[q + i] = c.body[i]
  <2>1. Extends(s \o body, s, body)
    BY <1>1, <1>2, ConcatExtends
  <2> QED
    BY <1>1, <1>3, <2>1 DEF Extends
<1>5. /\ {c.due[i].value : i \in {j \in 1..q : c.due[j].unit = "length"}} = ValuesOf(s)
      /\ {c.due[i].type : i \in {j \in 1..q : c.due[j].unit = "type"}} = TypesOf(s)
  BY <1>4 DEF ValuesOf, TypesOf
<1>6. ASSUME ValuesOf(s) = {}
      PROVE  \A i \in 1..q : c.due[i].unit # "length"
  <2> SUFFICES ASSUME NEW i \in 1..q, s[i].unit = "length" PROVE FALSE
    BY <1>4
  <2>1. s[i].value \in ValuesOf(s)
    BY DEF ValuesOf
  <2> QED
    BY <1>6, <2>1
<1> HIDE DEF q
<1>7. q \in 2..Len(c.due)
  BY <1>2, <1>4 DEF q
<1>8. c.due[1] = Line("status", means.head) /\ c.due[q] = Blank
  <2>1. 1 \in 1..q /\ q \in 1..q
    BY <1>2 DEF q
  <2> QED
    BY <1>4, <2>1 DEF q
<1>9. \A i \in 2..q - 1 : c.due[i].unit \notin {"status", "blank"}
  <2>1. \A i \in 2..q - 1 : i \in 1..q
    BY <1>2
  <2> QED
    BY <1>4, <2>1 DEF q
<1>10. IsResponse(c, q)
  BY <1>1, <1>3, <1>4, <1>5, <1>6, <1>7, <1>8, <1>9 DEF IsResponse
<1> QED
  BY <1>2, <1>10 DEF c

\* What a handler's builder has in its map, and what a call puts there.
Put(h, n, type) == [h EXCEPT !.length = n, !.type = type]

LEMMA PutTypes ==
  ASSUME NEW h \in Headers, NEW n \in Nat, NEW type \in ContentTypes
  PROVE  /\ Put(h, n, type) \in Headers
         /\ Put(h, n, type).length = n /\ Put(h, n, type).type = type
<1>1. h \in [length : Nat \cup {-1}, type : ContentTypes]
  BY DEF Headers
<1> QED
  BY <1>1 DEF Headers, Put

LEMMA BuilderTypes ==
  ASSUME TypeOK, NEW h \in Builders
  PROVE  h \in Headers
<1>1. NoHeaders \in Headers /\ headers \in Headers
  BY DEF NoHeaders, Headers, ContentTypes, TypeOK
<1> QED
  BY <1>1 DEF Builders

LEMMA SendContentForms == IInv /\ FormInv /\ SendContent => FormInv'
<1> SUFFICES ASSUME IInv, FormInv, SendContent PROVE FormInv'
  OBVIOUS
<1>0. PICK n \in Contents, status \in {200, 500}, h \in Builders :
        LET new == [h EXCEPT !.length = n, !.type = Html]
            units == HeaderLines(status, new)
        IN  /\ ~isWebSocket /\ This < MaxResponses
            /\ Call("content", n, n, units)
            /\ headers' = new
            /\ Due(units, n, Response(status, {Html}, "length"))
            /\ UNCHANGED isWebSocket
  BY DEF SendContent
<1> DEFINE new == Put(h, n, Html)
           units == HeaderLines(status, new)
           means == Response(status, {Html}, "length")
<1>1. n \in Nat /\ Html \in ContentTypes /\ This \in Nat /\ TypeOK
  BY ContentsAssumption, NumbersAre DEF ContentTypes, IInv
<1>2. new \in Headers /\ new.length = n /\ new.type = Html
  BY <1>1, BuilderTypes, PutTypes
<1>3. Html # NoType /\ n # -1
  <2>1. Html # NoType
    BY Zenon DEF Html, NoType
  <2> QED
    BY <1>1, <2>1
<1> HIDE DEF new
<1>4. units \in Seq(Lines)
  BY <1>2, HeaderTypes
<1>5. /\ Len(units) >= 2
      /\ units[1] = Line("status", status) /\ units[Len(units)] = Blank
      /\ \A i \in 2..Len(units) - 1 : units[i].unit \notin {"status", "blank"}
      /\ ValuesOf(units) = {n} /\ TypesOf(units) = {Html}
  BY <1>2, <1>3, HeaderIs
<1>6. means \in Meanings /\ means.kind = "response" /\ means.head = status
      /\ means.end = "length" /\ means.types = {Html}
  BY <1>1 DEF Response, Meanings
<1>7. /\ Call("content", n, n, units) /\ Due(units, n, means)
      /\ ~isWebSocket /\ isWebSocket' = isWebSocket
  BY <1>0 DEF new, Put
<1> HIDE DEF units, means
<1>8. \E q \in Nat : IsResponse(Record(units, n, means), q)
  <2>1. SpeaksOf(units, n, means)
    BY <1>5, <1>6 DEF SpeaksOf
  <2> QED
    BY <1>1, <1>4, <2>1, ResponseIs, Zenon
<1> QED
  BY <1>1, <1>4, <1>6, <1>7, <1>8, CallForms

LEMMA SendFileForms == IInv /\ FormInv /\ SendFile => FormInv'
<1> SUFFICES ASSUME IInv, FormInv, SendFile PROVE FormInv'
  OBVIOUS
<1>0. PICK f \in Files, h \in Builders :
        LET new == [h EXCEPT !.length = f.size, !.type = TypeOfFile(f.name, h.type)]
            units == HeaderLines(200, new)
        IN  /\ ~isWebSocket /\ This < MaxResponses
            /\ Call("file", f.size, f.onDisk, units)
            /\ headers' = new
            /\ Due(units, f.size, Response(200, TypesMeant(f.name), "length"))
            /\ UNCHANGED isWebSocket
  BY DEF SendFile
<1> DEFINE type == TypeOfFile(f.name, h.type)
           meant == TypesMeant(f.name)
           new == Put(h, f.size, type)
           units == HeaderLines(200, new)
           means == Response(200, meant, "length")
<1>1. f.size \in Nat /\ f.size # -1 /\ This \in Nat /\ TypeOK
  BY FilesAssumption, NumbersAre DEF IInv
<1>2. type \in ContentTypes /\ meant \in SUBSET ContentTypes
  <2>1. h.type \in ContentTypes
    BY <1>1, BuilderTypes DEF Headers
  <2> QED
    BY <2>1, FileTypeTypes
<1>3. meant # {} => meant = {type} /\ type # NoType
  BY TypeIsMeant
<1> HIDE DEF type, meant
<1>4. new \in Headers /\ new.length = f.size /\ new.type = type
  BY <1>1, <1>2, BuilderTypes, PutTypes
<1> HIDE DEF new
<1>5. units \in Seq(Lines)
  BY <1>4, HeaderTypes
<1>6. /\ Len(units) >= 2
      /\ units[1] = Line("status", 200) /\ units[Len(units)] = Blank
      /\ \A i \in 2..Len(units) - 1 : units[i].unit \notin {"status", "blank"}
      /\ ValuesOf(units) = {f.size} /\ (type # NoType => TypesOf(units) = {type})
  BY <1>1, <1>4, HeaderIs
<1>7. /\ means \in Meanings /\ means.kind = "response" /\ means.head = 200
      /\ means.end = "length" /\ means.types = meant
  BY <1>2 DEF Response, Meanings
<1>8. /\ Call("file", f.size, f.onDisk, units) /\ Due(units, f.size, means)
      /\ ~isWebSocket /\ isWebSocket' = isWebSocket
  BY <1>0 DEF new, Put, type, meant
<1> HIDE DEF units, means
<1>9. \E q \in Nat : IsResponse(Record(units, f.size, means), q)
  <2>1. means.types # {} => TypesOf(units) = means.types
    BY <1>3, <1>6, <1>7, Zenon
  <2>2. SpeaksOf(units, f.size, means)
    BY <1>6, <1>7, <2>1 DEF SpeaksOf
  <2> QED
    BY <1>1, <1>5, <2>2, ResponseIs, Zenon
<1> QED
  BY <1>1, <1>5, <1>7, <1>8, <1>9, CallForms

LEMMA SendMissingForms == IInv /\ FormInv /\ SendMissing => FormInv'
<1> SUFFICES ASSUME IInv, FormInv, SendMissing PROVE FormInv'
  OBVIOUS
<1>0. PICK h \in Builders :
        LET units == HeaderLines(404, h)
        IN  /\ ~isWebSocket /\ This < MaxResponses
            /\ Call("missing", 0, 0, units)
            /\ headers' = h
            /\ Due(units, 0, Response(404, {}, IF h = NoHeaders THEN "close" ELSE "none"))
            /\ UNCHANGED isWebSocket
  BY DEF SendMissing
<1> DEFINE end == IF h = NoHeaders THEN "close" ELSE "none"
           units == HeaderLines(404, h)
           means == Response(404, {}, end)
<1>1. h \in Headers /\ This \in Nat /\ end \in {"close", "none"}
  <2>1. TypeOK /\ CallInv
    BY DEF IInv
  <2> QED
    BY <2>1, BuilderTypes, NumbersAre
<1>2. end = "close" => h.length = -1
  <2>1. NoHeaders.length = -1
    BY Zenon DEF NoHeaders
  <2> QED
    BY <2>1
<1> HIDE DEF end
<1>3. units \in Seq(Lines)
  BY <1>1, HeaderTypes
<1>4. /\ Len(units) >= 2
      /\ units[1] = Line("status", 404) /\ units[Len(units)] = Blank
      /\ \A i \in 2..Len(units) - 1 : units[i].unit \notin {"status", "blank"}
      /\ end = "close" => ValuesOf(units) = {}
  BY <1>1, <1>2, HeaderIs
<1>5. /\ means \in Meanings /\ means.kind = "response" /\ means.head = 404
      /\ means.end = end /\ means.types = {}
  BY <1>1 DEF Response, Meanings
<1>6. /\ Call("missing", 0, 0, units) /\ Due(units, 0, means)
      /\ ~isWebSocket /\ isWebSocket' = isWebSocket
  BY <1>0 DEF end
<1> HIDE DEF units, means
<1>7. \E q \in Nat : IsResponse(Record(units, 0, means), q)
  <2>1. SpeaksOf(units, 0, means) /\ 0 \in Nat
    BY <1>1, <1>4, <1>5 DEF SpeaksOf
  <2> QED
    BY <1>1, <1>3, <2>1, ResponseIs, Zenon
<1> QED
  BY <1>3, <1>5, <1>6, <1>7, CallForms

LEMMA UpgradeForms == IInv /\ FormInv /\ SendUpgradeResponse => FormInv'
<1> SUFFICES ASSUME IInv, FormInv, SendUpgradeResponse PROVE FormInv'
  OBVIOUS
<1> DEFINE units == <<Line("status", 101), Line("accept", 0), Blank>>
           means == Response(101, {}, "length")
<1>1. This \in Nat
  BY NumbersAre DEF IInv
<1>2. units \in Seq(Lines)
  BY UpgradeTypes
<1>3. /\ Len(units) = 3 /\ units[1] = Line("status", 101) /\ units[3] = Blank
      /\ units[2].unit = "accept"
  BY DEF Line
<1>4. /\ means \in Meanings /\ means.kind = "response" /\ means.head = 101
      /\ means.end = "length" /\ means.types = {}
  BY DEF Response, Meanings
<1>5. /\ Call("upgrade", 0, 0, units) /\ Due(units, 0, means)
      /\ ~isWebSocket /\ isWebSocket' = isWebSocket
  BY DEF SendUpgradeResponse
<1> HIDE DEF units, means
<1>6. \E q \in Nat : IsResponse(Record(units, 0, means), q)
  <2>1. \A i \in 2..Len(units) - 1 : units[i].unit \notin {"status", "blank"}
    BY <1>3
  <2>2. SpeaksOf(units, 0, means) /\ 0 \in Nat
    BY <1>3, <1>4, <2>1 DEF SpeaksOf
  <2> QED
    BY <1>1, <1>2, <2>2, ResponseIs, Zenon
<1> QED
  BY <1>2, <1>4, <1>5, <1>6, CallForms

LEMMA SendFrameForms == IInv /\ FormInv /\ SendFrame => FormInv'
<1> SUFFICES ASSUME IInv, FormInv, NEW f \in Frames,
                    isWebSocket, isWebSocket' = isWebSocket,
                    Call("frame", f.length, f.length, Octets(HeaderOf(f))),
                    Due(Octets(HeaderOf(f)), f.length, Frame(f))
             PROVE  FormInv'
  BY DEF SendFrame, HeaderOf
<1> DEFINE h == HeaderOf(f)
           units == Octets(h)
           means == Frame(f)
           body == Bytes(This + 1, 0, f.length)
           c == Record(units, f.length, means)
<1>1. This \in Nat /\ f.length \in Lengths /\ f.length \in Nat
  <2>1. f.length \in 0..MaxInt
    BY FramesAssumption
  <2>2. MaxInt \in Nat /\ MaxInt < 4294967296
    BY SMT DEF MaxInt
  <2> QED
    BY <2>1, <2>2, NumbersAre DEF IInv, Lengths
<1>2. units \in Seq(Lines)
  BY OctetTypes DEF HeaderOf
<1>3. h \in Seq(0..255)
  <2>1. f.opcode \in 0..15 /\ f.fin \in BOOLEAN
    BY FramesAssumption
  <2> QED
    BY <1>1, <2>1, HeaderDecodes DEF HeaderOf
<1>4. means \in Meanings /\ means.kind = "frame" /\ means.head = f /\ means.types = {}
  BY DEF Frame, Meanings
<1>5. body \in Seq(Units) /\ Len(body) = f.length
  BY <1>1, BodyIs
<1>6. c.due = units \o body /\ c.body = body /\ c.means = means
  BY DEF Record
<1> HIDE DEF h
<1>7. /\ Len(h) \in Nat /\ Len(units) = Len(h)
      /\ \A i \in 1..Len(h) : units[i] = [unit |-> "octet", value |-> h[i]]
  BY <1>3 DEF Octets
<1> HIDE DEF units, means, body, c
<1>8. Extends(units \o body, units, body)
  <2>1. units \in Seq(Units)
    BY <1>2 DEF Lines
  <2> QED
    BY <1>5, <2>1, ConcatExtends
<1>9. IsFrame(c)
  BY <1>4, <1>5, <1>6, <1>7, <1>8 DEF IsFrame, Extends, h
<1>10. Call("frame", f.length, f.length, units) /\ Due(units, f.length, means)
  BY DEF units, means, h
<1> QED
  BY <1>1, <1>2, <1>4, <1>9, <1>10, CallForms DEF c


\* What a step leaves alone: the calls; and isWebSocket changes only when the
\* handshake was sent, with which its call returns.
LEMMA StepIs ==
  ASSUME IInv, Step
  PROVE  /\ UNCHANGED <<calls, due>> /\ pc # "idle"
         /\ failures' = {} =>
              /\ failures = {}
              /\ isWebSocket' = (isWebSocket \/ (pc' = "idle" /\ kind = "upgrade"))
              /\ pc' # "idle" => kind' = kind
<1>0. /\ pc = "payload" => kind # "upgrade"
      /\ pc \in {"chunk", "read"} => kind # "upgrade"
      /\ isWebSocket \in BOOLEAN
  BY DEF IInv, CallInv, TypeOK
<1>1. CASE SendPart
  BY <1>0, <1>1 DEF SendPart, Sending, Sendings, history, local
<1>2. CASE SendFails
  BY <1>2 DEF SendFails, Sending, Sendings
<1>3. CASE HeaderSent
  BY <1>0, <1>3 DEF HeaderSent, Sent, Sendings, history, local, SendNext, Return
<1>4. CASE PayloadSent
  BY <1>0, <1>4 DEF PayloadSent, history, Return
<1>5. CASE ReadChunk
  BY <1>0, <1>5 DEF ReadChunk, history, SendNext
<1>6. CASE ReadShort
  BY <1>6 DEF ReadShort
<1>7. CASE ChunkSent
  BY <1>0, <1>7 DEF ChunkSent, history, SendNext
<1>8. CASE FileSent
  BY <1>0, <1>8 DEF FileSent, history, Return
<1> QED
  BY <1>1, <1>2, <1>3, <1>4, <1>5, <1>6, <1>7, <1>8 DEF Step

\* The handshake is among the first n calls, or it is the last of them.
LEMMA SwitchedIs ==
  ASSUME NEW cs, NEW n \in Nat, n >= 1
  PROVE  Switched(cs, n) <=> Switched(cs, n - 1) \/ IsUpgrade(cs[n])
BY DEF Switched

\* Nothing of it changes with the steps of a call.
LEMMA SameCalls ==
  ASSUME FormInv, UNCHANGED <<calls, due>>, KindsInv'
  PROVE  FormInv'
<1>1. This' = This
  BY DEF This
<1>2. FormsInv'
  BY <1>1 DEF FormInv, FormsInv
<1>3. \E at \in [1..This' + 1 -> Nat] : StandAt(at)'
  BY <1>1 DEF FormInv, StandAt
<1> QED
  BY <1>2, <1>3 DEF FormInv

LEMMA StepForms == IInv /\ FormInv /\ Step => FormInv'
<1> SUFFICES ASSUME IInv, FormInv, Step PROVE FormInv'
  OBVIOUS
<1>1. /\ UNCHANGED <<calls, due>> /\ pc # "idle"
      /\ failures' = {} =>
           /\ failures = {}
           /\ isWebSocket' = (isWebSocket \/ (pc' = "idle" /\ kind = "upgrade"))
           /\ pc' # "idle" => kind' = kind
  BY StepIs
<1>2. This \in Nat /\ This >= 1
  BY <1>1, NumbersAre DEF IInv
<1>3. This' = This /\ calls' = calls
  BY <1>1 DEF This
<1>4. KindsInv'
  <2> SUFFICES ASSUME failures' = {}
               PROVE  /\ \A i \in 1..This :
                           calls[i].means.kind = "frame" <=> Switched(calls, i - 1)
                      /\ pc' = "idle" => (isWebSocket' <=> Switched(calls, This))
                      /\ pc' # "idle" =>
                           /\ isWebSocket' <=> Switched(calls, This - 1)
                           /\ kind' = "upgrade" <=> IsUpgrade(calls[This])
    BY <1>3 DEF KindsInv
  <2>1. /\ \A i \in 1..This :
             calls[i].means.kind = "frame" <=> Switched(calls, i - 1)
        /\ isWebSocket <=> Switched(calls, This - 1)
        /\ kind = "upgrade" <=> IsUpgrade(calls[This])
    BY <1>1 DEF FormInv, KindsInv
  <2>2. Switched(calls, This) <=> Switched(calls, This - 1) \/ IsUpgrade(calls[This])
    BY <1>2, SwitchedIs
  <2>3. /\ isWebSocket' <=> isWebSocket \/ (pc' = "idle" /\ kind = "upgrade")
        /\ pc' # "idle" => kind' = kind
    BY <1>1
  <2> QED
    BY <2>1, <2>2, <2>3, Zenon
<1> QED
  BY <1>1, <1>4, SameCalls

LEMMA StutterForms ==
  FormInv /\ UNCHANGED <<pc, kind, isWebSocket, history>> => FormInv'
<1> SUFFICES ASSUME FormInv, UNCHANGED <<pc, kind, isWebSocket, history>>
             PROVE  FormInv'
  OBVIOUS
<1>1. UNCHANGED <<calls, due, failures>>
  BY DEF history
<1>2. KindsInv'
  BY <1>1 DEF FormInv, KindsInv, This
<1> QED
  BY <1>1, <1>2, SameCalls

LEMMA InitForms == Init => FormInv
<1> SUFFICES ASSUME Init PROVE FormInv
  OBVIOUS
<1>1. /\ calls = << >> /\ due = << >> /\ This = 0 /\ Len(due) = 0
      /\ pc = "idle" /\ ~isWebSocket
  BY DEF Init, This
<1>2. FormsInv
  BY <1>1 DEF FormsInv
<1>3. KindsInv
  BY <1>1 DEF KindsInv, Switched
<1>4. \E at \in [1..This + 1 -> Nat] : StandAt(at)
  <2> DEFINE at == [i \in 1..This + 1 |-> 0]
  <2>1. at \in [1..This + 1 -> Nat] /\ at[1] = 0 /\ at[This + 1] = 0
    BY <1>1
  <2>2. \A i \in 1..This + 1 : at[i] = 0
    OBVIOUS
  <2> HIDE DEF at
  <2>3. StandAt(at)
    BY <1>1, <2>1, <2>2 DEF StandAt
  <2> QED
    BY <2>1, <2>3
<1> QED
  BY <1>2, <1>3, <1>4 DEF FormInv

\* What is due is made of responses and, behind the handshake, of frames.
LEMMA FormsInvariance == Spec => [](IInv /\ FormInv)
<1>1. Init => IInv /\ FormInv
  BY InitInv, InitForms
<1>2. IInv /\ FormInv /\ [Next]_vars => FormInv'
  <2> SUFFICES ASSUME IInv, FormInv, [Next]_vars PROVE FormInv'
    OBVIOUS
  <2>1. CASE SendFrameRefused
    BY <2>1, StutterForms DEF SendFrameRefused, local
  <2>2. CASE UNCHANGED vars
    BY <2>2, StutterForms DEF vars, local
  <2> QED
    BY <2>1, <2>2, SendContentForms, SendFileForms, SendMissingForms,
       UpgradeForms, SendFrameForms, StepForms
    DEF Next, NewCall
<1> QED
  BY <1>1, <1>2, Invariance, PTL DEF Spec

-----------------------------------------------------------------------------
(* What the client reads from a place on is determined: every message ends *)
(* behind its first place.                                                 *)

LEMMA HeaderNumbers ==
  ASSUME NEW h \in [1..10 -> Nat]
  PROVE  /\ DecodedSize(h) \in {2, 4, 10}
         /\ DecodedLength(h) \in Int /\ DecodedLength(h) >= -1
<1>1. /\ h[2] \in Nat /\ h[3] \in Nat /\ h[4] \in Nat
      /\ h[7] \in Nat /\ h[8] \in Nat /\ h[9] \in Nat /\ h[10] \in Nat
  OBVIOUS
<1>2. Number2(h, 3) \in Nat
  BY <1>1 DEF Number2
<1>3. Number2(h, 7) \in Nat
  BY <1>1 DEF Number2
<1>4. Number4(h, 7) \in Nat
  BY <1>1, <1>3 DEF Number4
<1>5. DecodedSize(h) \in {2, 4, 10}
  BY DEF DecodedSize
<1> QED
  BY <1>1, <1>2, <1>4, <1>5 DEF DecodedLength

LEMMA UnitIs ==
  ASSUME out \in Seq(Units)
  PROVE  /\ Len(out) \in Nat /\ End \in Nat /\ End = Len(out) + 1
         /\ \A i \in 1..Len(out) :
              out[i].unit \in {"status", "length", "accept", "blank", "octet"} =>
                out[i].value \in Nat
<1>1. \A u \in Units :
        u.unit \in {"status", "length", "accept", "blank", "octet"} => u.value \in Nat
  BY DEF Units
<1>2. \A i \in 1..Len(out) : out[i] \in Units
  OBVIOUS
<1> QED
  BY <1>1, <1>2 DEF End

LEMMA HeaderAtIs ==
  ASSUME out \in Seq(Units), NEW p \in 1..Len(out)
  PROVE  HeaderAt(p) \in [1..10 -> Nat]
<1> SUFFICES ASSUME NEW i \in 1..10, AreOctets(p, i)
             PROVE  out[p + i - 1].value \in Nat
  BY DEF HeaderAt
<1>1. Len(out) \in Nat /\ End = Len(out) + 1
  BY UnitIs
<1>2. p + i - 1 \in p..p + i - 1 /\ p + i - 1 \in 1..Len(out)
  BY <1>1 DEF AreOctets
<1>3. out[p + i - 1].unit = "octet"
  BY <1>2 DEF AreOctets
<1> QED
  BY <1>2, <1>3, UnitIs

LEMMA NextIsLater ==
  ASSUME out \in Seq(Units), NEW p \in 1..Len(out)
  PROVE  /\ ~FrameIsCut(p) => FrameEnd(p) \in p + 1..End
         /\ ~ResponseIsCut(p) => ResponseEnd(p) \in p + 1..End
<1>1. Len(out) \in Nat /\ End \in Nat /\ End = Len(out) + 1 /\ p \in Nat
  BY UnitIs
<1>2. ASSUME ~FrameIsCut(p) PROVE FrameEnd(p) \in p + 1..End
  <2>1. /\ DecodedSize(HeaderAt(p)) \in {2, 4, 10}
        /\ DecodedLength(HeaderAt(p)) \in Int /\ DecodedLength(HeaderAt(p)) >= -1
    BY HeaderAtIs, HeaderNumbers
  <2>2. FrameEnd(p) \in Int /\ FrameEnd(p) >= p + 1
    BY <1>1, <2>1 DEF FrameEnd, PayloadAt
  <2>3. FrameEnd(p) <= End
    BY <1>1, <1>2, <2>2 DEF FrameIsCut
  <2> QED
    BY <1>1, <2>2, <2>3
<1>3. ASSUME ~ResponseIsCut(p) PROVE ResponseEnd(p) \in p + 1..End
  <2> DEFINE q == HeadEnd(p)
  <2>1. Blanks(p) \subseteq Nat /\ Blanks(p) # {}
    BY <1>1, <1>3 DEF ResponseIsCut, Blanks
  <2>2. q \in Blanks(p)
    BY <2>1, LeastExists DEF HeadEnd
  <2>3. q \in p..Len(out)
    BY <2>2 DEF Blanks
  <2>4. BodyLength(p) \in Nat
    <3> DEFINE lengths == Values("length", p, q)
    <3>1. lengths \subseteq Nat
      <4>1. \A i \in p..q : i \in 1..Len(out)
        BY <1>1, <2>3
      <4> HIDE DEF q
      <4>2. \A i \in p..q : out[i].unit = "length" => out[i].value \in Nat
        BY <4>1, UnitIs
      <4> QED
        BY <4>2 DEF Values
    <3>2. lengths # {} => (CHOOSE n \in lengths : TRUE) \in lengths
      OBVIOUS
    <3>3. Len(out) - q \in Nat
      BY <1>1, <2>3
    <3>4. BodyLength(p) = IF 101 \in Values("status", p, q) THEN 0
                          ELSE IF lengths = {} THEN Len(out) - q
                          ELSE CHOOSE n \in lengths : TRUE
      BY DEF BodyLength
    <3>5. lengths # {} => (CHOOSE n \in lengths : TRUE) \in Nat
      BY <3>1, <3>2, Zenon
    <3> HIDE DEF q, lengths
    <3>6. CASE 101 \in Values("status", p, q)
      BY <3>4, <3>6
    <3>7. CASE 101 \notin Values("status", p, q) /\ lengths = {}
      BY <3>3, <3>4, <3>7
    <3>8. CASE 101 \notin Values("status", p, q) /\ lengths # {}
      BY <3>4, <3>5, <3>8, Zenon
    <3> QED
      BY <3>6, <3>7, <3>8
  <2> HIDE DEF q
  <2>5. ResponseEnd(p) = q + BodyLength(p) + 1
    BY DEF ResponseEnd, q
  <2>6. ResponseEnd(p) \in Int /\ ResponseEnd(p) >= p + 1
    BY <1>1, <2>3, <2>4, <2>5
  <2>7. ResponseEnd(p) <= End
    BY <1>1, <1>3, <2>6 DEF ResponseIsCut
  <2> QED
    BY <1>1, <2>6, <2>7
<1> QED
  BY <1>2, <1>3

\* What is read from a place on depends on what is read from later ones.
LEMMA ReadNextIsLocal ==
  ASSUME out \in Seq(Units), NEW place \in Places, NEW g, NEW h,
         \A later \in Places : later[1] > place[1] => g[later] = h[later]
  PROVE  ReadNext(g, place) = ReadNext(h, place)
<1> DEFINE p == place[1]
           ws == place[2]
<1>1. p \in 1..End /\ ws \in BOOLEAN /\ End = Len(out) + 1 /\ Len(out) \in Nat
  BY UnitIs DEF Places
<1>2. CASE p = End
  BY <1>2 DEF ReadNext
<1>3. CASE p # End
  <2>1. p \in 1..Len(out)
    BY <1>1, <1>3
  <2>2. ASSUME NEW next \in p + 1..End, NEW b \in BOOLEAN
        PROVE  g[<<next, b>>] = h[<<next, b>>]
    <3>1. <<next, b>> \in Places /\ <<next, b>>[1] > p
      BY <1>1 DEF Places
    <3> QED
      BY <3>1
  <2>3. ~FrameIsCut(p) => g[<<FrameEnd(p), TRUE>>] = h[<<FrameEnd(p), TRUE>>]
    BY <2>1, <2>2, NextIsLater, Zenon
  <2> DEFINE next == <<ResponseEnd(p), out[p].value = 101>>
  <2>4. ~ResponseIsCut(p) => g[next] = h[next]
    <3>1. (out[p].value = 101) \in BOOLEAN
      OBVIOUS
    <3> QED
      BY <2>1, <2>2, <3>1, NextIsLater, Zenon
  <2> HIDE DEF p, ws
  <2>5. \A r : ReadNext(r, place) =
          IF p = End THEN << >>
          ELSE IF ws
          THEN IF FrameIsCut(p) THEN <<Cut>>
               ELSE <<FrameAt(p)>> \o r[<<FrameEnd(p), TRUE>>]
          ELSE IF ResponseIsCut(p) THEN <<Cut>>
               ELSE <<ResponseAt(p)>> \o r[next]
    BY Zenon DEF ReadNext, p, ws
  <2> HIDE DEF next
  <2>6. CASE ws
    <3>1. \A r : ReadNext(r, place) =
                   IF FrameIsCut(p) THEN <<Cut>>
                   ELSE <<FrameAt(p)>> \o r[<<FrameEnd(p), TRUE>>]
      BY <1>3, <2>5, <2>6, Zenon
    <3> QED
      BY <2>3, <3>1, Zenon
  <2>7. CASE ~ws
    <3>1. \A r : ReadNext(r, place) =
                   IF ResponseIsCut(p) THEN <<Cut>>
                   ELSE <<ResponseAt(p)>> \o r[next]
      BY <1>3, <2>5, <2>7, Zenon
    <3> QED
      BY <2>4, <3>1, Zenon
  <2> QED
    BY <2>6, <2>7
<1> QED
  BY <1>2, <1>3

\* The function g is what is read from the places from lo on.
Solves(g, lo) ==
  /\ g = [place \in Places |-> g[place]]
  /\ \A place \in Places : place[1] >= lo => g[place] = ReadNext(g, place)

\* So what is read is defined, from the end of the stream back to its begin.
LEMMA ReadIs ==
  ASSUME out \in Seq(Units)
  PROVE  \A place \in Places : Read[place] = ReadNext(Read, place)
<1>1. /\ Len(out) \in Nat /\ End \in Nat /\ End = Len(out) + 1
      /\ \A place \in Places : place[1] \in 1..End
  BY UnitIs DEF Places
<1>2. \A lo \in 1..End + 1 : \E g : Solves(g, lo)
  <2> DEFINE T == {lo \in 1..End + 1 : \A g : ~Solves(g, lo)}
  <2> SUFFICES ASSUME T # {} PROVE FALSE
    OBVIOUS
  <2>1. PICK lo \in T : \A i \in T : lo >= i
    <3>1. End + 1 \in Nat /\ T \subseteq 1..End + 1
      BY <1>1
    <3> HIDE DEF T
    <3> QED
      BY <3>1, GreatestExists
  <2>2. lo \in 1..End + 1 /\ \A g : ~Solves(g, lo)
    BY <2>1
  <2>3. CASE lo = End + 1
    <3> DEFINE g == [place \in Places |-> 0]
    <3>1. \A place \in Places : ~(place[1] >= lo)
      BY <1>1, <2>3
    <3>2. g = [place \in Places |-> g[place]]
      OBVIOUS
    <3> HIDE DEF g
    <3>3. Solves(g, lo)
      BY <3>1, <3>2, Zenon DEF Solves
    <3> QED
      BY <2>2, <3>3
  <2>4. CASE lo # End + 1
    <3>1. lo + 1 \in 1..End + 1 /\ ~(lo >= lo + 1)
      BY <1>1, <2>2, <2>4
    <3>2. lo + 1 \notin T
      BY <2>1, <3>1
    <3>3. PICK g : Solves(g, lo + 1)
      BY <3>1, <3>2
    <3> DEFINE h == [place \in Places |->
                       IF place[1] = lo THEN ReadNext(g, place) ELSE g[place]]
    <3>4. /\ h = [place \in Places |-> h[place]]
          /\ \A place \in Places :
               h[place] = IF place[1] = lo THEN ReadNext(g, place) ELSE g[place]
      OBVIOUS
    <3> HIDE DEF h
    <3>5. ASSUME NEW place \in Places, place[1] >= lo
          PROVE  h[place] = ReadNext(h, place)
      <4>1. \A later \in Places : later[1] > place[1] => later[1] # lo
        BY <1>1, <2>2, <3>5
      <4>2. \A later \in Places : later[1] > place[1] => g[later] = h[later]
        BY <3>4, <4>1
      <4>3. ReadNext(g, place) = ReadNext(h, place)
        BY <4>2, ReadNextIsLocal
      <4>4. CASE place[1] = lo
        BY <3>4, <4>3, <4>4
      <4>5. CASE place[1] # lo
        <5>1. place[1] >= lo + 1
          BY <1>1, <2>2, <3>5, <4>5
        <5>2. g[place] = ReadNext(g, place)
          BY <3>3, <5>1 DEF Solves
        <5> QED
          BY <3>4, <4>3, <4>5, <5>2
      <4> QED
        BY <4>4, <4>5
    <3>6. Solves(h, lo)
      BY <3>4, <3>5 DEF Solves
    <3> QED
      BY <2>2, <3>6
  <2> QED
    BY <2>3, <2>4
<1>3. PICK g : Solves(g, 1)
  <2>1. 1 \in 1..End + 1
    BY <1>1
  <2> QED
    BY <1>2, <2>1
<1>4. g = [place \in Places |-> ReadNext(g, place)]
  <2>1. \A place \in Places : g[place] = ReadNext(g, place)
    BY <1>1, <1>3 DEF Solves
  <2>2. g = [place \in Places |-> g[place]]
    BY <1>3, Zenon DEF Solves
  <2> QED
    BY <2>1, <2>2, Zenon
<1>5. Read = [place \in Places |-> ReadNext(Read, place)]
  BY <1>4, Zenon DEF Read
<1> QED
  BY <1>5, Zenon

-----------------------------------------------------------------------------
(* The client reads what was due from a call.                              *)

\* The message m is what the call c sent.
Matches(m, c) ==
  /\ m.kind = c.means.kind /\ m.head = c.means.head /\ m.body = c.body
  /\ c.means.types # {} => m.types = c.means.types

\* What is due from the call c stands in the stream behind place n.
StandsBehind(c, n) ==
  n + Len(c.due) <= Len(out) /\ \A j \in 1..Len(c.due) : out[n + j] = c.due[j]

\* A part of the stream that agrees with a sequence is that sequence.
LEMMA PartIs ==
  ASSUME out \in Seq(Units), NEW s \in Seq(Units), NEW k \in Nat,
         k + Len(s) <= Len(out), \A i \in 1..Len(s) : out[k + i] = s[i]
  PROVE  Until(k + 1, Len(s)) = s
<1> DEFINE t == SubSeq(out, k + 1, k + Len(s))
<1>1. Len(s) \in Nat /\ (k + 1) + Len(s) - 1 = k + Len(s)
  BY LenProperties
<1>2. /\ t \in Seq(Units) /\ Len(t) = Len(s)
      /\ \A i \in 1..Len(s) : t[i] = out[k + i]
  BY <1>1, SliceOf
<1>3. Until(k + 1, Len(s)) = t
  BY <1>1 DEF Until
<1> HIDE DEF t
<1>4. t = s
  BY <1>2, SeqEqual
<1> QED
  BY <1>3, <1>4

\* A client decodes the same from two headers that agree up to their end.
LEMMA HeadersAgree ==
  ASSUME NEW g, NEW h, \A j \in 1..DecodedSize(h) : g[j] = h[j]
  PROVE  DecodedSize(g) = DecodedSize(h) /\ Decode(g) = Decode(h)
<1>1. CASE h[2] = 126
  <2>1. g[1] = h[1] /\ g[2] = h[2] /\ g[3] = h[3] /\ g[4] = h[4]
    BY <1>1 DEF DecodedSize
  <2>2. Number2(g, 3) = Number2(h, 3)
    BY <2>1 DEF Number2
  <2> QED
    BY <1>1, <2>1, <2>2, Zenon DEF DecodedSize, Decode, DecodedLength
<1>2. CASE h[2] = 127
  <2>1. /\ g[1] = h[1] /\ g[2] = h[2] /\ \A i \in 3..6 : g[i] = h[i]
        /\ g[7] = h[7] /\ g[8] = h[8] /\ g[9] = h[9] /\ g[10] = h[10]
    BY <1>2 DEF DecodedSize
  <2>2. Number4(g, 7) = Number4(h, 7)
    BY <2>1 DEF Number2, Number4
  <2>3. (\A i \in 3..6 : g[i] = 0) <=> (\A i \in 3..6 : h[i] = 0)
    BY <2>1, Zenon
  <2>4. h[2] # 126
    BY <1>2
  <2>5. ASSUME NEW x, x[2] = h[2]
        PROVE  /\ DecodedLength(x) =
                    IF \A i \in 3..6 : x[i] = 0 THEN Number4(x, 7) ELSE -1
               /\ DecodedSize(x) = 10
    <3>1. x[2] # 126 /\ ~(x[2] # 127) /\ x[2] = 127
      BY <1>2, <2>4, <2>5
    <3>2. DecodedSize(x) = 10
      BY <3>1 DEF DecodedSize
    <3> QED
      BY <3>1, <3>2, Zenon DEF DecodedLength
  <2>6. DecodedLength(g) = DecodedLength(h) /\ DecodedSize(g) = DecodedSize(h)
    BY <2>1, <2>2, <2>3, <2>5, Zenon
  <2> QED
    BY <2>1, <2>6, Zenon DEF Decode
<1>3. CASE h[2] # 126 /\ h[2] # 127
  <2>1. g[1] = h[1] /\ g[2] = h[2]
    BY <1>3 DEF DecodedSize
  <2> QED
    BY <1>3, <2>1, Zenon DEF DecodedSize, Decode, DecodedLength
<1> QED
  BY <1>1, <1>2, <1>3

LEMMA FrameIsRead ==
  ASSUME out \in Seq(Units), NEW c \in CallRecords, IsFrame(c),
         NEW n \in Nat, StandsBehind(c, n)
  PROVE  /\ ~FrameIsCut(n + 1) /\ FrameEnd(n + 1) = n + Len(c.due) + 1
         /\ Matches(FrameAt(n + 1), c) /\ Len(c.due) > 0
<1> DEFINE p == n + 1
           f == c.means.head
           h == HeaderOf(f)
           k == Len(h)
<1>1. /\ f \in Frames /\ c.means.kind = "frame" /\ c.means.types = {}
      /\ Len(c.body) = f.length /\ Len(c.due) = k + f.length
      /\ \A i \in 1..k : c.due[i] = [unit |-> "octet", value |-> h[i]]
      /\ \A i \in 1..Len(c.body) : c.due[k + i] = c.body[i]
  BY DEF IsFrame
<1>2. f.opcode \in 0..15 /\ f.fin \in BOOLEAN /\ f.length \in Nat /\ f.length \in Lengths
      /\ f = [opcode |-> f.opcode, fin |-> f.fin, length |-> f.length]
  <2>1. /\ f.length \in 0..MaxInt /\ f.opcode \in 0..15 /\ f.fin \in BOOLEAN
        /\ f = [opcode |-> f.opcode, fin |-> f.fin, length |-> f.length]
    BY <1>1, FramesAssumption
  <2>2. MaxInt \in Nat /\ MaxInt < 4294967296
    BY SMT DEF MaxInt
  <2> QED
    BY <2>1, <2>2 DEF Lengths
<1> HIDE DEF f
<1>3. /\ h \in Seq(0..255) /\ DecodedSize(h) = k /\ Decode(h) = f
      /\ k \in {2, 4, 10}
  <2>1. /\ h \in Seq(0..255) /\ k = HeaderSize(f.length)
        /\ DecodedSize(h) = HeaderSize(f.length)
        /\ Decode(h) = [opcode |-> f.opcode, fin |-> f.fin, length |-> f.length]
    BY <1>2, HeaderDecodes DEF HeaderOf
  <2> HIDE DEF h
  <2>2. HeaderSize(f.length) \in {2, 4, 10}
    BY DEF HeaderSize
  <2> QED
    BY <1>2, <2>1, <2>2, Zenon
<1> HIDE DEF h
<1>4. /\ Len(out) \in Nat /\ End = Len(out) + 1
      /\ c.body \in Seq(Units) /\ c.due \in Seq(Units)
      /\ Len(c.body) \in Nat /\ Len(c.due) \in Nat
  BY UnitIs DEF CallRecords
<1>5. /\ n + Len(c.due) <= Len(out)
      /\ \A j \in 1..Len(c.due) : out[n + j] = c.due[j]
  BY DEF StandsBehind
<1>6. /\ k \in Nat /\ k >= 2 /\ k <= 10 /\ Len(c.body) \in Nat
       /\ Len(c.due) = k + Len(c.body)
  <2>1. k \in Nat /\ k >= 2 /\ k <= 10
    BY <1>3
  <2>2. Len(c.due) = k + Len(c.body)
    BY <1>1
  <2> QED
    BY <1>4, <2>1, <2>2
<1>7. ASSUME NEW j \in 1..k
      PROVE  out[n + j].unit = "octet" /\ out[n + j].value = h[j]
  <2>1. j \in 1..Len(c.due)
    BY <1>6
  <2>2. out[n + j] = [unit |-> "octet", value |-> h[j]]
    BY <1>1, <1>5, <2>1, Zenon
  <2> QED
    BY <2>2
<1>8. ASSUME NEW m \in 1..k PROVE AreOctets(p, m)
  <2>1. p + m <= End
    BY <1>4, <1>5, <1>6
  <2>2. ASSUME NEW i \in p..p + m - 1 PROVE out[i].unit = "octet"
    <3>1. i - n \in 1..k /\ n + (i - n) = i
      BY <1>6
    <3>2. out[n + (i - n)].unit = "octet"
      BY <1>7, <3>1, Zenon
    <3> QED
      BY <3>1, <3>2
  <2> QED
    BY <2>1, <2>2 DEF AreOctets
<1>9. \A j \in 1..DecodedSize(h) : HeaderAt(p)[j] = h[j]
  <2> SUFFICES ASSUME NEW j \in 1..k PROVE HeaderAt(p)[j] = h[j]
    BY <1>3
  <2>1. j \in 1..10 /\ p + j - 1 = n + j
    BY <1>3
  <2>2. HeaderAt(p)[j] = out[p + j - 1].value
    BY <1>8, <2>1 DEF HeaderAt
  <2>3. out[n + j].value = h[j]
    BY <1>7, Zenon
  <2> QED
    BY <2>1, <2>2, <2>3, Zenon
<1>10. DecodedSize(HeaderAt(p)) = k /\ Decode(HeaderAt(p)) = f
  BY <1>3, <1>9, HeadersAgree
<1>11. DecodedLength(HeaderAt(p)) = Len(c.body)
  <2>1. Decode(HeaderAt(p)).length = DecodedLength(HeaderAt(p))
    BY DEF Decode
  <2> QED
    BY <1>1, <1>10, <2>1 DEF f
<1>12. PayloadAt(p) = (n + k) + 1 /\ FrameEnd(p) = n + Len(c.due) + 1
  <2>1. DecodedSize(HeaderAt(p)) = k
    BY <1>10
  <2>2. PayloadAt(p) = (n + 1) + k
    BY <2>1 DEF PayloadAt
  <2>3. FrameEnd(p) = PayloadAt(p) + Len(c.body)
    BY <1>11 DEF FrameEnd
  <2> QED
    BY <1>6, <2>2, <2>3
<1>13. ~FrameIsCut(p)
  <2>1. k \in 1..k
    BY <1>3
  <2>2. FrameEnd(p) <= End
    BY <1>4, <1>5, <1>12
  <2>3. ~(FrameEnd(p) > End)
    BY <1>4, <1>12, <2>2
  <2> QED
    BY <1>8, <1>10, <2>1, <2>3 DEF FrameIsCut
<1>14. Until(PayloadAt(p), Len(c.body)) = c.body
  <2>1. n + k \in Nat /\ (n + k) + Len(c.body) <= Len(out)
    BY <1>1, <1>2, <1>3, <1>4, <1>5
  <2>2. \A i \in 1..Len(c.body) : out[(n + k) + i] = c.body[i]
    <3>1. \A i \in 1..Len(c.body) : k + i \in 1..Len(c.due) /\ n + (k + i) = (n + k) + i
      BY <1>1, <1>2, <1>3, <1>4
    <3> QED
      BY <1>1, <1>5, <3>1
  <2> QED
    BY <1>4, <1>12, <2>1, <2>2, PartIs
<1>15. Matches(FrameAt(p), c)
  BY <1>1, <1>10, <1>11, <1>14 DEF Matches, FrameAt, f
<1>16. Len(c.due) > 0
  BY <1>6
<1> QED
  BY <1>12, <1>13, <1>15, <1>16

LEMMA ResponseIsRead ==
  ASSUME out \in Seq(Units), NEW c \in CallRecords, NEW q \in Nat, IsResponse(c, q),
         NEW n \in Nat, StandsBehind(c, n),
         \/ c.means.end = "length"
         \/ c.means.end = "close" /\ n + Len(c.due) = Len(out)
  PROVE  /\ ~ResponseIsCut(n + 1) /\ ResponseEnd(n + 1) = n + Len(c.due) + 1
         /\ Matches(ResponseAt(n + 1), c) /\ Len(c.due) > 0
         /\ out[n + 1].value = c.means.head
<1> DEFINE p == n + 1
<1>1. /\ q >= 2 /\ Len(c.due) = q + Len(c.body) /\ Len(c.body) \in Nat
      /\ c.body \in Seq(Units) /\ Len(out) \in Nat /\ End = Len(out) + 1
      /\ n + Len(c.due) <= Len(out)
  <2>1. c.body \in Seq(Units) /\ c.due \in Seq(Units)
    BY DEF CallRecords
  <2>2. Len(c.body) \in Nat /\ Len(c.due) \in Nat
    BY <2>1
  <2>3. q \in 2..Len(c.due) /\ Len(c.due) = q + Len(c.body)
    BY DEF IsResponse
  <2> QED
    BY <2>1, <2>2, <2>3, UnitIs DEF StandsBehind
<1>2. ASSUME NEW j \in 1..Len(c.due) PROVE out[n + j] = c.due[j]
  BY DEF StandsBehind
<1>3. \A j \in 1..q : j \in 1..Len(c.due)
  BY <1>1
<1>4. out[p].unit = "status" /\ out[p].value = c.means.head
  <2>1. 1 \in 1..q /\ c.due[1] = Line("status", c.means.head)
    BY <1>1 DEF IsResponse
  <2>2. out[n + 1] = Line("status", c.means.head)
    BY <1>2, <1>3, <2>1, Zenon
  <2> QED
    BY <2>2 DEF Line
<1>5. out[n + q].unit = "blank"
  <2>1. q \in 1..q /\ c.due[q] = Blank
    BY <1>1 DEF IsResponse
  <2>2. out[n + q] = Blank
    BY <1>2, <1>3, <2>1, Zenon
  <2> QED
    BY <2>2 DEF Blank, Line
<1>6. \A j \in 2..q - 1 : c.due[j].unit # "status" /\ c.due[j].unit # "blank"
  BY DEF IsResponse
<1>7. HeadEnd(p) = n + q /\ Blanks(p) # {}
  <2>1. n + q \in Blanks(p)
    BY <1>1, <1>5 DEF Blanks
  <2>2. ASSUME NEW i \in Blanks(p) PROVE n + q <= i
    <3>1. i \in p..Len(out) /\ out[i].unit = "blank"
      BY DEF Blanks
    <3>2. ASSUME i < n + q PROVE FALSE
      <4>1. i # n + 1
        BY <1>4, <3>1
      <4>2. i - n \in 2..q - 1 /\ i - n \in 1..q /\ n + (i - n) = i
        BY <1>1, <3>1, <3>2, <4>1
      <4>3. out[i] = c.due[i - n]
        BY <1>2, <1>3, <4>2
      <4> QED
        BY <1>6, <3>1, <4>2, <4>3
    <3> QED
      BY <1>1, <3>1, <3>2
  <2>3. \A i \in Blanks(p) : (\A j \in Blanks(p) : i <= j) => i = n + q
    <3>1. \A i \in Blanks(p) : i \in Int
      BY DEF Blanks
    <3> QED
      BY <2>1, <2>2, <3>1
  <2> QED
    BY <2>1, <2>2, <2>3 DEF HeadEnd
<1>8. /\ \A i \in p..n + q : i - n \in 1..q /\ n + (i - n) = i
      /\ \A j \in 1..q : n + j \in p..n + q
  BY <1>1
<1>9. \A i \in p..n + q : out[i] = c.due[i - n]
  BY <1>2, <1>3, <1>8
<1>10. ASSUME NEW name
       PROVE  Values(name, p, n + q) =
                {c.due[j].value : j \in {k \in 1..q : c.due[k].unit = name}}
  <2> DEFINE meant == {c.due[j].value : j \in {k \in 1..q : c.due[k].unit = name}}
  <2>1. ASSUME NEW v \in Values(name, p, n + q) PROVE v \in meant
    <3>1. PICK i \in p..n + q : out[i].unit = name /\ v = out[i].value
      BY DEF Values
    <3>2. i - n \in 1..q /\ out[i] = c.due[i - n]
      BY <1>8, <1>9
    <3> QED
      BY <3>1, <3>2
  <2>2. ASSUME NEW v \in meant PROVE v \in Values(name, p, n + q)
    <3>1. PICK j \in 1..q : c.due[j].unit = name /\ v = c.due[j].value
      OBVIOUS
    <3>2. n + j \in p..n + q /\ out[n + j] = c.due[j]
      BY <1>2, <1>3, <1>8
    <3> QED
      BY <3>1, <3>2 DEF Values
  <2> HIDE DEF meant
  <2>3. Values(name, p, n + q) = meant
    BY <2>1, <2>2, Zenon
  <2> QED
    BY <2>3 DEF meant
<1>11. Types(p, n + q) = {c.due[j].type : j \in {k \in 1..q : c.due[k].unit = "type"}}
  <2> DEFINE meant == {c.due[j].type : j \in {k \in 1..q : c.due[k].unit = "type"}}
  <2>1. ASSUME NEW v \in Types(p, n + q) PROVE v \in meant
    <3>1. PICK i \in p..n + q : out[i].unit = "type" /\ v = out[i].type
      BY DEF Types
    <3>2. i - n \in 1..q /\ out[i] = c.due[i - n]
      BY <1>8, <1>9
    <3> QED
      BY <3>1, <3>2
  <2>2. ASSUME NEW v \in meant PROVE v \in Types(p, n + q)
    <3>1. PICK j \in 1..q : c.due[j].unit = "type" /\ v = c.due[j].type
      OBVIOUS
    <3>2. n + j \in p..n + q /\ out[n + j] = c.due[j]
      BY <1>2, <1>3, <1>8
    <3> QED
      BY <3>1, <3>2 DEF Types
  <2> HIDE DEF meant
  <2>3. Types(p, n + q) = meant
    BY <2>1, <2>2, Zenon
  <2> QED
    BY <2>3 DEF meant
<1>12. Values("status", p, n + q) = {c.means.head}
  <2>1. p \in p..n + q
    BY <1>1
  <2>2. c.means.head \in Values("status", p, n + q)
    BY <1>4, <2>1 DEF Values
  <2>3. ASSUME NEW i \in p..n + q, out[i].unit = "status" PROVE i = p
    <3>1. i # n + q
      BY <1>5, <2>3
    <3>2. i # p => i - n \in 2..q - 1
      BY <1>1, <3>1
    <3> QED
      BY <1>6, <1>9, <2>3, <3>2
  <2>4. \A v \in Values("status", p, n + q) : v = c.means.head
    BY <1>4, <2>3 DEF Values
  <2> QED
    BY <2>2, <2>4
<1>13. BodyLength(p) = Len(c.body)
  <2> DEFINE lengths == Values("length", p, n + q)
  <2>1. BodyLength(p) = IF 101 \in {c.means.head} THEN 0
                        ELSE IF lengths = {} THEN Len(out) - (n + q)
                        ELSE CHOOSE m \in lengths : TRUE
    <3>1. BodyLength(p) = IF 101 \in Values("status", p, HeadEnd(p)) THEN 0
                          ELSE IF Values("length", p, HeadEnd(p)) = {}
                               THEN Len(out) - HeadEnd(p)
                          ELSE CHOOSE m \in Values("length", p, HeadEnd(p)) : TRUE
      BY Zenon DEF BodyLength
    <3>2. HeadEnd(p) = n + q
      BY <1>7
    <3> QED
      BY <3>1, <3>2, <1>12, Zenon
  <2>2. CASE c.means.head = 101
    BY <2>1, <2>2 DEF IsResponse
  <2>3. CASE c.means.head # 101 /\ c.means.end = "length"
    <3>1. lengths = {Len(c.body)}
      BY <1>10, <2>3 DEF IsResponse
    <3>2. BodyLength(p) = CHOOSE m \in lengths : TRUE
      <4> HIDE DEF lengths
      <4> QED
        BY <2>1, <2>3, <3>1
    <3> QED
      BY <3>1, <3>2
  <2>4. CASE c.means.head # 101 /\ c.means.end = "close"
    <3>1. \A j \in 1..q : c.due[j].unit # "length"
      BY <2>4 DEF IsResponse
    <3>2. lengths = {}
      BY <1>9, <1>8, <3>1 DEF Values
    <3>3. n + Len(c.due) = Len(out)
      BY <2>4
    <3>4. Len(out) - (n + q) = Len(c.body)
      BY <1>1, <3>3
    <3> QED
      BY <2>1, <2>4, <3>2, <3>4
  <2> QED
    BY <2>2, <2>3, <2>4
<1>14. ResponseEnd(p) = n + Len(c.due) + 1
  BY <1>1, <1>7, <1>13 DEF ResponseEnd
<1>15. ~ResponseIsCut(p)
  <2>1. ~(ResponseEnd(p) > End)
    BY <1>1, <1>14
  <2> QED
    BY <1>4, <1>7, <2>1, Zenon DEF ResponseIsCut
<1>16. Until(HeadEnd(p) + 1, BodyLength(p)) = c.body
  <2>1. n + q \in Nat /\ (n + q) + Len(c.body) <= Len(out)
    <3> DEFINE b == Len(c.body)
    <3>1. b \in Nat /\ Len(out) \in Nat /\ n + (q + b) <= Len(out)
      BY <1>1
    <3> HIDE DEF b
    <3>2. n + q \in Nat /\ (n + q) + b = n + (q + b)
      BY <3>1
    <3>3. (n + q) + b <= Len(out)
      BY <3>1, <3>2
    <3> QED
      BY <3>2, <3>3 DEF b
  <2>2. ASSUME NEW i \in 1..Len(c.body) PROVE out[(n + q) + i] = c.body[i]
    <3>1. q + i \in 1..Len(c.due) /\ n + (q + i) = (n + q) + i
      BY <1>1
    <3>2. c.due[q + i] = c.body[i]
      BY DEF IsResponse
    <3> QED
      BY <1>2, <3>1, <3>2
  <2>3. Until((n + q) + 1, Len(c.body)) = c.body
    BY <1>1, <2>1, <2>2, PartIs
  <2> QED
    BY <1>7, <1>13, <2>3
<1>17. c.means.types # {} => Types(p, HeadEnd(p)) = c.means.types
  BY <1>7, <1>11 DEF IsResponse
<1>18. c.means.kind = "response"
  BY DEF IsResponse
<1>19. Matches(ResponseAt(p), c)
  BY <1>4, <1>16, <1>17, <1>18 DEF Matches, ResponseAt
<1>20. Len(c.due) > 0
  BY <1>1
<1> QED
  BY <1>4, <1>14, <1>15, <1>19, <1>20

-----------------------------------------------------------------------------
(* It reads one call after the other.                                      *)

\* What the client reads from call i on, when it stands behind at[i].
ReadFrom(at, i) == Read[<<at[i] + 1, Switched(calls, i - 1)>>]

Readable == {FrameAt(p) : p \in Nat} \cup {ResponseAt(p) : p \in Nat}

\* The messages m are what the calls from i on sent.
TellsOf(m, i) ==
  /\ m \in Seq(Readable) /\ Len(m) = This - i + 1
  /\ \A k \in 1..Len(m) : Matches(m[k], calls[i + k - 1])

LEMMA OneMore ==
  ASSUME This \in Nat, NEW i \in 1..This, NEW m \in Readable, Matches(m, calls[i]),
         NEW rest, TellsOf(rest, i + 1)
  PROVE  TellsOf(<<m>> \o rest, i)
<1> DEFINE all == <<m>> \o rest
<1>1. /\ rest \in Seq(Readable) /\ Len(rest) = This - (i + 1) + 1
      /\ \A k \in 1..Len(rest) : Matches(rest[k], calls[(i + 1) + k - 1])
  BY DEF TellsOf
<1>2. <<m>> \in Seq(Readable) /\ Len(<<m>>) = 1 /\ <<m>>[1] = m
  <2> HIDE DEF Readable
  <2> QED
    OBVIOUS
<1>3. all \in Seq(Readable) /\ Extends(all, <<m>>, rest)
  BY <1>1, <1>2, ConcatExtends
<1> HIDE DEF all
<1>4. /\ Len(all) = 1 + Len(rest) /\ all[1] = m
      /\ \A k \in 1..Len(rest) : all[1 + k] = rest[k]
  BY <1>2, <1>3 DEF Extends
<1>5. ASSUME NEW k \in 1..Len(all) PROVE Matches(all[k], calls[i + k - 1])
  <2>1. CASE k = 1
    BY <1>4, <2>1
  <2>2. CASE k # 1
    <3>1. k - 1 \in 1..Len(rest) /\ 1 + (k - 1) = k /\ (i + 1) + (k - 1) - 1 = i + k - 1
      BY <1>1, <1>4, <2>2
    <3>2. all[k] = rest[k - 1]
      BY <1>4, <3>1
    <3>3. Matches(rest[k - 1], calls[(i + 1) + (k - 1) - 1])
      BY <1>1, <3>1
    <3> QED
      BY <3>1, <3>2, <3>3
  <2> QED
    BY <2>1, <2>2
<1>6. Len(all) = This - i + 1
  BY <1>1, <1>4
<1> QED
  BY <1>3, <1>5, <1>6 DEF TellsOf, all

\* All that was due has been sent.
LEMMA AllIsOut ==
  ASSUME IInv, AllSent
  PROVE  /\ out \in Seq(Units) /\ Len(out) \in Nat /\ Len(out) = Len(due)
         /\ \A i \in 1..Len(out) : out[i] = due[i]
         /\ calls \in Seq(CallRecords) /\ This \in Nat
<1>1. /\ out \in Seq(Units) /\ Len(out) \in Nat /\ Len(due) \in Nat
      /\ calls \in Seq(CallRecords) /\ This \in Nat
  BY NumbersAre DEF IInv, TypeOK, CallRecords
<1>2. Remaining = 0
  BY DEF AllSent, Remaining
<1>3. Len(out) = Len(due) - Remaining /\ \A i \in 1..Len(out) : out[i] = due[i]
  BY DEF IInv, GapInv, AllSent
<1> QED
  BY <1>1, <1>2, <1>3

\* The message of call i, and behind it those of the calls that follow.
LEMMA CallIsRead ==
  ASSUME IInv, FormInv, AllSent, NEW at, StandAt(at), NEW i \in 1..This,
         TellsOf(ReadFrom(at, i + 1), i + 1)
  PROVE  TellsOf(ReadFrom(at, i), i)
<1> DEFINE c == calls[i]
           n == at[i]
           place == <<n + 1, Switched(calls, i - 1)>>
           rest == ReadFrom(at, i + 1)
<1>1. /\ out \in Seq(Units) /\ Len(out) \in Nat /\ Len(out) = Len(due)
      /\ \A j \in 1..Len(out) : out[j] = due[j]
      /\ calls \in Seq(CallRecords) /\ This \in Nat
      /\ End = Len(out) + 1
  BY AllIsOut, UnitIs
<1>2. c \in CallRecords /\ Len(c.due) \in Nat
  <2>1. c \in CallRecords
    BY <1>1 DEF This
  <2> QED
    BY <2>1 DEF CallRecords
<1>3. /\ n \in Nat /\ at[i + 1] = n + Len(c.due) /\ at[i + 1] <= Len(out)
      /\ at[This + 1] = Len(out)
  <2>1. /\ at \in [1..This + 1 -> Nat] /\ at[This + 1] = Len(out)
        /\ \A k \in 1..This + 1 : at[k] <= Len(out)
    BY <1>1, Zenon DEF StandAt
  <2>2. at[i + 1] = n + Len(c.due)
    BY Zenon DEF StandAt
  <2>3. i \in 1..This + 1 /\ i + 1 \in 1..This + 1
    BY <1>1
  <2> QED
    BY <2>1, <2>2, <2>3
<1>4. StandsBehind(c, n)
  <2>1. \A j \in 1..Len(c.due) : due[n + j] = c.due[j]
    BY Zenon DEF StandAt
  <2>2. \A j \in 1..Len(c.due) : n + j \in 1..Len(out)
    <3>1. n \in Nat /\ n + Len(c.due) <= Len(out)
      BY <1>3
    <3> HIDE DEF c, n
    <3> QED
      BY <3>1, <1>1, <1>2
  <2>3. n + Len(c.due) <= Len(out)
    BY <1>3
  <2> QED
    BY <1>1, <2>1, <2>2, <2>3, Zenon DEF StandsBehind
<1>5. place \in Places /\ n + 1 \in 1..End
  <2>1. n + 1 \in 1..End
    BY <1>1, <1>2, <1>3
  <2>2. Switched(calls, i - 1) \in BOOLEAN
    BY Zenon DEF Switched
  <2> QED
    BY <2>1, <2>2 DEF Places
<1>6. ReadFrom(at, i) = ReadNext(Read, place)
  BY <1>1, <1>5, ReadIs, Zenon DEF ReadFrom
<1>7. /\ c.means.kind = "frame" <=> Switched(calls, i - 1)
      /\ Switched(calls, i) <=> Switched(calls, i - 1) \/ IsUpgrade(c)
  <2>1. c.means.kind = "frame" <=> Switched(calls, i - 1)
    BY DEF FormInv, KindsInv, AllSent
  <2>2. i \in Nat /\ i >= 1
    BY <1>1
  <2> QED
    BY <2>1, <2>2, SwitchedIs
<1>8. i + 1 - 1 = i
  BY <1>1
<1>9. rest = Read[<<at[i + 1] + 1, Switched(calls, i)>>]
  <2> DEFINE next == i + 1
  <2>1. ReadFrom(at, next) = Read[<<at[next] + 1, Switched(calls, next - 1)>>]
    BY Zenon DEF ReadFrom
  <2>2. next - 1 = i
    BY <1>8
  <2> HIDE DEF next
  <2>3. ReadFrom(at, next) = Read[<<at[next] + 1, Switched(calls, i)>>]
    BY <2>1, <2>2, Zenon
  <2> QED
    BY <2>3 DEF next
<1>10. ReadNext(Read, place) =
         IF n + 1 = End THEN << >>
         ELSE IF Switched(calls, i - 1)
         THEN IF FrameIsCut(n + 1) THEN <<Cut>>
              ELSE <<FrameAt(n + 1)>> \o Read[<<FrameEnd(n + 1), TRUE>>]
         ELSE IF ResponseIsCut(n + 1) THEN <<Cut>>
              ELSE <<ResponseAt(n + 1)>>
                     \o Read[<<ResponseEnd(n + 1), out[n + 1].value = 101>>]
  <2>1. place[1] = n + 1 /\ place[2] = Switched(calls, i - 1)
    OBVIOUS
  <2> HIDE DEF place
  <2> QED
    BY <2>1, Zenon DEF ReadNext
<1>11. CASE IsFrame(c)
  <2>1. /\ ~FrameIsCut(n + 1) /\ FrameEnd(n + 1) = n + Len(c.due) + 1
        /\ Matches(FrameAt(n + 1), c) /\ Len(c.due) > 0
    BY <1>1, <1>2, <1>3, <1>4, <1>11, FrameIsRead
  <2>2. n + 1 # End /\ FrameEnd(n + 1) = at[i + 1] + 1
    BY <1>1, <1>2, <1>3, <2>1
  <2>3. Switched(calls, i - 1) /\ Switched(calls, i)
    BY <1>7, <1>11 DEF IsFrame
  <2>4. (Switched(calls, i)) = TRUE
    BY <2>3, Zenon
  <2>5. ReadFrom(at, i) = <<FrameAt(n + 1)>> \o rest
    BY <1>6, <1>9, <1>10, <2>1, <2>2, <2>3, <2>4, Zenon
  <2>6. FrameAt(n + 1) \in Readable
    BY <1>3 DEF Readable
  <2> QED
    BY <1>1, <2>1, <2>5, <2>6, OneMore
<1>12. CASE \E q \in Nat : IsResponse(c, q)
  <2>1. PICK q \in Nat : IsResponse(c, q)
    BY <1>12
  <2>2. \/ c.means.end = "length"
        \/ c.means.end = "close" /\ n + Len(c.due) = Len(out)
    BY <1>3 DEF AllSent, This
  <2>3. /\ ~ResponseIsCut(n + 1) /\ ResponseEnd(n + 1) = n + Len(c.due) + 1
        /\ Matches(ResponseAt(n + 1), c) /\ Len(c.due) > 0
        /\ out[n + 1].value = c.means.head
    BY <1>1, <1>2, <1>3, <1>4, <2>1, <2>2, ResponseIsRead
  <2>4. n + 1 # End /\ ResponseEnd(n + 1) = at[i + 1] + 1
    BY <1>1, <1>2, <1>3, <2>3
  <2>5. c.means.kind = "response"
    BY <2>1 DEF IsResponse
  <2>6. ~Switched(calls, i - 1) /\ (Switched(calls, i) <=> out[n + 1].value = 101)
    BY <1>7, <2>3, <2>5 DEF IsUpgrade
  <2>7. (out[n + 1].value = 101) = Switched(calls, i)
    BY <2>6, Zenon DEF Switched
  <2>8. ReadFrom(at, i) = <<ResponseAt(n + 1)>> \o rest
    BY <1>6, <1>9, <1>10, <2>3, <2>4, <2>6, <2>7, Zenon
  <2>9. ResponseAt(n + 1) \in Readable
    BY <1>3 DEF Readable
  <2> QED
    BY <1>1, <2>3, <2>8, <2>9, OneMore
<1> QED
  BY <1>11, <1>12 DEF FormInv, FormsInv

\* So, from the last call back to the first, all of them are read.
LEMMA AllIsRead ==
  ASSUME IInv, FormInv, AllSent
  PROVE  TellsOf(Messages, 1)
<1>1. PICK at \in [1..This + 1 -> Nat] : StandAt(at)
  BY DEF FormInv
<1>2. out \in Seq(Units) /\ Len(out) = Len(due) /\ This \in Nat /\ End = Len(out) + 1
      /\ Len(out) \in Nat
  BY AllIsOut, UnitIs
<1>3. at[1] = 0 /\ at[This + 1] = Len(out)
  BY <1>1, <1>2, Zenon DEF StandAt
<1>4. TellsOf(ReadFrom(at, This + 1), This + 1)
  <2> DEFINE place == <<End, Switched(calls, This)>>
  <2>1. place \in Places /\ place[1] = End
    <3>1. Switched(calls, This) \in BOOLEAN /\ End \in 1..End
      BY <1>2 DEF Switched
    <3> QED
      BY <3>1 DEF Places
  <2>2. ReadFrom(at, This + 1) = Read[place]
    <3> DEFINE next == This + 1
    <3>1. at[next] + 1 = End /\ next - 1 = This
      BY <1>2, <1>3
    <3> HIDE DEF next
    <3>2. ReadFrom(at, next) = Read[place]
      BY <3>1, Zenon DEF ReadFrom
    <3> QED
      BY <3>2 DEF next
  <2>3. ReadFrom(at, This + 1) = << >>
    BY <1>2, <2>1, <2>2, ReadIs, Zenon DEF ReadNext
  <2>4. << >> \in Seq(Readable) /\ Len(<< >>) = 0 /\ This - (This + 1) + 1 = 0
    BY <1>2
  <2>5. \A k \in 1..0 : FALSE
    OBVIOUS
  <2> QED
    BY <2>3, <2>4, <2>5, Zenon DEF TellsOf
<1>5. \A i \in 1..This + 1 : TellsOf(ReadFrom(at, i), i)
  <2> DEFINE T == {i \in 1..This + 1 : ~TellsOf(ReadFrom(at, i), i)}
  <2> SUFFICES ASSUME T # {} PROVE FALSE
    OBVIOUS
  <2>1. PICK i \in T : \A j \in T : i >= j
    <3>1. This + 1 \in Nat /\ T \subseteq 1..This + 1
      BY <1>2
    <3> HIDE DEF T
    <3> QED
      BY <3>1, GreatestExists
  <2>2. i \in 1..This + 1 /\ i # This + 1
    BY <1>4, <2>1
  <2>3. i \in 1..This /\ i + 1 \in 1..This + 1 /\ ~(i >= i + 1)
    BY <1>2, <2>2
  <2>4. TellsOf(ReadFrom(at, i + 1), i + 1)
    BY <2>1, <2>3
  <2> QED
    BY <1>1, <2>1, <2>3, <2>4, CallIsRead
<1>6. Messages = ReadFrom(at, 1)
  <2>1. ~Switched(calls, 1 - 1)
    <3>1. \A i \in 1..1 - 1 : FALSE
      OBVIOUS
    <3> QED
      BY <3>1, Zenon DEF Switched
  <2>2. Switched(calls, 1 - 1) = FALSE
    BY <2>1, Zenon DEF Switched
  <2>3. ReadFrom(at, 1) = Read[<<0 + 1, FALSE>>]
    <3>1. ReadFrom(at, 1) = Read[<<at[1] + 1, Switched(calls, 1 - 1)>>]
      BY DEF ReadFrom
    <3> QED
      BY <1>3, <2>2, <3>1
  <2>4. 0 + 1 = 1
    OBVIOUS
  <2> QED
    BY <2>3, <2>4, Zenon DEF Messages
<1>7. 1 \in 1..This + 1
  BY <1>2
<1> QED
  BY <1>5, <1>6, <1>7, Zenon

LEMMA WhatIsRead ==
  ASSUME IInv, FormInv PROVE ClientReads /\ TypesAreRight
<1> SUFFICES ASSUME AllSent
             PROVE  /\ Len(Messages) = Len(calls)
                    /\ \A i \in 1..Len(calls) : Matches(Messages[i], calls[i])
  BY Zenon DEF ClientReads, TypesAreRight, Matches
<1>1. Len(calls) \in Nat
  BY AllIsOut DEF This
<1>2. /\ Len(Messages) = Len(calls) - 1 + 1
      /\ \A i \in 1..Len(Messages) : Matches(Messages[i], calls[1 + i - 1])
  BY AllIsRead, Zenon DEF TellsOf, This
<1>3. Len(Messages) = Len(calls) /\ \A i \in 1..Len(calls) : 1 + i - 1 = i
  BY <1>1, <1>2
<1> QED
  BY <1>2, <1>3

\* Whatever is sent, by any calls and in any number: when nothing failed, the
\* client that reads the stream by its status lines, its header lines, the
\* lengths these give, and the bytes of the frame headers, finds exactly the
\* responses and the frames of the calls, in their order and with their bodies
\* (HttpResponseBuilder.h:121-235, ClientConnection.cpp:355-411).
THEOREM ClientReadsInvariance == Spec => []ClientReads
<1>1. IInv /\ FormInv => ClientReads
  BY WhatIsRead
<1> QED
  BY <1>1, FormsInvariance, PTL

\* And the Content-Type it finds is the one of the table, whatever file the
\* response was sent for (HttpResponseBuilder.h:238-261).
THEOREM TypesInvariance == Spec => []TypesAreRight
<1>1. IInv /\ FormInv => TypesAreRight
  BY WhatIsRead
<1> QED
  BY <1>1, FormsInvariance, PTL
=============================================================================
