------------------------ MODULE WebSocketReceiveProofs -----------------------
(* Proofs about WebSocketReceive, for any number of frames and connections *)
(* and for every way in which recv() may cut what a client sent.           *)
EXTENDS WebSocketReceive, SequenceLemmas, TLAPS

-----------------------------------------------------------------------------
(* The inductive invariant.                                                *)

\* How many units recv() has returned, and the place of a unit among all.
Gone == 2 * Len(sent) - Len(wire)
Place(u) == IF u.kind = "header" THEN 2 * u.n - 1 ELSE 2 * u.n

\* The wire carries what was sent and not received, in order; as long as
\* nothing was cut within a frame, it begins with a header.
WireInv ==
  /\ Gone >= 0
  /\ \A i \in 1..Len(wire) : Place(wire[i]) = Gone + i
  /\ "part" \notin cuts => \E n \in 0..Len(sent) : Gone = 2 * n

\* The client kept the rules of fragmentation.
LegalInv ==
  \A n \in 1..Len(sent) :
    IF Control(sent[n]) THEN sent[n].fin
                        ELSE (sent[n].op = "continuation") <=> Within(n - 1)

\* What was delivered, and what was looked at, is no longer on the wire.
DeliveredInv ==
  "part" \notin cuts =>
    /\ \A i \in 1..Len(delivered) : 2 * delivered[i] <= Gone
    /\ \A x \in firsts : 2 * x.n <= Gone

\* When every recv() returned one frame, _mPrevFin is what the last frame
\* said that was neither a ping nor a close, if there was one.
PrevInv ==
  cuts \subseteq {"frame"} =>
    LET seen == {n \in 1..Len(sent) : 2 * n <= Gone}
        skipped(n) == sent[n].op \in {"ping", "close"}
    IN  \/ \A n \in seen : skipped(n)
        \/ \E n \in seen :
             /\ ~skipped(n) /\ mPrevFin = sent[n].fin
             /\ \A m \in seen : m > n => skipped(m)

IInv ==
  TypeOK /\ WireInv /\ LegalInv /\ DeliveredInv /\ PrevInv
  /\ NothingInvented /\ OnlyFirstIsLost

-----------------------------------------------------------------------------
(* The steps that do not receive.                                          *)

LEMMA InitInv == Init => IInv
<1> SUFFICES ASSUME Init PROVE IInv
  OBVIOUS
<1> USE DEF Init
<1>1. TypeOK
  <2>1. sent \in Seq(Frames) /\ wire \in Seq(Units) /\ delivered \in Seq(0..MaxFrames)
    OBVIOUS
  <2>2. Len(sent) <= MaxFrames /\ session \in 0..MaxSession
    BY BoundAssumption
  <2> QED
    BY <2>1, <2>2 DEF TypeOK
<1>2. WireInv /\ LegalInv /\ DeliveredInv /\ PrevInv
  BY DEF WireInv, Gone, LegalInv, DeliveredInv, PrevInv
<1>3. NothingInvented /\ OnlyFirstIsLost
  BY DEF NothingInvented, OnlyFirstIsLost, Range
<1> QED
  BY <1>1, <1>2, <1>3 DEF IInv

\* A websocket begins with nothing sent, received or delivered.
LEMMA UpgradeKeeps == IInv /\ Upgrade => IInv'
<1> SUFFICES ASSUME IInv, Upgrade PROVE IInv'
  OBVIOUS
<1> USE DEF Upgrade
<1>1. TypeOK'
  BY BoundAssumption DEF IInv, TypeOK
<1>2. (WireInv /\ LegalInv /\ DeliveredInv /\ PrevInv)'
  BY DEF WireInv, Gone, LegalInv, DeliveredInv, PrevInv
<1>3. (NothingInvented /\ OnlyFirstIsLost)'
  BY DEF NothingInvented, OnlyFirstIsLost, Range
<1> QED
  BY <1>1, <1>2, <1>3 DEF IInv

\* Whether a message had begun is not changed by what is sent later.
LEMMA SendsKeeps == IInv /\ (\E f \in Frames : ClientSends(f)) => IInv'
<1> SUFFICES ASSUME IInv, NEW f \in Frames, ClientSends(f) PROVE IInv'
  OBVIOUS
<1> DEFINE N == Len(sent)
           two == <<Header(N + 1), Payload(N + 1)>>
<1>0. /\ TypeOK /\ WireInv /\ LegalInv /\ DeliveredInv /\ PrevInv
      /\ NothingInvented /\ OnlyFirstIsLost
  BY DEF IInv
<1>1. N \in Nat /\ N < MaxFrames /\ sent \in Seq(Frames) /\ wire \in Seq(Units)
  BY <1>0 DEF TypeOK, ClientSends
<1>2. /\ sent' \in Seq(Frames) /\ Len(sent') = N + 1 /\ sent'[N + 1] = f
      /\ \A i \in 1..N : sent'[i] = sent[i]
  BY <1>1 DEF ClientSends
<1>3. /\ two \in Seq(Units) /\ Len(two) = 2
      /\ two[1] = Header(N + 1) /\ two[2] = Payload(N + 1)
  BY <1>1, BoundAssumption DEF Units, Header, Payload
<1>4. wire' \in Seq(Units) /\ Extends(wire', wire, two)
  <2>1. wire' = wire \o two
    BY DEF ClientSends
  <2> HIDE DEF two
  <2> QED
    BY <1>1, <1>3, <2>1, ConcatExtends, Zenon
<1> HIDE DEF two
<1>5. /\ Len(wire') = Len(wire) + 2 /\ Len(wire) \in Nat
      /\ \A i \in 1..Len(wire) : wire'[i] = wire[i]
      /\ wire'[Len(wire) + 1] = two[1] /\ wire'[Len(wire) + 2] = two[2]
  BY <1>1, <1>3, <1>4 DEF Extends
<1>6. Gone' = Gone /\ Gone \in Nat /\ Gone <= 2 * N
  BY <1>0, <1>1, <1>2, <1>5 DEF Gone, WireInv
<1>7. /\ cuts' = cuts /\ firsts' = firsts /\ delivered' = delivered
      /\ mPrevFin' = mPrevFin
  BY DEF ClientSends
<1>8. TypeOK'
  <2>1. Len(sent') <= MaxFrames
    BY <1>1, <1>2, BoundAssumption
  <2>2. UNCHANGED <<mPrevFin, session, isWebSocket, delivered, ponged, cuts, firsts>>
    BY DEF ClientSends
  <2> QED
    BY <1>0, <1>2, <1>4, <2>1, <2>2 DEF TypeOK
<1>9. WireInv'
  <2>0. Place(two[1]) = 2 * N + 1 /\ Place(two[2]) = 2 * N + 2
    BY <1>1, <1>3 DEF Place, Header, Payload
  <2>1. ASSUME NEW i \in 1..Len(wire')
        PROVE  Place(wire'[i]) = Gone + i
    <3>1. CASE i <= Len(wire)
      BY <1>0, <1>5, <3>1 DEF WireInv
    <3>2. CASE i = Len(wire) + 1
      BY <1>1, <1>5, <2>0, <3>2 DEF Gone
    <3>3. CASE i = Len(wire) + 2
      BY <1>1, <1>5, <2>0, <3>3 DEF Gone
    <3> QED
      BY <1>5, <3>1, <3>2, <3>3
  <2>2. "part" \notin cuts => \E n \in 0..Len(sent') : Gone = 2 * n
    BY <1>0, <1>1, <1>2 DEF WireInv
  <2>3. \A u : Place(u)' = Place(u)
    BY DEF Place
  <2> QED
    BY <1>6, <1>7, <2>1, <2>2 DEF WireInv, Place
<1>10. \A n \in 0..N : Within(n)' <=> Within(n)
  <2> TAKE n \in 0..N
  <2>1. \A i \in 1..n : sent'[i] = sent[i]
    BY <1>1, <1>2
  <2>2. Within(n)' <=> \E i \in 1..n :
                         /\ ~Control(sent'[i]) /\ ~sent'[i].fin
                         /\ \A j \in (i + 1)..n : Control(sent'[j])
    BY DEF Within, Control
  <2>3. \A i \in 1..n : \A j \in (i + 1)..n : j \in 1..n
    BY <1>1
  <2> QED
    BY <2>1, <2>2, <2>3 DEF Within
<1>11. LegalInv'
  <2> SUFFICES ASSUME NEW n \in 1..(N + 1)
               PROVE  IF Control(sent'[n]) THEN sent'[n].fin
                      ELSE (sent'[n].op = "continuation") <=> Within(n - 1)
    <3>1. \A n \in 1..(N + 1) : n - 1 \in 0..N
      BY <1>1
    <3>2. \A n \in 1..(N + 1) : Within(n - 1)' <=> Within(n - 1)
      BY <1>10, <3>1
    <3> QED
      BY <1>2, <3>2 DEF LegalInv, Control
  <2>1. CASE n = N + 1
    <3>1. n - 1 = N /\ sent'[n] = f /\ Legal(f)
      BY <1>1, <1>2, <2>1 DEF ClientSends
    <3> QED
      BY <3>1 DEF Legal, Fragmenting
  <2>2. CASE n # N + 1
    <3>1. n \in 1..N /\ sent'[n] = sent[n]
      BY <1>1, <1>2, <2>2
    <3> QED
      BY <1>0, <3>1 DEF LegalInv
  <2> QED
    BY <2>1, <2>2
<1>12. DeliveredInv'
  BY <1>0, <1>6, <1>7 DEF DeliveredInv
<1>13. PrevInv'
  <2>1. {n \in 1..Len(sent') : 2 * n <= Gone'} = {n \in 1..N : 2 * n <= Gone}
    BY <1>1, <1>2, <1>6
  <2> DEFINE seen == {n \in 1..N : 2 * n <= Gone}
  <2>2. \A n \in seen : sent'[n] = sent[n]
    BY <1>2
  <2>3. ASSUME cuts \subseteq {"frame"}
        PROVE  \/ \A n \in seen : sent'[n].op \in {"ping", "close"}
               \/ \E n \in seen :
                    /\ sent'[n].op \notin {"ping", "close"}
                    /\ mPrevFin = sent'[n].fin
                    /\ \A m \in seen : m > n => sent'[m].op \in {"ping", "close"}
    <3>1. \/ \A n \in seen : sent[n].op \in {"ping", "close"}
          \/ \E n \in seen :
               /\ sent[n].op \notin {"ping", "close"}
               /\ mPrevFin = sent[n].fin
               /\ \A m \in seen : m > n => sent[m].op \in {"ping", "close"}
      BY <1>0, <2>3 DEF PrevInv
    <3> HIDE DEF seen
    <3> QED
      BY <2>2, <3>1
  <2> HIDE DEF seen
  <2> QED
    BY <1>7, <2>1, <2>3 DEF PrevInv, seen
<1>14. \A n \in 1..N : n \in Messages' <=> n \in Messages
  BY <1>1, <1>2 DEF Messages
<1>15. Messages \subseteq 1..N
  BY DEF Messages
<1>16. NothingInvented'
  BY <1>0, <1>7, <1>14, <1>15 DEF NothingInvented
<1>17. OnlyFirstIsLost'
  <2> SUFFICES ASSUME cuts \subseteq {"frame"}, NEW x \in firsts,
                      x.n \in Messages' \ Range(delivered)
               PROVE  /\ ~x.prev
                      /\ \A y \in firsts :
                           y.n < x.n => sent'[y.n].op \in {"ping", "close"}
    BY <1>7 DEF OnlyFirstIsLost
  <2>1. \A y \in firsts : y.n \in 1..N
    BY <1>0, <1>1, <1>6 DEF DeliveredInv, TypeOK
  <2>2. /\ ~x.prev
        /\ \A y \in firsts : y.n < x.n => sent[y.n].op \in {"ping", "close"}
    BY <1>0, <1>14, <2>1 DEF OnlyFirstIsLost
  <2> QED
    BY <1>2, <2>1, <2>2
<1> QED
  BY <1>8, <1>9, <1>11, <1>12, <1>13, <1>16, <1>17 DEF IInv

-----------------------------------------------------------------------------
(* recv() and handleWebSocket().                                           *)

\* What a branch of handleWebSocket() does for the header f and the message n.
Handled(f, n) ==
  \/ /\ f.op \in {"ping", "close"}
     /\ mPrevFin' = mPrevFin /\ delivered' = delivered
  \/ /\ f.op \notin {"ping", "close"}
     /\ ~f.fin \/ ~mPrevFin
     /\ mPrevFin' = f.fin /\ delivered' = delivered
  \/ /\ f.op \notin {"ping", "close"} /\ f.fin /\ mPrevFin
     /\ mPrevFin' = mPrevFin
     /\ IF ~f.long /\ f.op = "text" THEN delivered' = Append(delivered, n)
                                    ELSE delivered' = delivered

\* recv() takes m units off the wire, of which u is the first; unless it ends
\* within a frame, u is a header and a payload comes last.
LEMMA ReceiveStep ==
  ASSUME TypeOK, WireInv, NEW m \in 1..Len(wire), Receive(m)
  PROVE  \E u \in Units, cut \in Cuts :
    /\ u.n \in 1..Len(sent)
    /\ wire' \in Seq(Units) /\ Len(wire') = Len(wire) - m
    /\ \A i \in 1..Len(wire') : wire'[i] = wire[m + i]
    /\ firsts' = firsts \cup {[n |-> u.n, prev |-> mPrevFin]}
    /\ cuts' = cuts \cup {cut}
    /\ cut # "part" =>
         /\ u.kind = "header" /\ m >= 2
         /\ 2 * u.n = Gone + 2
         /\ \E k \in 1..Len(sent) : Gone + m = 2 * k
    /\ cut = "frame" => m = 2
    /\ \E f \in (IF u.kind = "header" THEN {sent[u.n]} ELSE Frames) :
       \E n \in 0..MaxFrames : Handled(f, n) /\ (cut # "part" => n = u.n)
    /\ ponged' \subseteq 1..MaxFrames /\ isWebSocket' \in BOOLEAN
    /\ UNCHANGED <<session, sent>>
<1> DEFINE chunk == SubSeq(wire, 1, m)
           rest == SubSeq(wire, m + 1, Len(wire))
           u == wire[1]
           v == wire[m]
           cut == Cut(chunk)
<1>1. /\ wire \in Seq(Units) /\ sent \in Seq(Frames) /\ Len(sent) <= MaxFrames
      /\ Len(wire) \in Nat /\ Len(sent) \in Nat
  BY DEF TypeOK
<1>2. /\ chunk \in Seq(Units) /\ Len(chunk) = m
      /\ Head(chunk) = u /\ Last(chunk) = v
      /\ Range(chunk) \subseteq {wire[i] : i \in 1..Len(wire)}
      /\ rest \in Seq(Units) /\ Len(rest) = Len(wire) - m
      /\ \A i \in 1..Len(rest) : rest[i] = wire[m + i]
  BY <1>1, Splits, Zenon
<1>3. /\ wire' = rest
      /\ cuts' = cuts \cup {cut}
      /\ firsts' = firsts \cup {[n |-> u.n, prev |-> mPrevFin]}
      /\ \E f \in SeenHeaders(u) :
           Ping(f, chunk) \/ Close(f) \/ Fragment(f) \/ Whole(f, chunk)
      /\ UNCHANGED <<session, sent>>
  BY <1>2 DEF Receive
<1> HIDE DEF chunk, rest
<1>4. u \in Units /\ v \in Units /\ \A i \in 1..Len(wire) : wire[i] \in Units
  BY <1>1
<1>5. /\ Place(u) = Gone + 1 /\ Place(v) = Gone + m
      /\ Gone = 2 * Len(sent) - Len(wire) /\ Gone \in Nat
  BY <1>1 DEF WireInv, Gone
<1>6. u.n \in Nat /\ v.n \in Nat /\ u.kind \in {"header", "payload"}
      /\ v.kind \in {"header", "payload"} /\ u.n >= 1 /\ v.n >= 1
  BY <1>4, BoundAssumption DEF Units
<1>7. u.n \in 1..Len(sent)
  BY <1>1, <1>5, <1>6 DEF Place
<1>8. cut \in Cuts
  BY DEF Cut, Cuts
<1>9. cut # "part" =>
        /\ u.kind = "header" /\ v.kind = "payload" /\ m >= 2
        /\ 2 * u.n = Gone + 2
        /\ \E k \in 1..Len(sent) : Gone + m = 2 * k
  <2> SUFFICES ASSUME cut # "part"
               PROVE  /\ u.kind = "header" /\ v.kind = "payload" /\ m >= 2
                      /\ 2 * u.n = Gone + 2
                      /\ \E k \in 1..Len(sent) : Gone + m = 2 * k
    OBVIOUS
  <2>1. u.kind = "header" /\ v.kind = "payload"
    BY <1>2, <1>6 DEF Cut
  <2>2. m # 1
    BY <2>1
  <2>3. 2 * u.n = Gone + 2
    <3>1. 2 * u.n - 1 = Gone + 1
      BY <1>5, <2>1 DEF Place
    <3> HIDE DEF u
    <3> QED
      BY <1>5, <1>6, <3>1
  <2>4. Gone + m = 2 * v.n
    BY <1>5, <2>1 DEF Place
  <2>5. v.n \in 1..Len(sent)
    BY <1>1, <1>5, <1>6, <2>4
  <2> QED
    BY <2>1, <2>2, <2>3, <2>4, <2>5
<1>10. cut = "frame" => m = 2
  BY <1>2 DEF Cut
<1> DEFINE n == Message(chunk)
<1>11. n \in 0..MaxFrames /\ (cut # "part" => n = u.n)
  BY <1>1, <1>2, <1>7, <1>9, BoundAssumption DEF Message
<1>12. PICK f \in SeenHeaders(u) :
         Ping(f, chunk) \/ Close(f) \/ Fragment(f) \/ Whole(f, chunk)
  BY <1>3
<1>13. Handled(f, n)
  BY <1>12 DEF Handled, Ping, Close, Fragment, Whole
<1>14. ponged' \subseteq 1..MaxFrames /\ isWebSocket' \in BOOLEAN
  <2>1. {x.n : x \in Range(chunk)} \subseteq 1..MaxFrames
    BY <1>2, <1>4 DEF Units
  <2> QED
    BY <1>12, <2>1 DEF Ping, Close, Fragment, Whole, TypeOK
<1>15. f \in (IF u.kind = "header" THEN {sent[u.n]} ELSE Frames)
  BY <1>12 DEF SeenHeaders
<1> HIDE DEF n, cut, u
<1>16. \E g \in (IF u.kind = "header" THEN {sent[u.n]} ELSE Frames) :
       \E k \in 0..MaxFrames : Handled(g, k) /\ (cut # "part" => k = u.n)
  BY <1>11, <1>13, <1>15
<1> QED
  BY <1>2, <1>3, <1>4, <1>7, <1>8, <1>9, <1>10, <1>14, <1>16

\* Whatever recv() returns, and whichever branch handles it.
LEMMA ReceiveKeeps == IInv /\ (\E m \in 1..Len(wire) : Receive(m)) => IInv'
<1> SUFFICES ASSUME IInv, NEW m \in 1..Len(wire), Receive(m) PROVE IInv'
  OBVIOUS
<1>0. /\ TypeOK /\ WireInv /\ LegalInv /\ DeliveredInv /\ PrevInv
      /\ NothingInvented /\ OnlyFirstIsLost
  BY DEF IInv
<1> DEFINE N == Len(sent)
<1>1. PICK u \in Units, cut \in Cuts :
        /\ u.n \in 1..Len(sent)
        /\ wire' \in Seq(Units) /\ Len(wire') = Len(wire) - m
        /\ \A i \in 1..Len(wire') : wire'[i] = wire[m + i]
        /\ firsts' = firsts \cup {[n |-> u.n, prev |-> mPrevFin]}
        /\ cuts' = cuts \cup {cut}
        /\ cut # "part" =>
             /\ u.kind = "header" /\ m >= 2
             /\ 2 * u.n = Gone + 2
             /\ \E k \in 1..Len(sent) : Gone + m = 2 * k
        /\ cut = "frame" => m = 2
        /\ \E f \in (IF u.kind = "header" THEN {sent[u.n]} ELSE Frames) :
           \E n \in 0..MaxFrames : Handled(f, n) /\ (cut # "part" => n = u.n)
        /\ ponged' \subseteq 1..MaxFrames /\ isWebSocket' \in BOOLEAN
        /\ UNCHANGED <<session, sent>>
  BY <1>0, ReceiveStep
<1>2. PICK f \in (IF u.kind = "header" THEN {sent[u.n]} ELSE Frames),
           n \in 0..MaxFrames : Handled(f, n) /\ (cut # "part" => n = u.n)
  BY <1>1
<1>3. /\ sent \in Seq(Frames) /\ N \in Nat /\ N <= MaxFrames /\ sent' = sent
      /\ Len(wire) \in Nat /\ m \in Nat /\ m >= 1
  BY <1>0, <1>1 DEF TypeOK
<1>4. Gone \in Nat /\ Gone' = Gone + m /\ Gone' <= 2 * N
  BY <1>0, <1>1, <1>3 DEF Gone, WireInv
<1>5. f \in Frames
  BY <1>1, <1>3
<1>6. f.fin \in BOOLEAN /\ mPrevFin \in BOOLEAN /\ delivered \in Seq(0..MaxFrames)
  BY <1>0, <1>5 DEF Frames, TypeOK
<1>7. \/ delivered' = delivered
      \/ /\ delivered' = Append(delivered, n)
         /\ f.op = "text" /\ f.fin /\ ~f.long
  BY <1>2 DEF Handled
<1>8. /\ delivered' \in Seq(0..MaxFrames)
      /\ \A i \in 1..Len(delivered) : delivered'[i] = delivered[i]
      /\ \/ Len(delivered') = Len(delivered)
         \/ /\ Len(delivered') = Len(delivered) + 1
            /\ delivered'[Len(delivered')] = n
            /\ f.op = "text" /\ f.fin /\ ~f.long
  <2> DEFINE s == delivered
  <2>1. s \in Seq(0..MaxFrames) /\ n \in 0..MaxFrames
    BY <1>6
  <2>2. CASE delivered' = delivered
    BY <1>6, <2>2
  <2>3. CASE /\ delivered' = Append(delivered, n)
             /\ f.op = "text" /\ f.fin /\ ~f.long
    <3>1. /\ Append(s, n) \in Seq(0..MaxFrames)
          /\ Len(Append(s, n)) = Len(s) + 1
          /\ \A i \in 1..Len(s) : Append(s, n)[i] = s[i]
          /\ Append(s, n)[Len(s) + 1] = n
      BY <2>1, AppendExtends, Zenon
    <3> QED
      BY <2>3, <3>1
  <2> QED
    BY <1>7, <2>2, <2>3
<1>9. Len(delivered) \in Nat /\ \A i \in 1..Len(delivered) : delivered[i] \in Nat
  <2>1. 0..MaxFrames \subseteq Nat
    BY BoundAssumption
  <2>2. \A i \in 1..Len(delivered) : delivered[i] \in 0..MaxFrames
    BY <1>6, ElementOfSeq
  <2> QED
    BY <1>6, <2>1, <2>2, LenProperties
<1>10. TypeOK'
  <2>1. mPrevFin' \in BOOLEAN
    BY <1>2, <1>6 DEF Handled
  <2>2. firsts' \subseteq [n : 1..MaxFrames, prev : BOOLEAN]
    BY <1>0, <1>1, <1>3, <1>6, BoundAssumption DEF TypeOK
  <2>3. cuts' \subseteq Cuts
    BY <1>0, <1>1 DEF TypeOK
  <2> QED
    BY <1>0, <1>1, <1>8, <2>1, <2>2, <2>3 DEF TypeOK
<1>11. WireInv'
  <2>1. ASSUME NEW i \in 1..Len(wire')
        PROVE  Place(wire'[i]) = Gone' + i
    <3>1. m + i \in 1..Len(wire) /\ wire'[i] = wire[m + i]
      BY <1>1, <1>3
    <3>2. Place(wire[m + i]) = Gone + (m + i)
      BY <1>0, <3>1 DEF WireInv
    <3> QED
      BY <1>3, <1>4, <3>1, <3>2
  <2>2. "part" \notin cuts' => \E k \in 0..N : Gone' = 2 * k
    BY <1>1, <1>3, <1>4
  <2>3. Gone' >= 0
    BY <1>3, <1>4
  <2> QED
    BY <1>3, <2>1, <2>2, <2>3 DEF WireInv, Place
<1>12. LegalInv'
  BY <1>0, <1>3 DEF LegalInv, Within, Control
<1>13. Messages' = Messages
  BY <1>3 DEF Messages
\* From here on nothing was cut within a frame.
<1>14. ASSUME "part" \notin cuts'
       PROVE  /\ "part" \notin cuts /\ f = sent[u.n] /\ n = u.n
              /\ 2 * u.n = Gone + 2 /\ m >= 2 /\ u.n \in 1..N
  BY <1>1, <1>2, <1>14
<1>15. DeliveredInv'
  <2> SUFFICES ASSUME "part" \notin cuts'
               PROVE  /\ \A i \in 1..Len(delivered') : 2 * delivered'[i] <= Gone'
                      /\ \A x \in firsts' : 2 * x.n <= Gone'
    BY DEF DeliveredInv
  <2>1. 2 * u.n <= Gone'
    BY <1>3, <1>4, <1>14
  <2>2. ASSUME NEW i \in 1..Len(delivered') PROVE 2 * delivered'[i] <= Gone'
    <3>1. CASE i \in 1..Len(delivered)
      <4>1. 2 * delivered[i] <= Gone /\ delivered[i] \in Nat
        BY <1>0, <1>14, <1>9, <3>1 DEF DeliveredInv
      <4> QED
        BY <1>3, <1>4, <1>8, <3>1, <4>1
    <3>2. CASE i \notin 1..Len(delivered)
      <4>1. delivered'[i] = n
        BY <1>6, <1>8, <3>2
      <4> QED
        BY <1>14, <2>1, <4>1
    <3> QED
      BY <3>1, <3>2
  <2>3. ASSUME NEW x \in firsts' PROVE 2 * x.n <= Gone'
    <3>1. CASE x \in firsts
      <4>1. 2 * x.n <= Gone /\ x.n \in Nat
        BY <1>0, <1>14, <3>1 DEF DeliveredInv, TypeOK
      <4> QED
        BY <1>3, <1>4, <4>1
    <3>2. CASE x = [n |-> u.n, prev |-> mPrevFin]
      BY <2>1, <3>2
    <3> QED
      BY <1>1, <3>1, <3>2
  <2> QED
    BY <2>2, <2>3
<1>16. NothingInvented'
  <2> SUFFICES ASSUME "part" \notin cuts'
               PROVE  /\ Range(delivered') \subseteq Messages
                      /\ \A i, j \in 1..Len(delivered') :
                           i < j => delivered'[i] < delivered'[j]
    BY <1>13 DEF NothingInvented
  <2>0. /\ Range(delivered) \subseteq Messages
        /\ \A i, j \in 1..Len(delivered) : i < j => delivered[i] < delivered[j]
        /\ \A i \in 1..Len(delivered) : 2 * delivered[i] <= Gone
    BY <1>0, <1>14 DEF NothingInvented, DeliveredInv
  <2>1. CASE delivered' = delivered
    BY <2>0, <2>1
  <2>2. CASE delivered' # delivered
    <3>1. /\ delivered' = Append(delivered, n)
          /\ n \in Messages
      BY <1>7, <1>14, <2>2 DEF Messages
    <3>2. Range(delivered') \subseteq Messages
      BY <1>6, <2>0, <3>1 DEF Range
    <3>3. ASSUME NEW i \in 1..Len(delivered'), NEW j \in 1..Len(delivered'), i < j
          PROVE  delivered'[i] < delivered'[j]
      <4>1. i \in 1..Len(delivered)
        BY <1>6, <3>1, <3>3
      <4>2. CASE j \in 1..Len(delivered)
        BY <1>8, <2>0, <3>3, <4>1, <4>2
      <4>3. CASE j \notin 1..Len(delivered)
        <5>1. delivered'[j] = n
          BY <1>6, <3>1, <4>3
        <5>2. 2 * delivered[i] <= Gone /\ delivered[i] \in Nat
          BY <1>9, <2>0, <4>1
        <5>3. n \in Nat /\ 2 * n = Gone + 2
          BY <1>14
        <5> QED
          BY <1>4, <1>8, <4>1, <5>1, <5>2, <5>3
      <4> QED
        BY <4>2, <4>3
    <3> QED
      BY <3>2, <3>3
  <2> QED
    BY <2>1, <2>2
\* From here on every recv() returned one frame.
<1>17. ASSUME cuts' \subseteq {"frame"}
       PROVE  /\ cuts \subseteq {"frame"} /\ "part" \notin cuts'
              /\ Gone' = Gone + 2
  BY <1>1, <1>4, <1>17
<1> DEFINE skipped(k) == sent[k].op \in {"ping", "close"}
           seen == {k \in 1..N : 2 * k <= Gone}
           now == {k \in 1..N : 2 * k <= Gone + 2}
<1>18. ASSUME cuts' \subseteq {"frame"}
       PROVE  /\ now = seen \cup {u.n} /\ \A k \in seen : k < u.n
              /\ \/ \A k \in seen : skipped(k)
                 \/ \E k \in seen :
                      /\ ~skipped(k) /\ mPrevFin = sent[k].fin
                      /\ \A i \in seen : i > k => skipped(i)
  <2>1. u.n \in 1..N /\ 2 * u.n = Gone + 2
    BY <1>14, <1>17, <1>18
  <2>2. now = seen \cup {u.n} /\ \A k \in seen : k < u.n
    BY <1>3, <1>4, <2>1
  <2> QED
    BY <1>0, <1>17, <1>18, <2>2 DEF PrevInv
<1>19. PrevInv'
  <2> SUFFICES ASSUME cuts' \subseteq {"frame"}
               PROVE  \/ \A k \in now : skipped(k)
                      \/ \E k \in now :
                           /\ ~skipped(k) /\ mPrevFin' = sent[k].fin
                           /\ \A i \in now : i > k => skipped(i)
    BY <1>3, <1>17 DEF PrevInv
  <2>1. f = sent[u.n]
    BY <1>14, <1>17
  <2>2. CASE skipped(u.n)
    <3>1. mPrevFin' = mPrevFin
      BY <1>2, <2>1, <2>2 DEF Handled
    <3> HIDE DEF now, seen
    <3> QED
      BY <1>18, <2>2, <3>1
  <2>3. CASE ~skipped(u.n)
    <3>1. mPrevFin' = f.fin
      BY <1>2, <1>6, <2>1, <2>3 DEF Handled
    <3>2. u.n \in now /\ \A i \in now : ~ i > u.n
      <4>1. /\ now = seen \cup {u.n} /\ \A k \in seen : k < u.n
            /\ u.n \in Nat /\ seen \subseteq Nat
        BY <1>3, <1>14, <1>17, <1>18
      <4> HIDE DEF now, seen
      <4>2. \A i \in seen : ~ i > u.n
        <5> TAKE i \in seen
        <5>1. i \in Nat /\ u.n \in Nat /\ i < u.n
          BY <4>1
        <5> QED
          BY <5>1
      <4>3. ~ u.n > u.n
        BY <4>1
      <4> QED
        BY <4>1, <4>2, <4>3
    <3> HIDE DEF now, seen
    <3> QED
      BY <2>1, <2>3, <3>1, <3>2
  <2> QED
    BY <2>2, <2>3
<1>20. OnlyFirstIsLost'
  <2> SUFFICES ASSUME cuts' \subseteq {"frame"}, NEW x \in firsts',
                      x.n \in Messages \ Range(delivered')
               PROVE  /\ ~x.prev
                      /\ \A y \in firsts' : y.n < x.n => skipped(y.n)
    BY <1>3, <1>13 DEF OnlyFirstIsLost
  <2>1. /\ f = sent[u.n] /\ n = u.n /\ "part" \notin cuts
        /\ 2 * u.n = Gone + 2 /\ u.n \in 1..N
    BY <1>14, <1>17
  <2>2. ASSUME NEW y \in firsts PROVE y.n \in seen /\ y.n < u.n
    <3>1. y.n \in 1..MaxFrames /\ 2 * y.n <= Gone
      BY <1>0, <2>1 DEF DeliveredInv, TypeOK
    <3> QED
      BY <1>3, <1>4, <2>1, <3>1
  <2>3. Range(delivered) \subseteq Range(delivered')
    BY <1>6, <1>7 DEF Range
  <2>4. CASE x \in firsts
    <3>1. /\ ~x.prev
          /\ \A y \in firsts : y.n < x.n => skipped(y.n)
      BY <1>0, <1>17, <2>3, <2>4 DEF OnlyFirstIsLost
    <3>2. ~ u.n < x.n
      BY <2>1, <2>2, <2>4
    <3> QED
      BY <1>1, <3>1, <3>2
  <2>5. CASE x = [n |-> u.n, prev |-> mPrevFin]
    <3>1. /\ f.op = "text" /\ f.fin /\ ~f.long
      BY <2>1, <2>5 DEF Messages
    <3>2. ~mPrevFin
      <4>1. CASE mPrevFin
        <5>1. delivered' = Append(delivered, u.n)
          BY <1>2, <2>1, <3>1, <4>1 DEF Handled
        <5>2. u.n \in Range(delivered')
          BY <1>6, <5>1 DEF Range
        <5> QED
          BY <2>5, <5>2
      <4> QED
        BY <4>1
    <3>3. \A k \in seen : skipped(k)
      <4> SUFFICES ASSUME NEW k \in seen, ~skipped(k), ~sent[k].fin,
                          \A i \in seen : i > k => skipped(i)
                   PROVE  FALSE
        BY <1>18, <3>2
      <4>1. ~Control(sent[k])
        BY <1>0 DEF LegalInv
      <4>2. \A i \in (k + 1)..(u.n - 1) : Control(sent[i])
        <5> TAKE i \in (k + 1)..(u.n - 1)
        <5>0. k \in Nat /\ k >= 1 /\ u.n \in Nat /\ u.n <= N
          BY <1>3, <2>1
        <5>1. i \in 1..N /\ i > k /\ i <= u.n - 1
          BY <1>3, <5>0
        <5>2. 2 * i <= Gone
          BY <1>4, <2>1, <5>0, <5>1
        <5>3. i \in seen /\ i > k
          BY <5>1, <5>2
        <5> QED
          BY <5>3 DEF Control
      <4>3. k \in 1..(u.n - 1)
        BY <1>3, <1>4, <2>1
      <4>4. Within(u.n - 1)
        BY <4>1, <4>2, <4>3 DEF Within
      <4>5. ~Control(sent[u.n])
        BY <2>1, <3>1 DEF Control
      <4> QED
        BY <1>0, <2>1, <3>1, <4>4, <4>5 DEF LegalInv
    <3>4. \A y \in firsts' : y.n < x.n => y.n \in seen
      BY <1>1, <2>2, <2>5
    <3> QED
      BY <2>5, <3>2, <3>3, <3>4
  <2> QED
    BY <1>1, <2>4, <2>5
<1> QED
  BY <1>10, <1>11, <1>12, <1>15, <1>16, <1>19, <1>20 DEF IInv

-----------------------------------------------------------------------------
(* Theorems.                                                               *)

\* In every reachable state the wire, the frames that were looked at, the
\* messages that were delivered and _mPrevFin agree with what the client sent
\* (ClientConnection.cpp:255-310).
THEOREM Invariance == Spec => []IInv
<1>1. ASSUME IInv, [Next]_vars PROVE IInv'
  <2>1. CASE Leave \/ UNCHANGED vars
    <3>1. /\ UNCHANGED <<mPrevFin, session, sent, wire, delivered, ponged, cuts,
                         firsts>>
          /\ isWebSocket' \in BOOLEAN
      BY <1>1, <2>1 DEF Leave, vars, IInv, TypeOK
    <3>2. TypeOK'
      BY <1>1, <3>1 DEF IInv, TypeOK
    <3>3. (WireInv /\ LegalInv /\ DeliveredInv /\ PrevInv)'
      BY <1>1, <3>1
      DEF IInv, WireInv, Gone, Place, LegalInv, Within, Control, DeliveredInv,
          PrevInv
    <3>4. (NothingInvented /\ OnlyFirstIsLost)'
      BY <1>1, <3>1 DEF IInv, NothingInvented, OnlyFirstIsLost, Messages
    <3> QED
      BY <3>2, <3>3, <3>4 DEF IInv
  <2> QED
    BY <1>1, <2>1, UpgradeKeeps, SendsKeeps, ReceiveKeeps DEF Next
<1> QED
  BY InitInv, <1>1, PTL DEF Spec

\* Variables keep their types: a pong carries frames the client sent, and
\* what recv() begins with belongs to one of them.
THEOREM TypeCorrect == Spec => []TypeOK
<1>1. IInv => TypeOK
  BY DEF IInv
<1> QED
  BY Invariance, <1>1, PTL

\* Unless recv() ends within a frame, the handler is given nothing but whole
\* text messages of the client, in their order and none twice, however many
\* of them one recv() returns.
THEOREM NothingIsInvented == Spec => []NothingInvented
<1>1. IInv => NothingInvented
  BY DEF IInv
<1> QED
  BY Invariance, <1>1, PTL

\* When every recv() returns one frame, at most the first message of a
\* connection is lost, and only through what _mPrevFin was before.
THEOREM OnlyTheFirstIsLost == Spec => []OnlyFirstIsLost
<1>1. IInv => OnlyFirstIsLost
  BY DEF IInv
<1> QED
  BY Invariance, <1>1, PTL
=============================================================================
