------------------------ MODULE WebSocketFramesProofs ------------------------
(* Proofs about WebSocketFrames, for any number of threads that broadcast, *)
(* any origins, connections, frames and lengths.                           *)
EXTENDS WebSocketFrames, SequenceLemmas, TLAPS

-----------------------------------------------------------------------------
(* The inductive invariant.                                                *)

\* What receiveData() can rely on at each stage.
StageInv ==
  /\ stage # "idle" => session \in Sessions /\ socketIsOpen
  /\ stage \notin {"idle", "closed"} => session \notin closed
  /\ isWebSocket <=> stage \in {"origin", "ws", "goodbye"}
  /\ isWebSocket => url[session] \in Origins
  /\ stage \in {"ws", "goodbye"} => wsOrigin = url[session]

\* Connections that are still to come are untouched; the current one has no
\* path before its upgrade.
FutureInv ==
  /\ closed \subseteq 1..session
  /\ \A k \in Sessions : k > session => out[k] = << >>
  /\ \A k \in Sessions :
       k > session \/ (k = session /\ stage = "http") => url[k] = NoOrigin

\* The worker sends frames from its two places only, on a websocket; a close
\* frame is its last on a connection.
CallInv ==
  /\ \A t \in Threads : call[t].at # "none" => session \in Sessions
  /\ call[Worker].at # "none" =>
       /\ stage \in {"ws", "goodbye"}
       /\ call[Worker].at # "asked"
       /\ call[Worker].to = url[session]
  /\ count[Worker] <= MaxFrames
       + (IF stage \in {"http", "origin", "ws"} THEN session - 1 ELSE session)
  /\ \A a \in Apps : count[a] <= MaxFrames

\* How many units of its frame a call has behind it.
Done(t) == Base(t) + call[t].sent

\* What was sent is of earlier calls, or in front of where the call is.
Behind(u) ==
  LET t == u.frame.by
  IN  /\ u.frame.n <= count[t]
      /\ u.frame.n = count[t] /\ call[t].at # "none" =>
           call[t].at \in {"header", "payload"} /\ u.i <= Done(t)

OrderInv ==
  /\ NothingTwice
  /\ \A k \in Sessions : \A i \in 1..Len(out[k]) : Behind(out[k][i])
  /\ stage = "http" =>
       \A i \in 1..Len(out[session]) :
         out[session][i].frame.by = Worker => out[session][i] = Response

\* The connection's last units are those the call of t has sent.
EndsWith(t) ==
  /\ Done(t) <= Len(out[session])
  /\ \A i \in 1..Done(t) :
       out[session][Len(out[session]) - Done(t) + i] = Unit(Frame(t), i)

\* A quiet call is on a websocket of the origin it is meant for, and all it
\* has sent stands at the end.
QuietInv ==
  \A t \in quiet :
    call[t].at # "none" =>
      /\ stage \in {"ws", "goodbye"}
      /\ call[t].at # "asked" => call[t].to = url[session]
      /\ call[t].at \in {"header", "payload"} /\ call[t].ok => EndsWith(t)

ReturnedInv ==
  /\ QuietFrameReaches
  /\ \A f \in returned.quiet : f.to \in Origins

IInv ==
  TypeOK /\ StageInv /\ FutureInv /\ CallInv /\ OrderInv /\ QuietInv /\ ReturnedInv

-----------------------------------------------------------------------------
(* Lemmas about calls and what they send.                                  *)

\* The worker is a thread, and no other is it.
LEMMA ThreadsAre ==
  /\ Worker \in Threads
  /\ \A a \in Apps : a \in Threads /\ a # Worker
  /\ \A t \in Threads : t = Worker \/ t \in Apps
BY ThreadAssumption DEF Threads

\* Calls that begin, go on to the next step, or have sent a part.
LEMMA NoCallTypes == NoCall \in Calls
<1>1. NoCall \in CallRecords
  BY LengthAssumption
  DEF NoCall, NewCall, CallRecords, AnyOrigin, Lengths, Steps
<1>2. NoCall.sent = 0 /\ PartLen(NoCall) = 0
  BY DEF PartLen, NoCall, NewCall
<1> QED
  BY <1>1, <1>2 DEF Calls

LEMMA NewCallTypes ==
  ASSUME NEW at \in {"asked", "check"}, NEW to \in AnyOrigin,
         NEW len \in Lengths
  PROVE  NewCall(at, to, len) \in Calls
<1> DEFINE c == NewCall(at, to, len)
<1>1. c \in CallRecords /\ c.at = at /\ c.sent = 0
  BY DEF CallRecords, Steps, NewCall
<1> HIDE DEF c
<1>2. PartLen(c) = 0
  BY <1>1 DEF PartLen
<1>3. c \in Calls
  BY <1>1, <1>2 DEF Calls
<1> QED
  BY <1>3 DEF c

LEMMA NextStepTypes ==
  ASSUME NEW c \in Calls, c.at \in {"asked", "check"},
         NEW at \in {"check", "header"}
  PROVE  [c EXCEPT !.at = at] \in Calls
<1> DEFINE d == [c EXCEPT !.at = at]
<1>1. c \in CallRecords /\ c.sent = 0
  BY DEF Calls, PartLen, CallRecords
<1>2. d \in CallRecords /\ d.at = at /\ d.sent = 0
  BY <1>1 DEF CallRecords, Steps
<1> HIDE DEF d
<1>3. PartLen(d) \in Nat
  BY <1>2, LengthAssumption DEF PartLen
<1>4. d \in Calls
  BY <1>2, <1>3 DEF Calls
<1> QED
  BY <1>4 DEF d

LEMMA PayloadTypes ==
  ASSUME NEW c \in Calls, NEW ok \in BOOLEAN
  PROVE  [c EXCEPT !.at = "payload", !.sent = 0, !.ok = ok] \in Calls
<1> DEFINE d == [c EXCEPT !.at = "payload", !.sent = 0, !.ok = ok]
<1>1. c \in CallRecords
  BY DEF Calls
<1>2. d \in CallRecords /\ d.at = "payload" /\ d.sent = 0
  BY <1>1 DEF CallRecords, Steps
<1>3. d.len \in Nat
  BY <1>2, LengthAssumption DEF CallRecords, Lengths
<1> HIDE DEF d
<1>4. PartLen(d) \in Nat
  BY <1>2, <1>3 DEF PartLen
<1>5. d \in Calls
  BY <1>2, <1>4 DEF Calls
<1> QED
  BY <1>5 DEF d

LEMMA PartTypes ==
  ASSUME NEW c \in Calls, NEW n \in Nat, c.sent + n <= PartLen(c)
  PROVE  [c EXCEPT !.sent = @ + n] \in Calls
<1> DEFINE d == [c EXCEPT !.sent = @ + n]
<1>1. c \in CallRecords
  BY DEF Calls
<1>2. d \in CallRecords /\ d.at = c.at /\ d.sent = c.sent + n /\ d.len = c.len
  BY <1>1 DEF CallRecords
<1> HIDE DEF d
<1>3. PartLen(d) = PartLen(c)
  BY <1>2 DEF PartLen
<1>4. d \in Calls
  BY <1>2, <1>3 DEF Calls
<1> QED
  BY <1>4 DEF d

\* What a call is about, and where it is.
LEMMA CallTypes ==
  ASSUME TypeOK, NEW t \in Threads
  PROVE  /\ call[t] \in Calls /\ call[t] \in CallRecords
         /\ call[t].at \in Steps
         /\ call[t].to \in AnyOrigin /\ call[t].len \in Lengths
         /\ call[t].len \in Nat
         /\ call[t].sent \in Nat /\ call[t].ok \in BOOLEAN
         /\ count[t] \in Nat
         /\ Frame(t) \in AllFrames
         /\ Base(t) \in Nat /\ Goal(t) \in Nat /\ Done(t) \in Nat
         /\ call[t].sent <= PartLen(call[t])
<1>1. call[t] \in Calls /\ count[t] \in Nat
  BY DEF TypeOK
<1>2. call[t] \in CallRecords /\ call[t].sent <= PartLen(call[t])
  BY <1>1 DEF Calls
<1>3. /\ call[t].at \in Steps
      /\ call[t].to \in AnyOrigin /\ call[t].len \in Lengths
      /\ call[t].sent \in Nat /\ call[t].ok \in BOOLEAN
  BY <1>2 DEF CallRecords
<1>4. call[t].len \in Nat
  BY <1>3, LengthAssumption DEF Lengths
<1>5. Frame(t) \in AllFrames
  BY <1>1, <1>3 DEF Frame, AllFrames
<1>6. Base(t) \in Nat /\ Goal(t) \in Nat /\ Done(t) \in Nat
  BY <1>3, <1>4, LengthAssumption DEF Base, Goal, Done, PartLen
<1> QED
  BY <1>1, <1>2, <1>3, <1>4, <1>5, <1>6

\* A part of a frame is a sequence of units.
LEMMA UnitTypes ==
  ASSUME TypeOK, NEW t \in Threads, NEW n \in Nat, NEW m \in Nat
  PROVE  /\ Part(t, n, m) \in Seq(Units)
         /\ Len(Part(t, n, m)) = m
         /\ \A i \in 1..m : Part(t, n, m)[i] = Unit(Frame(t), Base(t) + n + i)
<1>1. Frame(t) \in AllFrames /\ Base(t) \in Nat
  BY CallTypes
<1>2. \A i \in 1..m : Unit(Frame(t), Base(t) + n + i) \in Units
  BY <1>1 DEF Unit, Units
<1>3. Part(t, n, m) = [i \in 1..m |-> Unit(Frame(t), Base(t) + n + i)]
  BY DEF Part
<1>4. Part(t, n, m) \in [1..m -> Units]
  BY <1>2, <1>3
<1> QED
  BY <1>3, <1>4, SMT

\* What the worker sends for HTTP are units.
LEMMA PlainTypes == Response \in Units /\ Switching \in Units
BY ThreadsAre DEF Response, Switching, Plain, Unit, Units, AllFrames,
                  AnyOrigin, Lengths

\* AfterSend() leaves the call at the payload or over, and records a frame.
LEMMA AfterSendTypes ==
  ASSUME TypeOK, NEW t \in Threads, NEW ok \in BOOLEAN, AfterSend(t, ok)
  PROVE  /\ call' \in [Threads -> Calls]
         /\ \A x \in Threads : x # t => call'[x] = call[x]
         /\ \/ /\ call[t].at = "header" /\ call[t].len > 0
               /\ call'[t] = [call[t] EXCEPT !.at = "payload", !.sent = 0,
                                             !.ok = ok]
               /\ returned' = returned
            \/ /\ call[t].at = "header" => call[t].len = 0
               /\ call'[t] = NoCall
               /\ ~ok => returned' = returned
               /\ ok => /\ returned'.all = returned.all \cup {Frame(t)}
                        /\ returned'.quiet =
                             IF t \in quiet THEN returned.quiet \cup {Frame(t)}
                                            ELSE returned.quiet
         /\ returned' \in [all : SUBSET AllFrames, quiet : SUBSET AllFrames]
<1>1. call \in [Threads -> Calls] /\ call[t] \in Calls
  BY DEF TypeOK
<1>2. returned \in [all : SUBSET AllFrames, quiet : SUBSET AllFrames]
  BY DEF TypeOK
<1>3. Frame(t) \in AllFrames
  BY CallTypes
<1>4. NoCall \in Calls
  BY NoCallTypes
<1>5. CASE call[t].at = "header" /\ call[t].len > 0
  <2>1. [call[t] EXCEPT !.at = "payload", !.sent = 0, !.ok = ok] \in Calls
    BY <1>1, PayloadTypes
  <2> QED
    BY <1>1, <1>2, <1>5, <2>1 DEF AfterSend
<1>6. CASE ~(call[t].at = "header" /\ call[t].len > 0)
  <2>1. call[t].at = "header" => call[t].len = 0
    BY <1>1, <1>6, LengthAssumption DEF Calls, CallRecords, Lengths
  <2>2. call' = [call EXCEPT ![t] = NoCall]
    BY <1>6 DEF AfterSend
  <2>3. CASE ok
    <3>1. returned' = [all |-> returned.all \cup {Frame(t)},
                       quiet |-> IF t \in quiet
                                   THEN returned.quiet \cup {Frame(t)}
                                   ELSE returned.quiet]
      BY <1>6, <2>3 DEF AfterSend
    <3> QED
      BY <1>1, <1>2, <1>3, <1>4, <1>6, <2>1, <2>2, <2>3, <3>1
  <2>4. CASE ~ok
    <3>1. returned' = returned
      BY <1>6, <2>4 DEF AfterSend
    <3> QED
      BY <1>1, <1>2, <1>4, <1>6, <2>1, <2>2, <2>4, <3>1
  <2> QED
    BY <2>3, <2>4
<1> QED
  BY <1>5, <1>6

\* One _socket->send(): a part of m units goes to the end of the connection,
\* and the call is behind it.
LEMMA SendPartTypes ==
  ASSUME TypeOK, NEW t \in Threads, SendPart(t), session \in Sessions
  PROVE  \E m \in Nat \ {0} :
           /\ m <= Goal(t) - call[t].sent
           /\ out' = [out EXCEPT ![session] = @ \o Part(t, call[t].sent, m)]
           /\ IF call[t].sent + m = Goal(t)
                THEN AfterSend(t, call[t].ok)
                ELSE /\ call' = [call EXCEPT ![t].sent = @ + m]
                     /\ UNCHANGED returned
           /\ out' \in [Sessions -> Seq(Units)]
           /\ \A k \in Sessions : k # session => out'[k] = out[k]
           /\ Len(out'[session]) = Len(out[session]) + m
           /\ \A i \in 1..Len(out[session]) : out'[session][i] = out[session][i]
           /\ \A i \in 1..m : out'[session][Len(out[session]) + i]
                                = Unit(Frame(t), Done(t) + i)
<1>1. PICK m \in 1..(Goal(t) - call[t].sent) :
        /\ out' = [out EXCEPT ![session] = @ \o Part(t, call[t].sent, m)]
        /\ IF call[t].sent + m = Goal(t)
             THEN AfterSend(t, call[t].ok)
             ELSE /\ call' = [call EXCEPT ![t].sent = @ + m]
                  /\ UNCHANGED returned
  BY DEF SendPart
<1>2. call[t].sent \in Nat /\ Goal(t) \in Nat /\ Base(t) \in Nat
  BY CallTypes
<1>3. m \in Nat \ {0} /\ m <= Goal(t) - call[t].sent
  BY <1>1, <1>2
<1> DEFINE before == out[session]
           more == Part(t, call[t].sent, m)
<1>4. before \in Seq(Units)
  BY DEF TypeOK
<1>5. /\ more \in Seq(Units) /\ Len(more) = m
      /\ \A i \in 1..m : more[i] = Unit(Frame(t), Base(t) + call[t].sent + i)
  BY <1>2, <1>3, UnitTypes
<1>6. out' = [out EXCEPT ![session] = before \o more]
  BY <1>1
<1>7. out'[session] = before \o more
  BY <1>6 DEF TypeOK
<1> HIDE DEF before, more
<1>8. before \o more \in Seq(Units) /\ Extends(before \o more, before, more)
  BY <1>4, <1>5, ConcatExtends, Zenon
<1>9. out' \in [Sessions -> Seq(Units)]
  BY <1>6, <1>8 DEF TypeOK
<1>10. \A k \in Sessions : k # session => out'[k] = out[k]
  BY <1>6 DEF TypeOK
<1>11. /\ Len(before \o more) = Len(before) + m
       /\ \A i \in 1..Len(before) : (before \o more)[i] = before[i]
       /\ \A i \in 1..m :
            (before \o more)[Len(before) + i] = Unit(Frame(t), Done(t) + i)
  BY <1>2, <1>5, <1>8 DEF Done, Extends
<1> QED
  BY <1>1, <1>3, <1>7, <1>8, <1>9, <1>10, <1>11 DEF before, more

\* What the worker appends for HTTP.
LEMMA PlainSent ==
  ASSUME TypeOK, session \in Sessions, NEW u \in Units,
         out' = [out EXCEPT ![session] = Append(@, u)]
  PROVE  /\ out' \in [Sessions -> Seq(Units)]
         /\ \A k \in Sessions : k # session => out'[k] = out[k]
         /\ Len(out'[session]) = Len(out[session]) + 1
         /\ \A i \in 1..Len(out[session]) : out'[session][i] = out[session][i]
         /\ out'[session][Len(out[session]) + 1] = u
<1>1. out \in [Sessions -> Seq(Units)] /\ out[session] \in Seq(Units)
  BY DEF TypeOK
<1>2. out'[session] = Append(out[session], u)
  BY <1>1
<1>3. Append(out[session], u) \in Seq(Units)
  BY <1>1
<1> QED
  BY <1>1, <1>2, <1>3, AppendProperties

-----------------------------------------------------------------------------
(* Types.                                                                  *)

\* Every step of a thread keeps the types.
LEMMA TypeStep == IInv /\ [Next]_vars => TypeOK'
<1> SUFFICES ASSUME IInv, [Next]_vars PROVE TypeOK'
  OBVIOUS
<1>0. TypeOK /\ StageInv /\ FutureInv /\ CallInv
  BY DEF IInv
<1> USE ThreadsAre, BoundAssumption DEF objVars, Sessions, Stages, AnyOrigin
<1>1. NoCall \in Calls
  BY NoCallTypes
<1>2. ASSUME NEW t \in Threads, Disturb(t)
      PROVE  quiet' \subseteq Threads
  BY <1>0, <1>2 DEF Disturb, TypeOK
<1>3. ASSUME UNCHANGED <<out, call, count, returned>>, quiet' \subseteq Threads,
             session' \in 0..MaxSession, socketIsOpen' \in BOOLEAN,
             isWebSocket' \in BOOLEAN, wsOrigin' \in AnyOrigin,
             stage' \in Stages, url' \in [Sessions -> AnyOrigin],
             closed' \subseteq Sessions
      PROVE  TypeOK'
  BY <1>0, <1>3 DEF TypeOK
<1>4. ASSUME NEW t \in Threads, UNCHANGED <<objVars, out, returned>>,
             stage' \in Stages, quiet' \subseteq Threads,
             NEW c \in Calls, call' = [call EXCEPT ![t] = c],
             count' \in [Threads -> 0..(MaxFrames + MaxSession)]
      PROVE  TypeOK'
  BY <1>0, <1>4 DEF TypeOK
<1>5. ASSUME NEW t \in Threads, count[t] < MaxFrames + MaxSession,
             count' = [count EXCEPT ![t] = @ + 1]
      PROVE  count' \in [Threads -> 0..(MaxFrames + MaxSession)]
  BY <1>0, <1>5 DEF TypeOK
<1>6. ASSUME NEW t \in Threads, UNCHANGED <<objVars, stage, count>>,
             quiet' \subseteq Threads, NEW ok \in BOOLEAN, AfterSend(t, ok),
             out' \in [Sessions -> Seq(Units)]
      PROVE  TypeOK'
  <2>1. /\ call' \in [Threads -> Calls]
        /\ returned' \in [all : SUBSET AllFrames, quiet : SUBSET AllFrames]
    BY <1>0, <1>6, AfterSendTypes
  <2> QED
    BY <1>0, <1>6, <2>1 DEF TypeOK
<1>7. ASSUME NEW t \in Threads, Disturb(t),
             CheckOpen(t) \/ SendPart(t) \/ SendFails(t)
      PROVE  TypeOK'
  <2> quiet' \subseteq Threads
    BY <1>2, <1>7
  <2> call[t] \in Calls /\ PayloadLen \in Nat /\ HeaderLen \in Nat
    BY <1>0, CallTypes, LengthAssumption
  <2>1. CASE CheckOpen(t)
    <3> DEFINE c == IF socketIsOpen /\ isWebSocket
                      THEN [call[t] EXCEPT !.at = "header"] ELSE NoCall
    <3>1. c \in Calls
      BY <1>1, <2>1, NextStepTypes DEF CheckOpen
    <3>2. call' = [call EXCEPT ![t] = c]
      BY <2>1 DEF CheckOpen
    <3>3. UNCHANGED <<objVars, stage, out, count, returned>>
      BY <2>1 DEF CheckOpen
    <3> HIDE DEF c
    <3> QED
      BY <1>0, <1>4, <3>1, <3>2, <3>3 DEF TypeOK
  <2>2. CASE SendPart(t)
    <3>1. session \in Sessions
      BY <1>0, <2>2 DEF SendPart, CallInv
    <3>2. PICK m \in Nat \ {0} :
            /\ m <= Goal(t) - call[t].sent
            /\ IF call[t].sent + m = Goal(t)
                 THEN AfterSend(t, call[t].ok)
                 ELSE /\ call' = [call EXCEPT ![t].sent = @ + m]
                      /\ UNCHANGED returned
            /\ out' \in [Sessions -> Seq(Units)]
      BY <1>0, <2>2, <3>1, SendPartTypes
    <3>3. CASE call[t].sent + m = Goal(t)
      <4>1. AfterSend(t, call[t].ok) /\ call[t].ok \in BOOLEAN
        BY <1>0, <3>2, <3>3, CallTypes
      <4> QED
        BY <1>6, <2>2, <3>2, <4>1 DEF SendPart
    <3>4. CASE call[t].sent + m # Goal(t)
      <4> DEFINE c == [call[t] EXCEPT !.sent = @ + m]
      <4>0. /\ call' = [call EXCEPT ![t].sent = @ + m]
            /\ UNCHANGED returned
        BY <3>2, <3>4, Zenon
      <4>1. call' = [call EXCEPT ![t] = c]
        BY <4>0
      <4>2. c \in Calls
        <5>1. call[t].sent + m <= PartLen(call[t])
          BY <1>0, <3>2, CallTypes DEF Goal
        <5> QED
          BY <5>1, PartTypes
      <4>3. UNCHANGED <<objVars, stage, count>>
        BY <2>2 DEF SendPart
      <4> HIDE DEF c
      <4>4. call' \in [Threads -> Calls]
        BY <1>0, <4>1, <4>2 DEF TypeOK
      <4> QED
        BY <1>0, <3>2, <4>0, <4>3, <4>4 DEF TypeOK
    <3> QED
      BY <3>3, <3>4
  <2>3. CASE SendFails(t)
    BY <1>0, <1>6, <2>3 DEF SendFails, TypeOK
  <2> QED
    BY <1>7, <2>1, <2>2, <2>3
<1>8. ASSUME WorkerStep, Disturb(Worker) PROVE TypeOK'
  <2> quiet' \subseteq Threads
    BY <1>2, <1>8
  <2> PayloadLen \in Nat
    BY LengthAssumption
  <2> USE DEF TypeOK
  <2>1. CASE Start BY <1>0, <1>3, <2>1 DEF Start
  <2>2. CASE HttpRespond
    <3>1. out' \in [Sessions -> Seq(Units)]
      BY <1>0, <2>2, PlainSent, PlainTypes DEF HttpRespond, StageInv
    <3> QED BY <1>0, <2>2, <3>1 DEF HttpRespond
  <2>3. CASE HttpClose BY <1>0, <1>3, <2>3 DEF HttpClose
  <2>4. CASE SetOrigin
    BY <1>0, <1>3, <2>4 DEF SetOrigin, StageInv
  <2>5. ASSUME NEW o \in Origins, Upgrade(o) PROVE TypeOK'
    <3>1. out' \in [Sessions -> Seq(Units)]
      BY <1>0, <2>5, PlainSent, PlainTypes DEF Upgrade, StageInv
    <3> QED BY <1>0, <2>5, <3>1 DEF Upgrade
  <2>6. CASE WorkerSends
    <3> DEFINE c == NewCall("check", url[session], PayloadLen)
    <3>1. session \in Sessions
      BY <1>0, <2>6 DEF WorkerSends, StageInv
    <3>2. c \in Calls
      BY <1>0, <3>1, NewCallTypes DEF Lengths, TypeOK
    <3>3. count' \in [Threads -> 0..(MaxFrames + MaxSession)]
      BY <1>0, <1>5, <2>6 DEF WorkerSends
    <3>4. call' = [call EXCEPT ![Worker] = c]
      BY <2>6 DEF WorkerSends
    <3> HIDE DEF c
    <3> QED
      BY <1>0, <1>4, <2>6, <3>2, <3>3, <3>4 DEF WorkerSends
  <2>7. CASE Goodbye
    <3> DEFINE c == NewCall("check", url[session], 0)
    <3>1. session \in Sessions
      BY <1>0, <2>7 DEF Goodbye, StageInv
    <3>2. c \in Calls
      BY <1>0, <3>1, NewCallTypes DEF Lengths, TypeOK
    <3>3. count[Worker] < MaxFrames + MaxSession
      BY <1>0, <2>7, <3>1 DEF Goodbye, CallInv
    <3>4. count' \in [Threads -> 0..(MaxFrames + MaxSession)]
      BY <1>0, <1>5, <2>7, <3>3 DEF Goodbye
    <3>5. call' = [call EXCEPT ![Worker] = c]
      BY <2>7 DEF Goodbye
    <3> HIDE DEF c
    <3> QED
      BY <1>0, <1>4, <2>7, <3>2, <3>4, <3>5 DEF Goodbye
  <2>8. CASE LeaveWebSocket BY <1>0, <1>3, <2>8 DEF LeaveWebSocket
  <2>9. CASE CloseSocket BY <1>0, <1>3, <2>9 DEF CloseSocket, StageInv
  <2>10. CASE Closed BY <1>0, <1>3, <2>10 DEF Closed
  <2>11. CASE CheckOpen(Worker) \/ SendPart(Worker) \/ SendFails(Worker)
    BY <1>8, <1>7, <2>11
  <2> QED
    BY <1>8, <2>1, <2>2, <2>3, <2>4, <2>5, <2>6, <2>7, <2>8, <2>9, <2>10, <2>11
    DEF WorkerStep
<1>9. ASSUME NEW a \in Apps, AppStep(a), Disturb(a) PROVE TypeOK'
  <2> quiet' \subseteq Threads
    BY <1>2, <1>9
  <2>1. ASSUME NEW o \in Origins, Broadcast(a, o) PROVE TypeOK'
    <3> DEFINE c == NewCall("asked", o, PayloadLen)
    <3>1. c \in Calls
      BY NewCallTypes DEF Lengths
    <3>2. count' \in [Threads -> 0..(MaxFrames + MaxSession)]
      BY <1>0, <1>5, <2>1 DEF Broadcast, TypeOK
    <3>3. call' = [call EXCEPT ![a] = c]
      BY <2>1 DEF Broadcast
    <3> HIDE DEF c
    <3> QED
      BY <1>0, <1>4, <2>1, <3>1, <3>2, <3>3 DEF Broadcast, TypeOK
  <2>2. CASE CompareOrigin(a)
    <3> DEFINE c == IF wsOrigin = call[a].to
                      THEN [call[a] EXCEPT !.at = "check"] ELSE NoCall
    <3>1. c \in Calls
      BY <1>0, <1>1, <2>2, CallTypes, NextStepTypes DEF CompareOrigin
    <3>2. call' = [call EXCEPT ![a] = c]
      BY <2>2 DEF CompareOrigin
    <3> HIDE DEF c
    <3> QED
      BY <1>0, <1>4, <2>2, <3>1, <3>2 DEF CompareOrigin, TypeOK
  <2>3. CASE CheckOpen(a) \/ SendPart(a) \/ SendFails(a)
    BY <1>7, <1>9, <2>3
  <2> QED
    BY <1>9, <2>1, <2>2, <2>3 DEF AppStep
<1>10. CASE UNCHANGED vars
  BY <1>0, <1>10 DEF TypeOK, vars
<1> QED
  BY <1>8, <1>9, <1>10 DEF Next

-----------------------------------------------------------------------------
(* Stages, connections and calls.                                          *)

\* What a step of sendFrame() leaves alone, and what becomes of the call.
LEMMA SendStep ==
  ASSUME TypeOK, NEW t \in Threads,
         CheckOpen(t) \/ SendPart(t) \/ SendFails(t)
  PROVE  /\ UNCHANGED <<objVars, stage, count>>
         /\ call[t].at \in {"check", "header", "payload"}
         /\ \A x \in Threads : x # t => call'[x] = call[x]
         /\ \/ call'[t] = NoCall
            \/ /\ call'[t].at \in {"header", "payload"}
               /\ call'[t].to = call[t].to /\ call'[t].len = call[t].len
<1> USE DEF objVars
<1>1. call \in [Threads -> Calls] /\ call[t] \in CallRecords
  BY CallTypes DEF TypeOK
<1>2. ASSUME NEW ok \in BOOLEAN, AfterSend(t, ok)
      PROVE  /\ \A x \in Threads : x # t => call'[x] = call[x]
             /\ \/ call'[t] = NoCall
                \/ /\ call'[t].at \in {"header", "payload"}
                   /\ call'[t].to = call[t].to /\ call'[t].len = call[t].len
  <2>1. CASE call'[t] = [call[t] EXCEPT !.at = "payload", !.sent = 0, !.ok = ok]
    <3>1. /\ call'[t].at = "payload"
          /\ call'[t].to = call[t].to /\ call'[t].len = call[t].len
      BY <1>1, <2>1 DEF CallRecords
    <3> QED
      BY <1>2, <3>1, AfterSendTypes
  <2> QED
    BY <1>2, <2>1, AfterSendTypes
<1>3. CASE CheckOpen(t)
  BY <1>1, <1>3 DEF CheckOpen, CallRecords
<1>4. CASE SendPart(t)
  <2>1. PICK m \in 1..(Goal(t) - call[t].sent) :
          IF call[t].sent + m = Goal(t)
            THEN AfterSend(t, call[t].ok)
            ELSE call' = [call EXCEPT ![t].sent = @ + m]
    BY <1>4 DEF SendPart
  <2>2. CASE call[t].sent + m = Goal(t)
    BY <1>2, <1>4, <2>1, <2>2, CallTypes DEF SendPart
  <2>3. CASE call[t].sent + m # Goal(t)
    BY <1>1, <1>4, <2>1, <2>3 DEF SendPart, CallRecords
  <2> QED
    BY <2>2, <2>3
<1>5. CASE SendFails(t)
  BY <1>2, <1>5 DEF SendFails
<1> QED
  BY <1>3, <1>4, <1>5

\* Every step keeps what the stages of receiveData() promise.
LEMMA StageStep == IInv /\ [Next]_vars => (StageInv /\ FutureInv /\ CallInv)'
<1> SUFFICES ASSUME IInv, [Next]_vars PROVE (StageInv /\ FutureInv /\ CallInv)'
  OBVIOUS
<1>0. TypeOK /\ StageInv /\ FutureInv /\ CallInv
  BY DEF IInv
<1> USE ThreadsAre, BoundAssumption DEF objVars, Sessions
<1>1. NoCall.at = "none"
  BY DEF NoCall, NewCall
<1>2. \A at, to, len : NewCall(at, to, len).at = at /\ NewCall(at, to, len).to = to
  BY DEF NewCall
<1>3. ASSUME NEW t \in Threads,
             CheckOpen(t) \/ SendPart(t) \/ SendFails(t)
      PROVE  (StageInv /\ FutureInv /\ CallInv)'
  <2>1. /\ UNCHANGED <<objVars, stage, count>>
        /\ call[t].at \in {"check", "header", "payload"}
        /\ \A x \in Threads : x # t => call'[x] = call[x]
        /\ \/ call'[t].at = "none"
           \/ call'[t].at \in {"header", "payload"} /\ call'[t].to = call[t].to
    BY <1>0, <1>1, <1>3, SendStep
  <2>2. \A k \in Sessions : k > session => out'[k] = out[k]
    <3>1. CASE SendPart(t)
      <4>1. PICK m : out' = [out EXCEPT ![session] =
                                @ \o Part(t, call[t].sent, m)]
        BY <3>1, Zenon DEF SendPart
      <4>2. \A k \in Sessions : k # session => out'[k] = out[k]
        BY <1>0, <4>1 DEF TypeOK
      <4> QED
        BY <1>0, <4>2 DEF TypeOK
    <3> QED
      BY <1>3, <3>1 DEF CheckOpen, SendFails
  <2>3. StageInv'
    BY <1>0, <2>1 DEF StageInv
  <2>4. FutureInv'
    BY <1>0, <2>1, <2>2 DEF FutureInv
  <2>5. CallInv'
    BY <1>0, <2>1 DEF CallInv
  <2> QED
    BY <2>3, <2>4, <2>5
<1>4. ASSUME WorkerStep PROVE (StageInv /\ FutureInv /\ CallInv)'
  <2> USE DEF StageInv, FutureInv, CallInv, TypeOK
  <2>1. CASE Start
    <3>1. StageInv'
      BY <1>0, <2>1 DEF Start
    <3>2. FutureInv'
      BY <1>0, <2>1 DEF Start
    <3>3. CallInv'
      BY <1>0, <2>1 DEF Start
    <3> QED
      BY <3>1, <3>2, <3>3
  <2>2. CASE HttpRespond
    <3>1. StageInv'
      BY <1>0, <2>2 DEF HttpRespond
    <3>2. FutureInv'
      <4>1. /\ stage = "http" /\ UNCHANGED <<closed, session, stage, url>>
            /\ out' = [out EXCEPT ![session] = Append(@, Response)]
        BY <2>2 DEF HttpRespond, objVars
      <4>2. session \in Nat /\ DOMAIN out = Sessions
        BY <1>0
      <4>3. \A k \in Sessions : k > session => out'[k] = out[k]
        BY <4>1, <4>2
      <4> QED
        BY <1>0, <4>1, <4>3 DEF FutureInv
    <3>3. CallInv'
      BY <1>0, <2>2 DEF HttpRespond
    <3> QED
      BY <3>1, <3>2, <3>3
  <2>3. CASE HttpClose
    <3>1. StageInv'
      BY <1>0, <2>3 DEF HttpClose
    <3>2. FutureInv'
      BY <1>0, <2>3 DEF HttpClose
    <3>3. CallInv'
      BY <1>0, <2>3 DEF HttpClose
    <3> QED
      BY <3>1, <3>2, <3>3
  <2>4. CASE SetOrigin
    <3>1. StageInv'
      BY <1>0, <2>4 DEF SetOrigin
    <3>2. FutureInv'
      BY <1>0, <2>4 DEF SetOrigin
    <3>3. CallInv'
      BY <1>0, <2>4 DEF SetOrigin
    <3> QED
      BY <3>1, <3>2, <3>3
  <2>5. ASSUME NEW o \in Origins, Upgrade(o)
        PROVE  (StageInv /\ FutureInv /\ CallInv)'
    <3>1. StageInv'
      BY <1>0, <2>5 DEF Upgrade
    <3>2. FutureInv'
      <4>1. /\ stage' = "origin" /\ UNCHANGED <<closed, session>>
            /\ out' = [out EXCEPT ![session] = Append(@, Switching)]
            /\ url' = [url EXCEPT ![session] = o]
        BY <2>5 DEF Upgrade
      <4>2. session \in Nat /\ DOMAIN out = Sessions /\ DOMAIN url = Sessions
        BY <1>0
      <4>3. \A k \in Sessions : k > session => out'[k] = out[k] /\ url'[k] = url[k]
        BY <4>1, <4>2
      <4> QED
        BY <1>0, <4>1, <4>3 DEF FutureInv
    <3>3. CallInv'
      BY <1>0, <2>5 DEF Upgrade
    <3> QED
      BY <3>1, <3>2, <3>3
  <2>6. CASE WorkerSends
    <3>1. StageInv'
      BY <1>0, <2>6 DEF WorkerSends
    <3>2. FutureInv'
      BY <1>0, <2>6 DEF WorkerSends
    <3>3. CallInv'
      BY <1>0, <1>1, <1>2, <2>6 DEF WorkerSends
    <3> QED
      BY <3>1, <3>2, <3>3
  <2>7. CASE Goodbye
    <3>1. StageInv'
      BY <1>0, <2>7 DEF Goodbye
    <3>2. FutureInv'
      BY <1>0, <2>7 DEF Goodbye
    <3>3. CallInv'
      BY <1>0, <1>1, <1>2, <2>7 DEF Goodbye
    <3> QED
      BY <3>1, <3>2, <3>3
  <2>8. CASE LeaveWebSocket
    <3>1. StageInv'
      BY <1>0, <2>8 DEF LeaveWebSocket
    <3>2. FutureInv'
      BY <1>0, <2>8 DEF LeaveWebSocket
    <3>3. CallInv'
      BY <1>0, <2>8 DEF LeaveWebSocket
    <3> QED
      BY <3>1, <3>2, <3>3
  <2>9. CASE CloseSocket
    <3>1. StageInv'
      BY <1>0, <2>9 DEF CloseSocket
    <3>2. FutureInv'
      BY <1>0, <2>9 DEF CloseSocket
    <3>3. CallInv'
      BY <1>0, <2>9 DEF CloseSocket
    <3> QED
      BY <3>1, <3>2, <3>3
  <2>10. CASE Closed BY <1>0, <2>10 DEF Closed
  <2>11. CASE CheckOpen(Worker) \/ SendPart(Worker) \/ SendFails(Worker)
    BY <1>4, <1>3, <2>11
  <2> QED
    BY <1>4, <2>1, <2>2, <2>3, <2>4, <2>5, <2>6, <2>7, <2>8, <2>9, <2>10, <2>11
    DEF WorkerStep
<1>5. ASSUME NEW a \in Apps, AppStep(a)
      PROVE  (StageInv /\ FutureInv /\ CallInv)'
  <2>1. ASSUME NEW o \in Origins, Broadcast(a, o)
        PROVE  (StageInv /\ FutureInv /\ CallInv)'
    BY <1>0, <1>2, <2>1 DEF Broadcast, StageInv, FutureInv, CallInv, TypeOK
  <2>2. CASE CompareOrigin(a)
    BY <1>0, <2>2 DEF CompareOrigin, StageInv, FutureInv, CallInv, TypeOK
  <2>3. CASE CheckOpen(a) \/ SendPart(a) \/ SendFails(a)
    BY <1>3, <1>5, <2>3
  <2> QED
    BY <1>5, <2>1, <2>2, <2>3 DEF AppStep
<1>6. CASE UNCHANGED vars
  BY <1>0, <1>6 DEF StageInv, FutureInv, CallInv, vars
<1> QED
  BY <1>4, <1>5, <1>6 DEF Next

-----------------------------------------------------------------------------
(* The order of what was sent.                                             *)

\* The units of each thread go up.
InOrder(s) ==
  \A i, j \in 1..Len(s) :
    i < j /\ s[i].frame.by = s[j].frame.by => Before(s[i], s[j])

\* They still do when n units come behind them that are in order themselves,
\* and behind all others.
LEMMA GrowsInOrder ==
  ASSUME NEW s \in Seq(Units), NEW more \in Seq(Units), NEW n \in Nat,
         Len(more) = Len(s) + n,
         \A i \in 1..Len(s) : more[i] = s[i],
         InOrder(s),
         \A i \in 1..Len(s) : \A j \in 1..n :
           s[i].frame.by = more[Len(s) + j].frame.by =>
             Before(s[i], more[Len(s) + j]),
         \A i, j \in 1..n :
           i < j => Before(more[Len(s) + i], more[Len(s) + j])
  PROVE  InOrder(more)
<1> SUFFICES ASSUME NEW i \in 1..Len(more), NEW j \in 1..Len(more),
                    i < j, more[i].frame.by = more[j].frame.by
             PROVE  Before(more[i], more[j])
  BY DEF InOrder
<1>1. Len(s) \in Nat
  BY LenProperties
<1>2. CASE j <= Len(s)
  <2>1. i \in 1..Len(s) /\ j \in 1..Len(s)
    BY <1>1, <1>2
  <2> QED
    BY <2>1 DEF InOrder
<1>3. CASE i <= Len(s) /\ j > Len(s)
  <2> DEFINE q == j - Len(s)
  <2>1. i \in 1..Len(s) /\ q \in 1..n /\ Len(s) + q = j
    BY <1>1, <1>3
  <2>2. more[i] = s[i]
    BY <2>1
  <2> HIDE DEF q
  <2> QED
    BY <2>1, <2>2
<1>4. CASE i > Len(s)
  <2> DEFINE p == i - Len(s)
             q == j - Len(s)
  <2>1. /\ p \in 1..n /\ Len(s) + p = i
        /\ q \in 1..n /\ Len(s) + q = j /\ p < q
    BY <1>1, <1>4
  <2> HIDE DEF p, q
  <2> QED
    BY <2>1
<1> QED
  BY <1>1, <1>2, <1>3, <1>4

\* A step of sendFrame() that is its last, and one that is not.
Returns(t, n) ==
  /\ call'[t].at = "none"
  /\ Done(t) + n = FrameLen(Frame(t))
  /\ returned'.quiet = IF t \in quiet /\ call[t].ok
                         THEN returned.quiet \cup {Frame(t)}
                         ELSE returned.quiet
GoesOn(t) ==
  /\ call'[t].at # "none"
  /\ call'[t].ok = call[t].ok
  /\ call'[t].to = call[t].to /\ call'[t].len = call[t].len
  /\ returned' = returned

\* How far a call is after a step of sendFrame().
LEMMA SendDone ==
  ASSUME TypeOK, NEW t \in Threads, session \in Sessions
  PROVE  /\ CheckOpen(t) \/ SendFails(t) =>
              /\ out' = out
              /\ \/ call'[t].at = "none"
                 \/ call[t].at = "check"
                 \/ (Done(t)' \in Nat /\ Done(t)' >= Done(t))
         /\ SendPart(t) =>
              \E n \in Nat \ {0} :
                /\ Len(out'[session]) = Len(out[session]) + n
                /\ \A i \in 1..Len(out[session]) :
                     out'[session][i] = out[session][i]
                /\ \A i \in 1..n : out'[session][Len(out[session]) + i]
                                     = Unit(Frame(t), Done(t) + i)
                /\ call'[t].at = "none" \/ Done(t)' = Done(t) + n
                /\ Returns(t, n) \/ GoesOn(t)
                /\ out' \in [Sessions -> Seq(Units)]
                /\ \A k \in Sessions : k # session => out'[k] = out[k]
<1>1. call \in [Threads -> Calls] /\ call[t] \in CallRecords
  BY CallTypes DEF TypeOK
<1>2. NoCall.at = "none"
  BY DEF NoCall, NewCall
<1>3. ASSUME NEW ok \in BOOLEAN, AfterSend(t, ok),
             call[t].at \in {"header", "payload"}
      PROVE  \/ call'[t].at = "none"
             \/ /\ call[t].at = "header"
                /\ Done(t)' = HeaderLen
  <2>1. CASE call'[t] = [call[t] EXCEPT !.at = "payload", !.sent = 0, !.ok = ok]
                /\ call[t].at = "header"
    <3>1. call'[t].at = "payload" /\ call'[t].sent = 0
      BY <1>1, <2>1 DEF CallRecords
    <3> QED
      BY <2>1, <3>1, LengthAssumption DEF Done, Base
  <2> QED
    BY <1>2, <1>3, <2>1, AfterSendTypes
<1>4. ASSUME CheckOpen(t) \/ SendFails(t)
      PROVE  /\ out' = out
             /\ \/ call'[t].at = "none"
                \/ call[t].at = "check"
                \/ (Done(t)' \in Nat /\ Done(t)' >= Done(t))
  <2>1. CASE CheckOpen(t)
    BY <2>1 DEF CheckOpen
  <2>2. CASE SendFails(t)
    <3>1. \/ call'[t].at = "none"
          \/ call[t].at = "header" /\ Done(t)' = HeaderLen
      BY <1>3, <2>2 DEF SendFails
    <3>2. call[t].at = "header" => Done(t) <= HeaderLen /\ HeaderLen \in Nat
      BY CallTypes, LengthAssumption DEF Done, Base, PartLen
    <3> QED
      BY <2>2, <3>1, <3>2, CallTypes DEF SendFails
  <2> QED
    BY <1>4, <2>1, <2>2
<1>5. ASSUME SendPart(t)
      PROVE  \E n \in Nat \ {0} :
                /\ Len(out'[session]) = Len(out[session]) + n
                /\ \A i \in 1..Len(out[session]) :
                     out'[session][i] = out[session][i]
                /\ \A i \in 1..n : out'[session][Len(out[session]) + i]
                                     = Unit(Frame(t), Done(t) + i)
                /\ call'[t].at = "none" \/ Done(t)' = Done(t) + n
                /\ Returns(t, n) \/ GoesOn(t)
                /\ out' \in [Sessions -> Seq(Units)]
                /\ \A k \in Sessions : k # session => out'[k] = out[k]
  <2>1. PICK m \in Nat \ {0} :
           /\ m <= Goal(t) - call[t].sent
           /\ IF call[t].sent + m = Goal(t)
                THEN AfterSend(t, call[t].ok)
                ELSE /\ call' = [call EXCEPT ![t].sent = @ + m]
                     /\ UNCHANGED returned
           /\ out' \in [Sessions -> Seq(Units)]
           /\ \A k \in Sessions : k # session => out'[k] = out[k]
           /\ Len(out'[session]) = Len(out[session]) + m
           /\ \A i \in 1..Len(out[session]) : out'[session][i] = out[session][i]
           /\ \A i \in 1..m : out'[session][Len(out[session]) + i]
                                = Unit(Frame(t), Done(t) + i)
    BY <1>5, SendPartTypes
  <2>2. call[t].at \in {"header", "payload"}
    BY <1>5 DEF SendPart
  <2>3. call'[t].at = "none" \/ Done(t)' = Done(t) + m
    <3>1. CASE call[t].sent + m = Goal(t)
      <4>1. \/ call'[t].at = "none"
            \/ call[t].at = "header" /\ Done(t)' = HeaderLen
        BY <1>3, <2>1, <2>2, <3>1, CallTypes
      <4>2. call[t].at = "header" => Done(t) + m = HeaderLen
        BY <3>1, CallTypes, LengthAssumption DEF Done, Base, Goal, PartLen
      <4> QED
        BY <4>1, <4>2
    <3>2. CASE call[t].sent + m # Goal(t)
      <4>1. call' = [call EXCEPT ![t].sent = @ + m]
        BY <2>1, <3>2
      <4>2. call'[t].at = call[t].at /\ call'[t].sent = call[t].sent + m
        BY <1>1, <4>1 DEF CallRecords
      <4> QED
        BY <4>2, CallTypes, LengthAssumption DEF Done, Base
    <3> QED
      BY <3>1, <3>2
  <2>4. Returns(t, m) \/ GoesOn(t)
    <3>1. CASE call[t].sent + m = Goal(t)
      <4>1. AfterSend(t, call[t].ok) /\ call[t].ok \in BOOLEAN
        BY <2>1, <3>1, CallTypes
      <4>2. CASE /\ call[t].at = "header" => call[t].len = 0
                 /\ call'[t] = NoCall
                 /\ ~call[t].ok => returned' = returned
                 /\ call[t].ok =>
                      returned'.quiet = IF t \in quiet
                                          THEN returned.quiet \cup {Frame(t)}
                                          ELSE returned.quiet
        <5>1. Done(t) + m = FrameLen(Frame(t))
          <6>1. FrameLen(Frame(t)) = HeaderLen + call[t].len
            BY DEF FrameLen, Frame
          <6>2. CASE call[t].at = "header"
            BY <3>1, <4>2, <6>1, <6>2, CallTypes, LengthAssumption
            DEF Done, Base, Goal, PartLen
          <6>3. CASE call[t].at = "payload"
            BY <3>1, <6>1, <6>3, CallTypes, LengthAssumption
            DEF Done, Base, Goal, PartLen
          <6> QED
            BY <2>2, <6>2, <6>3
        <5> QED
          BY <1>2, <4>1, <4>2, <5>1 DEF Returns
      <4>3. CASE /\ call'[t] = [call[t] EXCEPT !.at = "payload", !.sent = 0,
                                               !.ok = call[t].ok]
                 /\ returned' = returned
        BY <1>1, <4>3 DEF CallRecords, GoesOn
      <4> QED
        BY <4>1, <4>2, <4>3, AfterSendTypes
    <3>2. CASE call[t].sent + m # Goal(t)
      <4>1. call' = [call EXCEPT ![t].sent = @ + m] /\ returned' = returned
        BY <2>1, <3>2
      <4> QED
        BY <1>1, <2>2, <4>1 DEF CallRecords, GoesOn
    <3> QED
      BY <3>1, <3>2
  <2> QED
    BY <2>1, <2>3, <2>4
<1> QED
  BY <1>4, <1>5

\* Units behind their calls stay there when calls go on.
LEMMA StaysBehind ==
  ASSUME TypeOK, NEW t \in Threads, NEW u \in Units, Behind(u),
         \A x \in Threads : x # t => call'[x] = call[x] /\ count'[x] = count[x],
         \/ count'[t] = count[t] + 1
         \/ /\ count'[t] = count[t]
            /\ \/ call'[t].at = "none"
               \/ call[t].at \in {"asked", "check"}
               \/ /\ call'[t].at \in {"header", "payload"}
                  /\ call[t].at \in {"header", "payload"}
                  /\ Done(t)' \in Nat /\ Done(t)' >= Done(t)
  PROVE  Behind(u)'
<1>1. u.frame.n \in Nat /\ u.frame.by \in Threads /\ u.i \in Nat
  BY DEF Units, AllFrames
<1>2. \A x \in Threads : count[x] \in Nat /\ Done(x) \in Nat
  BY CallTypes
<1>3. CASE u.frame.by # t
  BY <1>1, <1>3 DEF Behind, Done, Base
<1>4. CASE u.frame.by = t
  BY <1>1, <1>2, <1>4 DEF Behind
<1> QED
  BY <1>3, <1>4

\* Every step keeps each thread's units in order, on every connection.
LEMMA OrderStep == IInv /\ [Next]_vars => OrderInv'
<1> SUFFICES ASSUME IInv, [Next]_vars PROVE OrderInv'
  OBVIOUS
<1>0. /\ TypeOK /\ StageInv /\ FutureInv /\ CallInv /\ OrderInv
      /\ \A k \in Sessions : InOrder(out[k])
      /\ \A k \in Sessions : out[k] \in Seq(Units)
  BY DEF IInv, OrderInv, NothingTwice, InOrder, TypeOK
<1>1. /\ TypeOK'
      /\ \A k \in Sessions : out'[k] \in Seq(Units)
  BY TypeStep DEF TypeOK
<1> USE ThreadsAre, BoundAssumption DEF objVars
<1>2. NoCall.at = "none"
  BY DEF NoCall, NewCall
<1>3. \A k \in Sessions : \A i \in 1..Len(out[k]) : out[k][i] \in Units
  BY <1>0, ElementOfSeq
<1>4. ASSUME NEW t \in Threads, out' = out,
             \A u \in Units : Behind(u) => Behind(u)',
             stage' = "http" => stage = "http" /\ session' = session
      PROVE  OrderInv'
  <2>1. NothingTwice'
    BY <1>0, <1>4 DEF OrderInv, NothingTwice
  <2>2. \A k \in Sessions : \A i \in 1..Len(out'[k]) : Behind(out[k][i])'
    BY <1>0, <1>3, <1>4 DEF OrderInv
  <2>3. stage' = "http" =>
          \A i \in 1..Len(out'[session']) :
            out'[session'][i].frame.by = Worker => out'[session'][i] = Response
    BY <1>0, <1>4 DEF OrderInv
  <2> QED
    BY <2>1, <2>2, <2>3 DEF OrderInv
<1>5. ASSUME NEW t \in Threads, session \in Sessions, session' = session,
             NEW n \in Nat, NEW unit,
             Len(out'[session]) = Len(out[session]) + n,
             \A i \in 1..Len(out[session]) : out'[session][i] = out[session][i],
             \A j \in 1..n : out'[session][Len(out[session]) + j] = unit[j],
             \A k \in Sessions : k # session => out'[k] = out[k],
             \A j \in 1..n : unit[j].frame.by = t /\ Behind(unit[j])',
             \A i, j \in 1..n : i < j => Before(unit[i], unit[j]),
             \A i \in 1..Len(out[session]) : \A j \in 1..n :
               out[session][i].frame.by = t => Before(out[session][i], unit[j]),
             \A u \in Units : Behind(u) => Behind(u)',
             stage' = "http" =>
               stage = "http" /\ (t = Worker => \A j \in 1..n : unit[j] = Response)
      PROVE  OrderInv'
  <2> DEFINE s == out[session]
             more == out'[session]
  <2>1. s \in Seq(Units) /\ more \in Seq(Units) /\ InOrder(s)
    BY <1>0, <1>1, <1>5
  <2>2. Len(more) = Len(s) + n /\ \A i \in 1..Len(s) : more[i] = s[i]
    BY <1>5
  <2>3. \A i \in 1..Len(s) : \A j \in 1..n :
          s[i].frame.by = more[Len(s) + j].frame.by =>
            Before(s[i], more[Len(s) + j])
    <3> SUFFICES ASSUME NEW i \in 1..Len(s), NEW j \in 1..n,
                        s[i].frame.by = more[Len(s) + j].frame.by
                 PROVE  Before(s[i], more[Len(s) + j])
      OBVIOUS
    <3>1. more[Len(s) + j] = unit[j] /\ unit[j].frame.by = t
      BY <1>5
    <3> QED
      BY <1>5, <3>1
  <2>4. \A i, j \in 1..n :
          i < j => Before(more[Len(s) + i], more[Len(s) + j])
    BY <1>5
  <2>5. Len(s) \in Nat
    BY <2>1, LenProperties
  <2> HIDE DEF s, more
  <2>6. InOrder(more)
    BY <1>5, <2>1, <2>2, <2>3, <2>4, GrowsInOrder
  <2>7. \A k \in Sessions : InOrder(out'[k])
    BY <1>0, <1>5, <2>6 DEF more
  <2>8. NothingTwice'
    BY <2>7 DEF InOrder, NothingTwice
  <2>9. ASSUME NEW i \in 1..Len(more)
        PROVE  (i \in 1..Len(s) /\ more[i] = s[i])
               \/ \E j \in 1..n : i = Len(s) + j /\ more[i] = unit[j]
    <3>1. CASE i <= Len(s)
      BY <2>2, <2>5, <3>1
    <3>2. CASE i > Len(s)
      <4> DEFINE j == i - Len(s)
      <4>1. j \in 1..n /\ i = Len(s) + j
        BY <1>5, <2>2, <2>5, <3>2
      <4> HIDE DEF j
      <4> QED
        BY <1>5, <4>1 DEF s, more
    <3> QED
      BY <2>5, <3>1, <3>2
  <2>10. ASSUME NEW k \in Sessions, NEW i \in 1..Len(out'[k])
         PROVE  Behind(out[k][i])'
    <3>1. CASE k # session
      BY <1>0, <1>3, <1>5, <3>1 DEF OrderInv
    <3>2. CASE k = session
      <4>1. CASE i \in 1..Len(s) /\ more[i] = s[i]
        BY <1>0, <1>3, <1>5, <3>2, <4>1 DEF OrderInv, s, more
      <4>2. CASE \E j \in 1..n : i = Len(s) + j /\ more[i] = unit[j]
        BY <1>5, <3>2, <4>2 DEF more
      <4> QED
        BY <2>9, <3>2, <4>1, <4>2 DEF more
    <3> QED
      BY <3>1, <3>2
  <2>11. ASSUME stage' = "http", NEW i \in 1..Len(more), more[i].frame.by = Worker
         PROVE  more[i] = Response
    <3>1. CASE i \in 1..Len(s) /\ more[i] = s[i]
      BY <1>0, <1>5, <2>11, <3>1 DEF OrderInv, s
    <3>2. CASE \E j \in 1..n : i = Len(s) + j /\ more[i] = unit[j]
      BY <1>5, <2>11, <3>2
    <3> QED
      BY <2>9, <3>1, <3>2
  <2> QED
    BY <1>5, <2>8, <2>10, <2>11 DEF OrderInv, more
<1>6. ASSUME NEW t \in Threads, session \in Sessions,
             CheckOpen(t) \/ SendPart(t) \/ SendFails(t)
      PROVE  OrderInv'
  <2>1. /\ UNCHANGED <<objVars, stage, count>>
        /\ call[t].at \in {"check", "header", "payload"}
        /\ \A x \in Threads : x # t => call'[x] = call[x]
        /\ call'[t].at = "none" \/ call'[t].at \in {"header", "payload"}
    BY <1>0, <1>2, <1>6, SendStep
  <2>2. Done(t) \in Nat /\ count[t] \in Nat
    BY <1>0, CallTypes
  <2>3. CASE CheckOpen(t) \/ SendFails(t)
    <3>1. /\ out' = out
          /\ \/ call'[t].at = "none"
             \/ call[t].at = "check"
             \/ (Done(t)' \in Nat /\ Done(t)' >= Done(t))
      BY <1>0, <1>6, <2>3, SendDone
    <3>2. \A u \in Units : Behind(u) => Behind(u)'
      BY <1>0, <2>1, <3>1, StaysBehind
    <3> QED
      BY <1>4, <2>1, <3>1, <3>2
  <2>4. CASE SendPart(t)
    <3>1. PICK n \in Nat \ {0} :
                /\ Len(out'[session]) = Len(out[session]) + n
                /\ \A i \in 1..Len(out[session]) :
                     out'[session][i] = out[session][i]
                /\ \A i \in 1..n : out'[session][Len(out[session]) + i]
                                     = Unit(Frame(t), Done(t) + i)
                /\ call'[t].at = "none" \/ Done(t)' = Done(t) + n
                /\ \A k \in Sessions : k # session => out'[k] = out[k]
      BY <1>0, <1>6, <2>4, SendDone
    <3>2. call[t].at \in {"header", "payload"}
      BY <2>4 DEF SendPart
    <3>3. \A u \in Units : Behind(u) => Behind(u)'
      <4>1. \/ call'[t].at = "none"
            \/ /\ call'[t].at \in {"header", "payload"}
               /\ Done(t)' \in Nat /\ Done(t)' >= Done(t)
        BY <2>1, <2>2, <3>1
      <4> QED
        BY <1>0, <2>1, <3>2, <4>1, StaysBehind
    <3>4. PICK unit : unit = [j \in 1..n |-> Unit(Frame(t), Done(t) + j)]
      OBVIOUS
    <3>5. \A j \in 1..n :
            /\ unit[j].frame.by = t
            /\ unit[j].frame.n = count[t]
            /\ unit[j].i = Done(t) + j
      BY <3>4 DEF Unit, Frame
    <3>6. \A j \in 1..n : out'[session][Len(out[session]) + j] = unit[j]
      BY <3>1, <3>4
    <3>7. \A j \in 1..n : Behind(unit[j])'
      BY <2>1, <2>2, <3>1, <3>5 DEF Behind
    <3>8. \A i, j \in 1..n : i < j => Before(unit[i], unit[j])
      BY <2>2, <3>5 DEF Before
    <3>9. ASSUME NEW i \in 1..Len(out[session]), NEW j \in 1..n,
                 out[session][i].frame.by = t
          PROVE  Before(out[session][i], unit[j])
      <4>1. out[session][i] \in Units /\ Behind(out[session][i])
        BY <1>0, <1>3, <1>6 DEF OrderInv
      <4>2. /\ out[session][i].frame.n \in Nat /\ out[session][i].i \in Nat
            /\ out[session][i].frame.n <= count[t]
            /\ out[session][i].frame.n = count[t] => out[session][i].i <= Done(t)
        BY <3>2, <3>9, <4>1 DEF Behind, Units, AllFrames
      <4>3. unit[j].frame.n = count[t] /\ unit[j].i = Done(t) + j
        BY <3>5
      <4>4. CASE out[session][i].frame.n = count[t]
        BY <2>2, <4>2, <4>3, <4>4 DEF Before
      <4>5. CASE out[session][i].frame.n < count[t]
        BY <4>3, <4>5 DEF Before
      <4> QED
        BY <2>2, <4>2, <4>4, <4>5
    <3>10. stage = "http" => t # Worker
      BY <1>0, <2>1 DEF CallInv
    <3> QED
      BY <1>5, <1>6, <2>1, <3>1, <3>3, <3>5, <3>6, <3>7, <3>8, <3>9, <3>10
  <2> QED
    BY <1>6, <2>3, <2>4
<1>7. ASSUME NEW t \in Threads, count' = [count EXCEPT ![t] = @ + 1],
             NEW c, call' = [call EXCEPT ![t] = c],
             out' = out, stage' = "http" => stage = "http" /\ session' = session
      PROVE  OrderInv'
  <2>1. \A u \in Units : Behind(u) => Behind(u)'
    BY <1>0, <1>7, StaysBehind DEF TypeOK
  <2> QED
    BY <1>4, <1>7, <2>1
<1>8. ASSUME out' = out, count' = count, call' = call,
             stage' = "http" => stage = "http" /\ session' = session
      PROVE  OrderInv'
  <2>1. \A u \in Units : Behind(u) => Behind(u)'
    BY <1>8 DEF Behind, Done, Base
  <2> QED
    BY <1>4, <1>8, <2>1
<1>9. ASSUME NEW u \in {Response, Switching}, session \in Sessions,
             session' = session, stage = "http", call' = call, count' = count,
             out' = [out EXCEPT ![session] = Append(@, u)],
             u = Response => Len(out[session]) = 0,
             stage' = "http" => u = Response
      PROVE  OrderInv'
  <2>1. /\ Len(out'[session]) = Len(out[session]) + 1
        /\ \A i \in 1..Len(out[session]) : out'[session][i] = out[session][i]
        /\ out'[session][Len(out[session]) + 1] = u
        /\ \A k \in Sessions : k # session => out'[k] = out[k]
    BY <1>0, <1>9, PlainSent, PlainTypes
  <2>2. /\ Response.frame.by = Worker /\ Response.frame.n = 0 /\ Response.i = 0
        /\ Switching.frame.by = Worker /\ Switching.frame.n = 0 /\ Switching.i = 1
    BY DEF Response, Switching, Plain, Unit
  <2>3. \A x \in Units : Behind(x) => Behind(x)'
    BY <1>9 DEF Behind, Done, Base
  <2>4. call[Worker].at = "none" /\ count[Worker] \in Nat
    BY <1>0, <1>9, CallTypes DEF CallInv
  <2>5. u.frame.by = Worker /\ Behind(u)'
    BY <1>9, <2>2, <2>4 DEF Behind
  <2>6. ASSUME NEW i \in 1..Len(out[session]), out[session][i].frame.by = Worker
        PROVE  Before(out[session][i], u)
    <3>1. out[session][i] = Response
      BY <1>0, <1>9, <2>6 DEF OrderInv
    <3>2. u = Switching
      BY <1>9, <2>6
    <3> QED
      BY <2>2, <3>1, <3>2 DEF Before
  <2> DEFINE unit == [j \in 1..1 |-> u]
  <2>7. /\ \A j \in 1..1 : unit[j] = u
        /\ \A j \in 1..1 : out'[session][Len(out[session]) + j] = unit[j]
        /\ \A i, j \in 1..1 : ~ i < j
    BY <2>1
  <2> HIDE DEF unit
  <2> QED
    BY <1>5, <1>9, <2>1, <2>3, <2>5, <2>6, <2>7
<1>10. ASSUME WorkerStep PROVE OrderInv'
  <2>1. CASE Start
    <3>1. out'[session'] = << >> /\ session' \in Sessions
      BY <1>0, <2>1 DEF Start, FutureInv, TypeOK, Sessions
    <3>2. /\ NothingTwice'
          /\ \A k \in Sessions : \A i \in 1..Len(out'[k]) : Behind(out[k][i])'
      BY <1>0, <2>1 DEF Start, OrderInv, NothingTwice, Behind, Done, Base
    <3> QED
      BY <3>1, <3>2 DEF OrderInv
  <2>2. CASE HttpRespond
    BY <1>0, <1>9, <2>2 DEF HttpRespond, StageInv
  <2>3. CASE HttpClose BY <1>8, <2>3 DEF HttpClose
  <2>4. CASE SetOrigin BY <1>8, <2>4 DEF SetOrigin
  <2>5. ASSUME NEW o \in Origins, Upgrade(o) PROVE OrderInv'
    <3>1. Switching # Response
      BY DEF Switching, Response, Plain, Unit
    <3> QED
      BY <1>0, <1>9, <2>5, <3>1 DEF Upgrade, StageInv
  <2>6. CASE WorkerSends BY <1>7, <2>6 DEF WorkerSends
  <2>7. CASE Goodbye BY <1>7, <2>7 DEF Goodbye
  <2>8. CASE LeaveWebSocket BY <1>8, <2>8 DEF LeaveWebSocket
  <2>9. CASE CloseSocket BY <1>8, <2>9 DEF CloseSocket
  <2>10. CASE Closed BY <1>8, <2>10 DEF Closed
  <2>11. CASE CheckOpen(Worker) \/ SendPart(Worker) \/ SendFails(Worker)
    <3>1. session \in Sessions
      BY <1>0, <2>11, SendStep DEF CallInv
    <3> QED
      BY <1>6, <2>11, <3>1
  <2> QED
    BY <1>10, <2>1, <2>2, <2>3, <2>4, <2>5, <2>6, <2>7, <2>8, <2>9, <2>10, <2>11
    DEF WorkerStep
<1>11. ASSUME NEW a \in Apps, AppStep(a) PROVE OrderInv'
  <2>1. ASSUME NEW o \in Origins, Broadcast(a, o) PROVE OrderInv'
    BY <1>7, <2>1 DEF Broadcast
  <2>2. CASE CompareOrigin(a)
    <3>1. \A u \in Units : Behind(u) => Behind(u)'
      BY <1>0, <2>2, StaysBehind DEF CompareOrigin, TypeOK
    <3> QED
      BY <1>4, <2>2, <3>1 DEF CompareOrigin
  <2>3. CASE CheckOpen(a) \/ SendPart(a) \/ SendFails(a)
    <3>1. session \in Sessions
      BY <1>0, <2>3, SendStep DEF CallInv
    <3> QED
      BY <1>6, <2>3, <3>1
  <2> QED
    BY <1>11, <2>1, <2>2, <2>3 DEF AppStep
<1>12. CASE UNCHANGED vars
  BY <1>8, <1>12 DEF vars
<1> QED
  BY <1>10, <1>11, <1>12 DEF Next

-----------------------------------------------------------------------------
(* Frames of quiet calls.                                                  *)

\* What was sent stays where it is, and the path of a websocket too.
LEMMA Stays ==
  ASSUME IInv, [Next]_vars
  PROVE  /\ \A k \in Sessions :
              /\ Len(out[k]) <= Len(out'[k])
              /\ \A i \in 1..Len(out[k]) : out'[k][i] = out[k][i]
         /\ \A k \in Sessions : url[k] \in Origins => url'[k] = url[k]
<1>0. TypeOK /\ StageInv /\ FutureInv /\ CallInv
  BY DEF IInv
<1> DEFINE Grown == \A k \in Sessions :
                      /\ Len(out[k]) <= Len(out'[k])
                      /\ \A i \in 1..Len(out[k]) : out'[k][i] = out[k][i]
           Kept == \A k \in Sessions : url[k] \in Origins => url'[k] = url[k]
<1> USE ThreadsAre DEF objVars
<1>1. \A k \in Sessions : Len(out[k]) \in Nat
  BY <1>0, LenProperties DEF TypeOK
<1>2. ASSUME out' = out PROVE Grown
  BY <1>1, <1>2
<1>3. ASSUME NEW t \in Threads, CheckOpen(t) \/ SendPart(t) \/ SendFails(t)
      PROVE  Grown /\ Kept
  <2>1. session \in Sessions /\ UNCHANGED objVars
    BY <1>0, <1>3, SendStep DEF CallInv
  <2>2. CASE SendPart(t)
    <3>1. PICK n \in Nat \ {0} :
            /\ Len(out'[session]) = Len(out[session]) + n
            /\ \A i \in 1..Len(out[session]) : out'[session][i] = out[session][i]
            /\ \A k \in Sessions : k # session => out'[k] = out[k]
      BY <1>0, <2>1, <2>2, SendDone
    <3>2. ASSUME NEW k \in Sessions
          PROVE  /\ Len(out[k]) <= Len(out'[k])
                 /\ \A i \in 1..Len(out[k]) : out'[k][i] = out[k][i]
      BY <1>1, <3>1
    <3> QED
      BY <2>1, <3>2
  <2> QED
    BY <1>0, <1>2, <1>3, <2>1, <2>2, SendDone
<1>4. ASSUME NEW u \in Units, session \in Sessions,
             out' = [out EXCEPT ![session] = Append(@, u)]
      PROVE  Grown
  <2>1. /\ Len(out'[session]) = Len(out[session]) + 1
        /\ \A i \in 1..Len(out[session]) : out'[session][i] = out[session][i]
        /\ \A k \in Sessions : k # session => out'[k] = out[k]
    BY <1>0, <1>4, PlainSent
  <2>2. ASSUME NEW k \in Sessions
        PROVE  /\ Len(out[k]) <= Len(out'[k])
               /\ \A i \in 1..Len(out[k]) : out'[k][i] = out[k][i]
    BY <1>1, <2>1
  <2> QED
    BY <2>2
<1> HIDE DEF Grown
<1>5. ASSUME WorkerStep PROVE Grown /\ Kept
  <2>1. CASE HttpRespond
    BY <1>0, <1>4, <2>1, PlainTypes DEF HttpRespond, StageInv
  <2>2. ASSUME NEW o \in Origins, Upgrade(o) PROVE Grown /\ Kept
    <3>1. Grown
      BY <1>0, <1>4, <2>2, PlainTypes DEF Upgrade, StageInv
    <3>2. Kept
      BY <1>0, <2>2, OriginAssumption DEF Upgrade, FutureInv, TypeOK
    <3> QED
      BY <3>1, <3>2
  <2> QED
    BY <1>2, <1>3, <1>5, <2>1, <2>2
    DEF WorkerStep, Start, HttpClose, SetOrigin, WorkerSends, Goodbye,
        LeaveWebSocket, CloseSocket, Closed
<1>6. ASSUME NEW a \in Apps, AppStep(a) PROVE Grown /\ Kept
  BY <1>2, <1>3, <1>6 DEF AppStep, Broadcast, CompareOrigin
<1>7. CASE UNCHANGED vars
  BY <1>2, <1>7 DEF vars
<1> QED
  BY <1>5, <1>6, <1>7 DEF Next, Grown

\* A frame that stands on a websocket goes on doing so.
LEMMA ReachesStays ==
  ASSUME IInv, [Next]_vars, NEW f \in AllFrames, f.to \in Origins, Reaches(f)
  PROVE  Reaches(f)'
<1>1. PICK k \in Sessions : url[k] = f.to /\ StandsOn(f, k)
  BY DEF Reaches
<1>2. out[k] \in Seq(Units) /\ out'[k] \in Seq(Units)
  BY TypeStep DEF IInv, TypeOK
<1>3. Len(out[k]) \in Nat /\ Len(out'[k]) \in Nat /\ FrameLen(f) \in Nat
  BY <1>2, LenProperties, LengthAssumption DEF FrameLen, AllFrames, Lengths
<1>4. PICK p \in 0..(Len(out[k]) - FrameLen(f)) :
        \A i \in 1..FrameLen(f) : out[k][p + i] = Unit(f, i)
  BY <1>1 DEF StandsOn
<1>5. Len(out[k]) <= Len(out'[k]) /\ \A i \in 1..Len(out[k]) : out'[k][i] = out[k][i]
  BY Stays
<1>6. p \in 0..(Len(out'[k]) - FrameLen(f))
  BY <1>3, <1>4, <1>5
<1>7. ASSUME NEW i \in 1..FrameLen(f) PROVE out'[k][p + i] = Unit(f, i)
  <2>1. p + i \in 1..Len(out[k])
    BY <1>3, <1>4
  <2> QED
    BY <1>4, <1>5, <2>1
<1>8. StandsOn(f, k)'
  BY <1>6, <1>7 DEF StandsOn, FrameLen, Unit
<1>9. url'[k] = f.to
  BY <1>1, Stays
<1> QED
  BY <1>8, <1>9 DEF Reaches

\* What a step of sendFrame() makes of a quiet call: it fails, or it stands
\* at the end of the connection, or it has returned and its frame stands there.
LEMMA QuietSends ==
  ASSUME IInv, NEW t \in Threads, session \in Sessions,
         CheckOpen(t) \/ SendPart(t) \/ SendFails(t)
  PROVE  /\ t \in quiet /\ call'[t].at # "none" =>
              /\ call'[t].at \in {"header", "payload"}
              /\ stage \in {"ws", "goodbye"} /\ call'[t].to = url[session]
              /\ call'[t].ok => EndsWith(t)'
         /\ \A f \in returned'.quiet :
              \/ f \in returned.quiet
              \/ f = Frame(t) /\ f.to \in Origins /\ Reaches(f)'
<1>0. TypeOK /\ StageInv /\ QuietInv
  BY DEF IInv
<1>1. /\ UNCHANGED <<objVars, stage, count>>
      /\ call[t].at \in {"check", "header", "payload"}
      /\ \/ call'[t] = NoCall
         \/ /\ call'[t].at \in {"header", "payload"}
            /\ call'[t].to = call[t].to /\ call'[t].len = call[t].len
  BY <1>0, SendStep
<1>2. NoCall.at = "none"
  BY DEF NoCall, NewCall
<1>3. t \in quiet =>
        /\ stage \in {"ws", "goodbye"} /\ call[t].to = url[session]
        /\ call[t].at \in {"header", "payload"} /\ call[t].ok => EndsWith(t)
  BY <1>0, <1>1 DEF QuietInv
<1>4. stage \in {"ws", "goodbye"} => url[session] \in Origins
  BY <1>0 DEF StageInv
<1>5. call[t] \in CallRecords /\ call \in [Threads -> Calls]
  BY <1>0, CallTypes DEF TypeOK
<1>6. CASE CheckOpen(t)
  <2>1. /\ call'[t] = NoCall \/ (call'[t].at = "header" /\ call'[t].sent = call[t].sent)
        /\ returned' = returned /\ out' = out /\ call[t].at = "check"
    BY <1>5, <1>6 DEF CheckOpen, CallRecords
  <2>2. call[t].sent = 0
    <3>1. call[t].sent <= PartLen(call[t]) /\ call[t].sent \in Nat
      BY <1>0, CallTypes
    <3>2. PartLen(call[t]) = 0
      BY <2>1 DEF PartLen
    <3> QED
      BY <3>1, <3>2
  <2>3. call'[t].at # "none" => Done(t)' = 0
    BY <1>2, <2>1, <2>2 DEF Done, Base
  <2>4. Len(out'[session']) \in Nat
    BY <1>0, <1>1, <2>1, LenProperties DEF TypeOK, objVars
  <2>5. call'[t].at # "none" => EndsWith(t)'
    BY <2>3, <2>4 DEF EndsWith
  <2> QED
    BY <1>1, <1>2, <1>3, <2>1, <2>5
<1>7. CASE SendFails(t)
  <2>1. returned' = returned /\ (call'[t] = NoCall \/ ~call'[t].ok)
    <3>1. AfterSend(t, FALSE)
      BY <1>7 DEF SendFails
    <3>2. [call[t] EXCEPT !.at = "payload", !.sent = 0, !.ok = FALSE].ok = FALSE
      BY <1>5 DEF CallRecords
    <3> QED
      BY <1>0, <3>1, <3>2, AfterSendTypes
  <2> QED
    BY <1>1, <1>2, <1>3, <2>1
<1>8. CASE SendPart(t)
  <2>1. PICK n \in Nat \ {0} :
          /\ Len(out'[session]) = Len(out[session]) + n
          /\ \A i \in 1..Len(out[session]) : out'[session][i] = out[session][i]
          /\ \A i \in 1..n : out'[session][Len(out[session]) + i]
                               = Unit(Frame(t), Done(t) + i)
          /\ call'[t].at = "none" \/ Done(t)' = Done(t) + n
          /\ Returns(t, n) \/ GoesOn(t)
    BY <1>0, <1>8, SendDone
  <2>2. call[t].at \in {"header", "payload"}
    BY <1>8 DEF SendPart
  <2> DEFINE old == out[session]
             new == out'[session]
             done == Done(t)
             f == Frame(t)
  <2>3. old \in Seq(Units) /\ Len(old) \in Nat /\ done \in Nat
    BY <1>0, CallTypes, LenProperties DEF TypeOK
  <2>4. ASSUME t \in quiet, call[t].ok
        PROVE  /\ done + n <= Len(new)
               /\ \A i \in 1..(done + n) :
                    new[Len(new) - (done + n) + i] = Unit(f, i)
    <3>1. /\ done <= Len(old)
          /\ \A i \in 1..done : old[Len(old) - done + i] = Unit(f, i)
      BY <1>3, <2>2, <2>4 DEF EndsWith
    <3>2. Len(new) = Len(old) + n
      BY <2>1
    <3>3. ASSUME NEW i \in 1..(done + n)
          PROVE  new[Len(new) - (done + n) + i] = Unit(f, i)
      <4> DEFINE j == Len(new) - (done + n) + i
      <4>1. CASE i <= done
        <5>1. j = Len(old) - done + i /\ j \in 1..Len(old) /\ i \in 1..done
          BY <2>3, <3>1, <3>2, <4>1
        <5>2. new[j] = old[j]
          BY <2>1, <5>1
        <5> QED
          BY <3>1, <5>1, <5>2
      <4>2. CASE i > done
        <5> DEFINE m == i - done
        <5>1. m \in 1..n /\ j = Len(old) + m /\ i = done + m
          BY <2>3, <3>2, <4>2
        <5>2. new[Len(old) + m] = Unit(f, done + m)
          BY <2>1, <5>1
        <5> HIDE DEF m, j
        <5>3. new[j] = Unit(f, i)
          BY <5>1, <5>2
        <5> QED
          BY <5>3 DEF j
      <4> QED
        BY <2>3, <4>1, <4>2
    <3> QED
      BY <2>3, <3>1, <3>2, <3>3
  <2>5. CASE GoesOn(t)
    <3>1. f' = f /\ done' = done + n /\ session' = session
      BY <1>1, <2>1, <2>5 DEF GoesOn, Frame, objVars
    <3>2. t \in quiet /\ call[t].ok => EndsWith(t)'
      <4> HIDE DEF f, done
      <4>1. EndsWith(t)' <=>
              /\ done' <= Len(out'[session'])
              /\ \A i \in 1..done' : out'[session'][Len(out'[session']) - done' + i]
                                       = Unit(f', i)
        BY DEF EndsWith, f, done, Unit
      <4> QED
        BY <2>4, <3>1, <4>1
    <3> QED
      BY <1>1, <1>2, <1>3, <2>5, <3>2 DEF GoesOn
  <2>6. CASE Returns(t, n)
    <3>1. /\ call'[t].at = "none" /\ done + n = FrameLen(f)
          /\ returned'.quiet = IF t \in quiet /\ call[t].ok
                                 THEN returned.quiet \cup {f}
                                 ELSE returned.quiet
      BY <2>6 DEF Returns
    <3>2. ASSUME t \in quiet, call[t].ok
          PROVE  f.to \in Origins /\ \E k \in Sessions :
                   /\ url'[k] = f.to
                   /\ \E p \in 0..(Len(out'[k]) - FrameLen(f)) :
                        \A i \in 1..FrameLen(f) : out'[k][p + i] = Unit(f, i)
      <4>1. f.to = url[session] /\ f.to \in Origins /\ url' = url
        BY <1>1, <1>3, <1>4, <3>2 DEF Frame, objVars
      <4>2. Len(new) = Len(old) + n
        BY <2>1
      <4> DEFINE p == Len(new) - FrameLen(f)
      <4>3. p \in 0..(Len(new) - FrameLen(f))
        BY <2>3, <2>4, <3>1, <3>2, <4>2
      <4>4. \A i \in 1..FrameLen(f) : new[p + i] = Unit(f, i)
        BY <2>4, <3>1, <3>2
      <4> HIDE DEF p, f
      <4> QED
        BY <4>1, <4>3, <4>4
    <3>3. PICK g : g = f
      OBVIOUS
    <3>4. t \in quiet /\ call[t].ok => g.to \in Origins /\ Reaches(g)'
      <4> HIDE DEF f
      <4> QED
        BY <3>2, <3>3 DEF Reaches, StandsOn, FrameLen, Unit
    <3>5. \A x \in returned'.quiet :
            x \in returned.quiet \/ (x = g /\ t \in quiet /\ call[t].ok)
      BY <3>1, <3>3
    <3>6. \A x \in returned'.quiet :
              \/ x \in returned.quiet
              \/ x = Frame(t) /\ x.to \in Origins /\ Reaches(x)'
      BY <3>3, <3>4, <3>5
    <3> QED
      BY <3>1, <3>6
  <2> QED
    BY <2>1, <2>5, <2>6
<1> QED
  BY <1>6, <1>7, <1>8

\* Every step keeps what is said of quiet calls, and of the frames they sent.
LEMMA QuietStep == IInv /\ [Next]_vars => (QuietInv /\ ReturnedInv)'
<1> SUFFICES ASSUME IInv, [Next]_vars PROVE (QuietInv /\ ReturnedInv)'
  OBVIOUS
<1>0. TypeOK /\ StageInv /\ CallInv /\ QuietInv /\ ReturnedInv
  BY DEF IInv
<1> USE ThreadsAre DEF objVars
<1>1. ASSUME NEW f \in returned.quiet
      PROVE  f.to \in Origins /\ Reaches(f)'
  <2>1. f \in AllFrames /\ f.to \in Origins /\ Reaches(f)
    BY <1>0 DEF ReturnedInv, QuietFrameReaches, TypeOK
  <2> QED
    BY <2>1, ReachesStays
<1>2. ASSUME \A f \in returned'.quiet :
               f \in returned.quiet \/ (f.to \in Origins /\ Reaches(f)')
      PROVE  ReturnedInv'
  BY <1>1, <1>2 DEF ReturnedInv, QuietFrameReaches
<1>3. ASSUME NEW t, quiet' \subseteq {t},
             t \in quiet' /\ call'[t].at # "none" =>
               /\ stage' \in {"ws", "goodbye"}
               /\ call'[t].at # "asked" => call'[t].to = url'[session']
               /\ call'[t].at \in {"header", "payload"} /\ call'[t].ok =>
                    EndsWith(t)'
      PROVE  QuietInv'
  <2> SUFFICES ASSUME NEW x \in quiet', call'[x].at # "none"
               PROVE  /\ stage' \in {"ws", "goodbye"}
                      /\ call'[x].at # "asked" => call'[x].to = url'[session']
                      /\ call'[x].at \in {"header", "payload"} /\ call'[x].ok =>
                           EndsWith(x)'
    BY DEF QuietInv
  <2> x = t
    BY <1>3
  <2> QED
    BY <1>3
<1>4. ASSUME NEW t \in Threads, Disturb(t)
      PROVE  /\ quiet' \subseteq {t}
             /\ count' = count => quiet' \subseteq quiet
             /\ count'[t] # count[t] /\ t \in quiet' => stage # "origin"
  BY <1>4 DEF Disturb
<1>5. ASSUME NEW t \in Threads, Disturb(t),
             CheckOpen(t) \/ SendPart(t) \/ SendFails(t)
      PROVE  (QuietInv /\ ReturnedInv)'
  <2>1. UNCHANGED <<objVars, stage, count>> /\ session \in Sessions
    BY <1>0, <1>5, SendStep DEF CallInv
  <2>2. /\ t \in quiet /\ call'[t].at # "none" =>
              /\ call'[t].at \in {"header", "payload"}
              /\ stage \in {"ws", "goodbye"} /\ call'[t].to = url[session]
              /\ call'[t].ok => EndsWith(t)'
        /\ \A f \in returned'.quiet :
              f \in returned.quiet \/ (f.to \in Origins /\ Reaches(f)')
    BY <1>5, <2>1, QuietSends
  <2>3. quiet' \subseteq {t} /\ quiet' \subseteq quiet
    BY <1>4, <1>5, <2>1
  <2>4. QuietInv'
    BY <1>3, <2>1, <2>2, <2>3
  <2> QED
    BY <1>2, <2>2, <2>4
<1>6. \A at, to, len : NewCall(at, to, len).at = at /\ NewCall(at, to, len).to = to
  BY DEF NewCall
<1>7. ASSUME NEW t \in Threads, Disturb(t), call[t].at = "none",
             UNCHANGED <<call, count, returned>>
      PROVE  (QuietInv /\ ReturnedInv)'
  BY <1>2, <1>3, <1>4, <1>7
<1>8. ASSUME NEW t \in Threads, Disturb(t), NEW at \in {"asked", "check"},
             NEW to, NEW len, call' = [call EXCEPT ![t] = NewCall(at, to, len)],
             count' = [count EXCEPT ![t] = @ + 1],
             UNCHANGED <<objVars, returned>>,
             stage # "origin" => stage' \in {"ws", "goodbye"},
             at = "check" => to = url[session]
      PROVE  (QuietInv /\ ReturnedInv)'
  <2>1. call'[t] = NewCall(at, to, len) /\ count'[t] # count[t]
    <3>1. call \in [Threads -> Calls] /\ count[t] \in Nat
           /\ count \in [Threads -> 0..(MaxFrames + MaxSession)]
      BY <1>0, CallTypes DEF TypeOK
    <3> QED
      BY <1>8, <3>1
  <2>2. call'[t].at = at /\ call'[t].to = to
    BY <1>6, <2>1
  <2> QED
    BY <1>2, <1>3, <1>4, <1>8, <2>1, <2>2
<1>9. ASSUME WorkerStep, Disturb(Worker) PROVE (QuietInv /\ ReturnedInv)'
  <2>0. stage \notin {"ws", "goodbye"} => call[Worker].at = "none"
    BY <1>0 DEF CallInv
  <2>1. CASE Start BY <1>7, <1>9, <2>0, <2>1 DEF Start
  <2>2. CASE HttpRespond BY <1>7, <1>9, <2>0, <2>2 DEF HttpRespond
  <2>3. CASE HttpClose BY <1>7, <1>9, <2>0, <2>3 DEF HttpClose
  <2>4. CASE SetOrigin BY <1>7, <1>9, <2>0, <2>4 DEF SetOrigin
  <2>5. ASSUME NEW o \in Origins, Upgrade(o) PROVE (QuietInv /\ ReturnedInv)'
    BY <1>7, <1>9, <2>0, <2>5 DEF Upgrade
  <2>6. CASE WorkerSends BY <1>8, <1>9, <2>6 DEF WorkerSends
  <2>7. CASE Goodbye BY <1>8, <1>9, <2>7 DEF Goodbye
  <2>8. CASE LeaveWebSocket BY <1>7, <1>9, <2>8 DEF LeaveWebSocket
  <2>9. CASE CloseSocket BY <1>7, <1>9, <2>0, <2>9 DEF CloseSocket
  <2>10. CASE Closed BY <1>7, <1>9, <2>0, <2>10 DEF Closed
  <2>11. CASE CheckOpen(Worker) \/ SendPart(Worker) \/ SendFails(Worker)
    BY <1>5, <1>9, <2>11
  <2> QED
    BY <1>9, <2>1, <2>2, <2>3, <2>4, <2>5, <2>6, <2>7, <2>8, <2>9, <2>10, <2>11
    DEF WorkerStep
<1>10. ASSUME NEW a \in Apps, AppStep(a), Disturb(a)
       PROVE  (QuietInv /\ ReturnedInv)'
  <2>1. ASSUME NEW o \in Origins, Broadcast(a, o)
        PROVE  (QuietInv /\ ReturnedInv)'
    <3>1. stage # "origin" => stage \in {"ws", "goodbye"}
      BY <1>0, <2>1 DEF Broadcast, StageInv
    <3> QED
      BY <1>8, <1>10, <2>1, <3>1 DEF Broadcast
  <2>2. CASE CompareOrigin(a)
    <3>1. quiet' \subseteq {a} /\ quiet' \subseteq quiet
      BY <1>4, <1>10, <2>2 DEF CompareOrigin
    <3>2. call[a] \in CallRecords /\ call \in [Threads -> Calls]
      BY <1>0, CallTypes DEF TypeOK
    <3>3. /\ call[a].at = "asked" /\ UNCHANGED <<objVars, stage, out, count, returned>>
          /\ \/ call'[a] = NoCall
             \/ /\ wsOrigin = call[a].to
                /\ call'[a].at = "check" /\ call'[a].to = call[a].to
      BY <2>2, <3>2 DEF CompareOrigin, CallRecords
    <3>4. a \in quiet => stage \in {"ws", "goodbye"} /\ wsOrigin = url[session]
      BY <1>0, <3>3 DEF QuietInv, StageInv
    <3>5. NoCall.at = "none"
      BY DEF NoCall, NewCall
    <3>6. QuietInv'
      BY <1>3, <3>1, <3>3, <3>4, <3>5
    <3> QED
      BY <1>2, <3>3, <3>6
  <2>3. CASE CheckOpen(a) \/ SendPart(a) \/ SendFails(a)
    BY <1>5, <1>10, <2>3
  <2> QED
    BY <1>10, <2>1, <2>2, <2>3 DEF AppStep
<1>11. CASE UNCHANGED vars
  BY <1>0, <1>11 DEF vars, QuietInv, ReturnedInv, QuietFrameReaches, Reaches,
                     StandsOn, EndsWith, Done, Base, Frame
<1> QED
  BY <1>9, <1>10, <1>11 DEF Next

-----------------------------------------------------------------------------
(* Theorems.                                                               *)

\* Before the first connection there is nothing to go wrong.
LEMMA InitInv == Init => IInv
<1> SUFFICES ASSUME Init PROVE IInv
  OBVIOUS
<1> USE ThreadsAre DEF Init
<1>1. NoCall \in Calls /\ NoCall.at = "none"
  BY NoCallTypes DEF NoCall, NewCall
<1>2. \A k \in Sessions : out[k] = << >> /\ Len(out[k]) = 0
  OBVIOUS
<1>3. TypeOK
  <2>1. << >> \in Seq(Units) /\ NoOrigin \in AnyOrigin
    BY DEF AnyOrigin
  <2>2. out \in [Sessions -> Seq(Units)] /\ url \in [Sessions -> AnyOrigin]
    BY <2>1
  <2>3. call \in [Threads -> Calls] /\ count \in [Threads -> 0..(MaxFrames + MaxSession)]
    BY <1>1, BoundAssumption
  <2>4. session \in 0..MaxSession
    BY BoundAssumption
  <2>5. returned \in [all : SUBSET AllFrames, quiet : SUBSET AllFrames]
    OBVIOUS
  <2> QED
    BY <2>1, <2>2, <2>3, <2>4, <2>5 DEF TypeOK, Stages
<1>4. StageInv /\ FutureInv
  BY DEF StageInv, FutureInv
<1>5. CallInv
  BY <1>1, BoundAssumption DEF CallInv
<1>6. OrderInv
  BY <1>2 DEF OrderInv, NothingTwice
<1>7. QuietInv /\ ReturnedInv
  BY DEF QuietInv, ReturnedInv, QuietFrameReaches
<1> QED
  BY <1>3, <1>4, <1>5, <1>6, <1>7 DEF IInv

\* In every reachable state the stages of receiveData(), what each thread's
\* call has behind it and what the connections carry agree with each other
\* (ClientConnection.cpp:93-176, 239-253, 444-490).
THEOREM Invariance == Spec => []IInv
<1>1. IInv /\ [Next]_vars => IInv'
  BY TypeStep, StageStep, OrderStep, QuietStep DEF IInv
<1> QED
  BY InitInv, <1>1, PTL DEF Spec

\* Variables keep their types; no call is ever behind the end of its header
\* or payload.
THEOREM TypeCorrect == Spec => []TypeOK
<1>1. IInv => TypeOK
  BY DEF IInv
<1> QED
  BY Invariance, <1>1, PTL

\* A frame for which sendFrame() returned true, with nobody else touching
\* the connection meanwhile, stands in one piece on a websocket of its
\* origin, whatever the parts were in which send() sent it, and stays there.
THEOREM QuietFramesReach == Spec => []QuietFrameReaches
<1>1. IInv => QuietFrameReaches
  BY DEF IInv, ReturnedInv
<1> QED
  BY Invariance, <1>1, PTL

\* For any number of threads that call sendFrame() at once, no unit of a
\* thread is sent twice or out of order on a connection: the loop of send()
\* goes on where it stopped, and a connection's successor starts empty.
THEOREM NothingIsSentTwice == Spec => []NothingTwice
<1>1. IInv => NothingTwice
  BY DEF IInv, OrderInv
<1> QED
  BY Invariance, <1>1, PTL

\* The worker sends frames only while it holds an open websocket: its own
\* close() comes after the close frame.
THEOREM WorkerHolds == Spec => []WorkerHoldsItsSocket
<1>1. IInv => WorkerHoldsItsSocket
  BY DEF IInv, StageInv, CallInv, WorkerHoldsItsSocket
<1> QED
  BY Invariance, <1>1, PTL
=============================================================================
