------------------------- MODULE HttpFrontendProofs -------------------------
(***************************************************************************)
(* The pre-read of the HTTP port keeps every byte and sends every visitor  *)
(* where its Host header says, for every set of hostnames, limit on the    *)
(* head, size of the chunks and length of the request.                     *)
(***************************************************************************)
EXTENDS HttpFrontend, SequenceTheorems, TLAPS

Bytes == 0..VisitorBytes

-----------------------------------------------------------------------------
(***************************************************************************)
(* The inductive invariant.  Only a connection that is not settled reads   *)
(* on, and it has not outgrown the limit yet.                              *)
(***************************************************************************)
Types ==
    /\ request \in [headEnd : HeadEnds, host : Hosts]
    /\ said \in 0..VisitorBytes
    /\ sock \in Socket(Bytes)
    /\ head \in Seq(1..VisitorBytes)
    /\ settled \in BOOLEAN
    /\ timer \in BOOLEAN
    /\ outcome \in Refusals \cup {"none", "opened"}
    /\ session \in Sessions \cup {NoSession}
    /\ routes \in [Labels -> Sessions \cup {NoSession}]

Within == /\ Len(head) <= MaxHttpHead + MaxChunk
          /\ ~settled => Len(head) <= MaxHttpHead

\* What is in the socket came from the visitor: an answer never gets there.
Arrived == sock.inq \in Seq(1..VisitorBytes)

IInv == Types /\ Within /\ Arrived /\ NothingLost

\* A connection with an answer or a session is settled and has no timer, and
\* its socket ends or fails only for the visitor's reasons.
Handed ==
    /\ outcome # "none" => settled /\ ~timer
    /\ sock.readEnded => sock.fin
    /\ sock.error => sock.destroyed

-----------------------------------------------------------------------------
(***************************************************************************)
(* What the socket's operations keep.                                      *)
(***************************************************************************)
LEMMA SocketTypes ==
  ASSUME NEW s \in Socket(Bytes)
  PROVE  /\ Pause(s) \in Socket(Bytes) /\ Resume(s) \in Socket(Bytes)
         /\ EndWrite(s) \in Socket(Bytes) /\ EmitEnd(s) \in Socket(Bytes)
         /\ DestroySocket(s) \in Socket(Bytes) /\ Fail(s) \in Socket(Bytes)
         /\ [s EXCEPT !.error = FALSE] \in Socket(Bytes)
         /\ [s EXCEPT !.fin = TRUE] \in Socket(Bytes)
<1>1. <<>> \in Seq(Bytes)
  OBVIOUS
<1>2. Pause(s) \in Socket(Bytes) /\ Resume(s) \in Socket(Bytes)
  BY DEF Socket, Pause, Resume
<1>3. EndWrite(s) \in Socket(Bytes) /\ EmitEnd(s) \in Socket(Bytes)
  BY DEF Socket, EndWrite, EmitEnd
<1>4. DestroySocket(s) \in Socket(Bytes)
  BY <1>1 DEF Socket, DestroySocket
<1>5. /\ \A x \in Socket(Bytes) : [x EXCEPT !.error = TRUE] \in Socket(Bytes)
      /\ [s EXCEPT !.error = FALSE] \in Socket(Bytes)
      /\ [s EXCEPT !.fin = TRUE] \in Socket(Bytes)
  BY DEF Socket
<1>6. Fail(s) \in Socket(Bytes)
  BY <1>4, <1>5 DEF Fail
<1>7. QED
  BY <1>2, <1>3, <1>4, <1>5, <1>6

LEMMA WriteTypes ==
  ASSUME NEW s \in Socket(Bytes), NEW bytes \in Seq(Bytes)
  PROVE  Write(s, bytes) \in Socket(Bytes)
<1> DEFINE out == s.out \o bytes
<1>1. s.out \in Seq(Bytes)
  BY DEF Socket
<1>2. out \in Seq(Bytes)
  BY <1>1
<1> HIDE DEF out
<1>3. [s EXCEPT !.out = out] \in Socket(Bytes)
  BY <1>2 DEF Socket
<1>4. \A d \in BOOLEAN : [s EXCEPT !.out = out, !.needDrain = d] \in Socket(Bytes)
  BY <1>2 DEF Socket
<1>5. (s.needDrain \/ Len(out) >= HighWater) \in BOOLEAN
  BY Zenon
<1>6. [s EXCEPT !.out = out, !.needDrain = @ \/ Len(out) >= HighWater] \in Socket(Bytes)
  BY <1>4, <1>5, Zenon
<1>7. QED
  BY <1>6, SocketTypes, Zenon DEF Write, out

LEMMA RespondTypes ==
  ASSUME NEW s \in Socket(Bytes)
  PROVE  Respond(s) \in Socket(Bytes)
<1>1. <<AnswerByte>> \in Seq(Bytes)
  BY FrontendAssumption DEF FrontendAssumption, AnswerByte, Bytes
<1>2. QED
  BY <1>1, WriteTypes, SocketTypes DEF Respond

\* An answer leaves what was read and what was not as it is, or the socket is
\* gone.
LEMMA RespondKeeps ==
  ASSUME NEW s \in Socket(Bytes)
  PROVE  \/ Respond(s).inq = s.inq /\ Respond(s).destroyed = s.destroyed
         \/ Respond(s).inq = <<>> /\ Respond(s).destroyed
  BY DEF Respond, EndWrite, Write, Fail, DestroySocket, Socket

LEMMA Regrouped ==
  \A S : \A x, y, z, yz \in Seq(S) : yz = y \o z => (x \o y) \o z = x \o yz
<1> SUFFICES ASSUME NEW S, NEW x \in Seq(S), NEW y \in Seq(S), NEW z \in Seq(S)
             PROVE  (x \o y) \o z = x \o (y \o z)
  OBVIOUS
<1> QED
  BY ConcatAssociative

\* Taking the first bytes of the socket's and keeping them after the others
\* changes nothing of the whole.
LEMMA TakenIsKept ==
  ASSUME Types, Arrived, NEW k \in Nat, k <= Len(sock.inq)
  PROVE  /\ TakeData(sock, k) \in Socket(Bytes)
         /\ TakeData(sock, k).inq \in Seq(1..VisitorBytes)
         /\ TakeData(sock, k).destroyed = sock.destroyed
         /\ Kept(k) \in Seq(1..VisitorBytes)
         /\ Len(Kept(k)) = Len(head) + k
         /\ Kept(k) \o TakeData(sock, k).inq = head \o sock.inq
<1> DEFINE q == sock.inq
           a == SubSeq(q, 1, k)
           b == SubSeq(q, k + 1, Len(q))
           S == 1..VisitorBytes
<1>1. q \in Seq(S) /\ head \in Seq(S) /\ Len(q) \in Nat /\ k <= Len(q)
  BY DEF Types, Arrived
<1> HIDE DEF S
<1>2. a \in Seq(S) /\ Len(a) = k
  BY <1>1
<1>3. b \in Seq(S)
  BY <1>1
<1>4. TakeData(sock, k) = [sock EXCEPT !.inq = b]
  BY DEF TakeData
<1>5. b \in Seq(Bytes)
  BY <1>1, <1>3 DEF Bytes, S
<1>6. Kept(k) = head \o a
  BY DEF Kept
<1>7. a \o b = q
  <2>1. 1 \in 1..(Len(q) + 1) /\ k \in (1 - 1)..Len(q) /\ Len(q) \in k..Len(q)
    BY <1>1
  <2>2. a \o b = SubSeq(q, 1, Len(q))
    BY <1>1, <2>1, ConcatAdjacentSubSeq
  <2>3. SubSeq(q, 1, Len(q)) = q
    BY <1>1
  <2>4. QED
    BY <2>2, <2>3
<1> HIDE DEF a, b
<1>8. /\ TakeData(sock, k) \in Socket(Bytes)
      /\ TakeData(sock, k).inq = b
      /\ TakeData(sock, k).destroyed = sock.destroyed
  BY <1>4, <1>5 DEF Types, Socket
<1> HIDE DEF q
<1>9. head \o a \in Seq(S) /\ Len(head \o a) = Len(head) + k
  BY <1>1, <1>2, ConcatProperties
<1>10. (head \o a) \o b = head \o q
  <2>1. head \in Seq(S) /\ a \in Seq(S) /\ b \in Seq(S) /\ q \in Seq(S) /\ q = a \o b
    BY <1>1, <1>2, <1>3, <1>7
  <2>2. QED
    BY ONLY <2>1, Regrouped, SMT
<1>11. QED
  BY <1>3, <1>6, <1>8, <1>9, <1>10 DEF q, S

-----------------------------------------------------------------------------
(***************************************************************************)
(* Where a Host header leads.                                              *)
(***************************************************************************)
LEMMA VerdictIsRight ==
  ASSUME Types, NEW host \in Hosts
  PROVE  /\ Verdict(host) \in {"400", "404", "502", "opened"}
         /\ Verdict(host) = "400" => host = NoHost
         /\ Verdict(host) = "404" => host.place # "under"
         /\ Verdict(host) = "502" => /\ host.place = "under"
                                     /\ routes[host.label] = NoSession
         /\ Verdict(host) = "opened" => /\ host.place = "under"
                                        /\ routes[host.label] \in Sessions
                                        /\ routes[host.label] # NoSession
<1>1. CASE host = NoHost
  BY <1>1 DEF Verdict
<1>2. CASE host # NoHost
  <2> DEFINE bare == ToLowerCase(StripPort(host))
  <2>1. /\ host \in [label : {host.label}, spelled : SUBSET {"capitals", "port"},
                     place : {"under", "deeper", "elsewhere"}]
        /\ host.label \in Labels
    BY <1>2, FrontendAssumption DEF FrontendAssumption, Labels
  <2>2. /\ bare.label = host.label /\ bare.place = host.place
        /\ bare.spelled = {}
    BY <2>1 DEF ToLowerCase, StripPort
  <2>3. routes[host.label] \in Sessions \cup {NoSession}
    BY <2>1 DEF Types
  <2>4. EndsWithDomain(bare) <=> host.place # "elsewhere"
    BY <2>2 DEF EndsWithDomain
  <2>5. host.place \in {"under", "deeper", "elsewhere"}
    BY <2>1
  <2>6. Verdict(host) = IF ~EndsWithDomain(bare) \/ bare.place = "deeper" THEN "404"
                        ELSE IF routes[bare.label] = NoSession THEN "502"
                        ELSE "opened"
    BY <1>2 DEF Verdict
  <2> HIDE DEF bare
  <2>7. QED
    BY <1>2, <2>2, <2>3, <2>4, <2>5, <2>6
<1>3. QED
  BY <1>1, <1>2

-----------------------------------------------------------------------------
(***************************************************************************)
(* onData, for the bytes that one chunk carries.                           *)
(***************************************************************************)
LEMMA SettleStep ==
  ASSUME IInv, NEW kept \in Seq(1..VisitorBytes), Len(kept) <= MaxHttpHead + MaxChunk,
         NEW s \in Socket(Bytes), s.inq \in Seq(1..VisitorBytes),
         ~s.destroyed => kept \o s.inq = Sent,
         NEW verdict \in Refusals \cup {"opened"},
         verdict = "opened" => routes[request.host.label] \in Sessions,
         Settle(s, kept, verdict), UNCHANGED <<request, said, routes>>
  PROVE  IInv'
<1>1. CASE verdict = "opened"
  <2>1. /\ sock' = Resume(Pause(s)) /\ session' = routes[request.host.label]
        /\ settled' = TRUE /\ head' = kept /\ outcome' = verdict /\ timer' = FALSE
    BY <1>1 DEF Settle, DisarmTimer
  <2>2. sock' \in Socket(Bytes)
    BY <2>1, SocketTypes
  <2>3. sock'.inq = s.inq /\ sock'.destroyed = s.destroyed
    BY <2>1 DEF Resume, Pause, Socket
  <2>4. Types'
    BY <1>1, <2>1, <2>2 DEF IInv, Types
  <2>5. Within' /\ Arrived' /\ NothingLost'
    BY <2>1, <2>3 DEF Within, Arrived, NothingLost, Sent
  <2>6. QED
    BY <2>4, <2>5 DEF IInv
<1>2. CASE verdict # "opened"
  <2>1. /\ sock' = Respond(Pause(s)) /\ session' = session
        /\ settled' = TRUE /\ head' = kept /\ outcome' = verdict /\ timer' = FALSE
    BY <1>2 DEF Settle, DisarmTimer
  <2>2. /\ Pause(s) \in Socket(Bytes)
        /\ Pause(s).inq = s.inq /\ Pause(s).destroyed = s.destroyed
    <3>1. Pause(s) \in Socket(Bytes)
      BY SocketTypes
    <3>2. Pause(s).inq = s.inq /\ Pause(s).destroyed = s.destroyed
      BY DEF Pause, Socket
    <3>3. QED
      BY <3>1, <3>2
  <2>3. sock' \in Socket(Bytes)
    BY <2>1, <2>2, RespondTypes
  <2>4. \/ sock'.inq = s.inq /\ sock'.destroyed = s.destroyed
        \/ sock'.inq = <<>> /\ sock'.destroyed
    BY <2>1, <2>2, RespondKeeps
  <2>5. Types'
    BY <2>1, <2>3 DEF IInv, Types
  <2>6. Within' /\ Arrived'
    <3>1. <<>> \in Seq(1..VisitorBytes)
      OBVIOUS
    <3>2. Arrived'
      BY <2>4, <3>1 DEF Arrived
    <3>3. Within'
      BY <2>1 DEF Within
    <3>4. QED
      BY <3>2, <3>3
  <2>7. NothingLost'
    BY <2>1, <2>4 DEF NothingLost, Sent
  <2>8. QED
    BY <2>5, <2>6, <2>7 DEF IInv
<1>3. QED
  BY <1>1, <1>2

LEMMA DataStep ==
  ASSUME IInv, NEW k \in 1..MaxChunk, Data(k)
  PROVE  IInv'
<1> DEFINE s == TakeData(sock, k)
           kept == Kept(k)
<1>1. /\ ~settled /\ ~sock.destroyed /\ k \in Nat /\ k <= MaxChunk /\ k <= Len(sock.inq)
      /\ OnData(k) /\ UNCHANGED <<request, said, routes>>
  BY SocketAssumption DEF Data, CanEmitData, SocketAssumption
<1>2. /\ s \in Socket(Bytes) /\ s.inq \in Seq(1..VisitorBytes)
      /\ s.destroyed = sock.destroyed
      /\ kept \in Seq(1..VisitorBytes) /\ Len(kept) = Len(head) + k
      /\ kept \o s.inq = head \o sock.inq
  BY <1>1, TakenIsKept DEF IInv
<1>3. kept \o s.inq = Sent
  BY <1>1, <1>2 DEF IInv, NothingLost
<1>4. Len(head) \in Nat /\ Len(head) <= MaxHttpHead /\ Len(kept) <= MaxHttpHead + MaxChunk
  <2>1. head \in Seq(1..VisitorBytes) /\ Len(head) <= MaxHttpHead
    BY <1>1 DEF IInv, Types, Within
  <2>2. Len(head) \in Nat
    BY <2>1
  <2>3. MaxHttpHead \in Nat /\ MaxChunk \in Nat
    BY SocketAssumption, FrontendAssumption DEF SocketAssumption, FrontendAssumption
  <2> HIDE DEF kept
  <2>4. QED
    BY <1>1, <1>2, <2>1, <2>2, <2>3
<1>5. CASE HeadComplete(kept)
  <2>1. Settle(s, kept, Verdict(request.host))
    BY <1>1, <1>5 DEF OnData
  <2>2. request.host \in Hosts
    BY DEF IInv, Types
  <2>3. /\ Verdict(request.host) \in Refusals \cup {"opened"}
        /\ Verdict(request.host) = "opened" => routes[request.host.label] \in Sessions
    BY <2>2, VerdictIsRight DEF IInv, Refusals
  <2> HIDE DEF s, kept
  <2>4. QED
    BY <1>1, <1>2, <1>3, <1>4, <2>1, <2>3, SettleStep
<1>6. CASE ~HeadComplete(kept) /\ TooLong(kept)
  <2>1. Settle(s, kept, "431")
    BY <1>1, <1>6 DEF OnData
  <2>2. "431" \in Refusals \cup {"opened"} /\ "431" # "opened"
    BY DEF Refusals
  <2> HIDE DEF s, kept
  <2>3. QED
    BY <1>1, <1>2, <1>3, <1>4, <2>1, <2>2, SettleStep
<1>7. CASE ~HeadComplete(kept) /\ ~TooLong(kept)
  <2>1. /\ head' = kept /\ sock' = s /\ UNCHANGED <<settled, timer, outcome, session>>
    BY <1>1, <1>7 DEF OnData
  <2>2. Len(kept) <= MaxHttpHead
    BY <1>4, <1>7, <1>2, FrontendAssumption DEF TooLong, FrontendAssumption, IInv, Types
  <2> HIDE DEF s, kept
  <2>3. Types'
    BY <1>1, <1>2, <2>1 DEF IInv, Types
  <2>4. Within' /\ Arrived' /\ NothingLost'
    BY <1>1, <1>2, <1>3, <1>4, <2>1, <2>2 DEF Within, Arrived, NothingLost, Sent
  <2>5. QED
    BY <2>3, <2>4 DEF IInv
<1>8. QED
  BY <1>5, <1>6, <1>7

LEMMA InitIInv ==
  ASSUME Init
  PROVE  IInv
<1>1. /\ sock.inq = <<>> /\ sock \in Socket(Bytes) /\ sock.destroyed = FALSE
  <2>1. NewSocket \in Socket(Bytes)
    BY DEF NewSocket, Socket
  <2>2. sock \in Socket(Bytes)
    BY <2>1, SocketTypes DEF Init
  <2>3. QED
    BY <2>2 DEF Init, NewSocket, Resume
<1>2. said \in 0..VisitorBytes
  BY FrontendAssumption DEF Init, FrontendAssumption
<1>3. Types
  <2>1. head \in Seq(1..VisitorBytes)
    BY DEF Init
  <2>2. settled \in BOOLEAN /\ timer \in BOOLEAN
    BY Zenon DEF Init
  <2>3. outcome \in Refusals \cup {"none", "opened"} /\ session \in Sessions \cup {NoSession}
    BY DEF Init
  <2>4. /\ request \in [headEnd : HeadEnds, host : Hosts]
        /\ routes \in [Labels -> Sessions \cup {NoSession}]
    BY Zenon DEF Init
  <2>5. QED
    BY <1>1, <1>2, <2>1, <2>2, <2>3, <2>4, Zenon DEF Types
<1>4. Within /\ Arrived
  BY <1>1, FrontendAssumption, SocketAssumption
  DEF Init, Within, Arrived, FrontendAssumption, SocketAssumption
<1>5. NothingLost
  <2>1. head = <<>> /\ said = 0
    BY DEF Init
  <2>2. Sent = <<>>
    BY <2>1 DEF Sent
  <2>3. QED
    BY <1>1, <2>1, <2>2 DEF NothingLost
<1>6. QED
  BY <1>3, <1>4, <1>5 DEF IInv

\* What the timer, the tunnels, the other callbacks and the visitor do to the
\* socket, but for sending.
LEMMA SocketStep ==
  ASSUME IInv,
         sock' \in Socket(Bytes),
         \/ sock'.inq = sock.inq /\ sock'.destroyed = sock.destroyed
         \/ sock'.inq = <<>> /\ sock'.destroyed,
         settled' \in BOOLEAN, settled => settled', timer' \in BOOLEAN,
         routes' \in [Labels -> Sessions \cup {NoSession}],
         UNCHANGED <<request, said, head, outcome, session>>
  PROVE  IInv'
<1>1. Types'
  BY DEF IInv, Types
<1>2. <<>> \in Seq(1..VisitorBytes)
  OBVIOUS
<1>3. Arrived'
  BY <1>2 DEF IInv, Arrived
<1>4. Within'
  BY DEF IInv, Types, Within
<1>5. NothingLost'
  BY DEF IInv, NothingLost, Sent
<1>6. QED
  BY <1>1, <1>3, <1>4, <1>5 DEF IInv

LEMMA SendStep ==
  ASSUME IInv, VisitorSend
  PROVE  IInv'
<1> DEFINE S == 1..VisitorBytes
           n == said + 1
<1>1. /\ said \in Nat /\ said < VisitorBytes /\ ~sock.destroyed /\ said' = n
      /\ sock' = [sock EXCEPT !.inq = Append(sock.inq, n)]
      /\ UNCHANGED <<request, head, settled, timer, outcome, session, routes>>
  BY DEF IInv, Types, VisitorSend
<1>2. n \in S /\ n \in Bytes /\ n \in Nat /\ said' \in 0..VisitorBytes
  BY <1>1, FrontendAssumption DEF FrontendAssumption, Bytes
<1>3. sock \in Socket(Bytes) /\ sock.inq \in Seq(S) /\ head \in Seq(S) /\ sock.inq \in Seq(Bytes)
  BY DEF IInv, Types, Arrived, Socket
<1> HIDE DEF S, n
<1>4. Append(sock.inq, n) \in Seq(S) /\ Append(sock.inq, n) \in Seq(Bytes)
  BY <1>2, <1>3
<1>5. /\ sock' \in Socket(Bytes)
      /\ sock'.inq = Append(sock.inq, n) /\ sock'.destroyed = sock.destroyed
  BY <1>1, <1>3, <1>4 DEF Socket
<1>6. Types'
  BY <1>1, <1>2, <1>5 DEF IInv, Types
<1>7. Within' /\ Arrived'
  BY <1>1, <1>4, <1>5 DEF IInv, Within, Arrived, S
<1>8. head \o Append(sock.inq, n) = Append(head \o sock.inq, n)
  <2> DEFINE q == sock.inq
             one == <<n>>
             qn == Append(q, n)
             hq == head \o q
  <2>1. qn = q \o one /\ hq \in Seq(S)
    BY <1>2, <1>3, AppendIsConcat, ConcatProperties
  <2>2. Append(hq, n) = hq \o one
    BY <1>2, <2>1, AppendIsConcat
  <2>3. head \in Seq(S) /\ q \in Seq(S) /\ one \in Seq(S) /\ qn \in Seq(S)
    BY <1>2, <1>3, <1>4
  <2> HIDE DEF q, one, qn
  <2>4. (head \o q) \o one = head \o qn
    BY ONLY <2>1, <2>3, Regrouped, SMT
  <2>5. QED
    BY <2>2, <2>4 DEF q, qn
<1>9. Append(Sent, n) = Sent'
  <2>1. Sent = [i \in 1..said |-> i] /\ Sent' = [i \in 1..n |-> i]
    BY <1>1 DEF Sent
  <2>2. n = said + 1
    BY DEF n
  <2>3. QED
    BY <1>1, <2>1, <2>2
<1>10. NothingLost'
  BY <1>1, <1>5, <1>8, <1>9 DEF IInv, NothingLost
<1>11. QED
  BY <1>6, <1>7, <1>10 DEF IInv

LEMMA Inductive ==
  ASSUME IInv, [Next]_vars
  PROVE  IInv'
<1>1. CASE VisitorSend
  BY <1>1, SendStep
<1>2. ASSUME NEW k \in 1..MaxChunk, Data(k)
      PROVE  IInv'
  BY <1>2, DataStep
<1> DEFINE SockIs(s) == sock' = s /\ s \in Socket(Bytes)
                        /\ \/ s.inq = sock.inq /\ s.destroyed = sock.destroyed
                           \/ s.inq = <<>> /\ s.destroyed
<1>3. /\ settled \in BOOLEAN /\ timer \in BOOLEAN /\ sock \in Socket(Bytes)
      /\ routes \in [Labels -> Sessions \cup {NoSession}]
  BY DEF IInv, Types
<1>4. CASE VisitorFin
  <2>1. SockIs([sock EXCEPT !.fin = TRUE])
    <3>1. [sock EXCEPT !.fin = TRUE] \in Socket(Bytes)
      BY <1>3, SocketTypes
    <3>2. /\ [sock EXCEPT !.fin = TRUE].inq = sock.inq
          /\ [sock EXCEPT !.fin = TRUE].destroyed = sock.destroyed
      BY <1>3 DEF Socket
    <3>3. QED
      BY <1>4, <3>1, <3>2 DEF VisitorFin
  <2>2. QED
    BY <1>3, <1>4, <2>1, SocketStep DEF VisitorFin
<1>5. CASE VisitorAbort
  <2>1. SockIs(Fail(sock))
    <3>1. Fail(sock).inq = <<>> /\ Fail(sock).destroyed
      BY <1>3 DEF Fail, DestroySocket, Socket
    <3>2. QED
      BY <1>3, <1>5, <3>1, SocketTypes DEF VisitorAbort
  <2>2. QED
    BY <1>3, <1>5, <2>1, SocketStep DEF VisitorAbort
<1>6. ASSUME NEW s \in Labels, TunnelCloses(s) \/ \E a \in Sessions : TunnelOpens(s, a)
      PROVE  IInv'
  <2>1. /\ routes' \in [Labels -> Sessions \cup {NoSession}]
        /\ UNCHANGED <<request, said, sock, head, settled, timer, outcome, session>>
    BY <1>3, <1>6 DEF TunnelCloses, TunnelOpens, connVars
  <2>2. QED
    BY <1>3, <2>1, SocketStep
<1>7. CASE SocketEnd
  <2>1. SockIs(EmitEnd(sock))
    <3>1. EmitEnd(sock).inq = sock.inq /\ EmitEnd(sock).destroyed = sock.destroyed
      BY <1>3 DEF EmitEnd, Socket
    <3>2. QED
      BY <1>3, <1>7, <3>1, SocketTypes DEF SocketEnd
  <2>2. QED
    BY <1>3, <1>7, <2>1, SocketStep DEF SocketEnd
<1>8. ASSUME NEW s \in Socket(Bytes), Gone(s)
      PROVE  IInv'
  <2>1. SockIs(DestroySocket(s))
    <3>1. DestroySocket(s).inq = <<>> /\ DestroySocket(s).destroyed
      BY DEF DestroySocket, Socket
    <3>2. QED
      BY <1>8, <3>1, SocketTypes DEF Gone
  <2>2. QED
    BY <1>3, <1>8, <2>1, SocketStep DEF Gone
<1>9. CASE SocketClose \/ IdleTimeout
  BY <1>3, <1>8, <1>9 DEF SocketClose, IdleTimeout
<1>10. CASE SocketError
  BY <1>3, <1>8, <1>10, SocketTypes DEF SocketError
<1>11. CASE Flush
  <2>1. SockIs(FlushByte(sock))
    <3>1. /\ sock.out \in Seq(Bytes) /\ sock.out # <<>> /\ sock.got \in Seq(Bytes)
      BY <1>3, <1>11 DEF Flush, CanFlush, Socket
    <3>2. Head(sock.out) \in Bytes /\ Tail(sock.out) \in Seq(Bytes)
      BY <3>1, HeadTailProperties
    <3>3. Append(sock.got, Head(sock.out)) \in Seq(Bytes)
      BY <3>1, <3>2
    <3>4. FlushByte(sock) \in Socket(Bytes)
      BY <1>3, <3>2, <3>3 DEF FlushByte, Socket
    <3>5. FlushByte(sock).inq = sock.inq /\ FlushByte(sock).destroyed = sock.destroyed
      BY <1>3 DEF FlushByte, Socket
    <3>6. QED
      BY <1>11, <3>4, <3>5 DEF Flush
  <2>2. QED
    BY <1>3, <1>11, <2>1, SocketStep DEF Flush
<1>12. CASE UNCHANGED vars
  BY <1>3, <1>12, SocketStep DEF vars
<1>13. QED
  BY <1>1, <1>2, <1>4, <1>5, <1>6, <1>7, <1>9, <1>10, <1>11, <1>12 DEF Next, Callback

LEMMA Invariant == Spec => []IInv
<1>1. Init => IInv
  BY InitIInv
<1>2. IInv /\ [Next]_vars => IInv'
  BY Inductive
<1>3. QED
  BY <1>1, <1>2, PTL DEF Spec

\* Every state has its types, and the head that is kept stays below the limit
\* and a chunk.
THEOREM TypeCorrect == Spec => []TypeOK
<1>1. IInv => TypeOK
  BY DEF IInv, Types, Within, TypeOK, Bytes
<1>2. QED
  BY <1>1, Invariant, PTL

\* Between the head onData keeps and the paused socket no byte is lost, however
\* the network cuts the request and whatever the tunnels do meanwhile.
THEOREM NothingIsLost == Spec => []NothingLost
<1>1. IInv => NothingLost
  BY DEF IInv
<1>2. QED
  BY <1>1, Invariant, PTL

\* Every answer is right at the moment it is given, and so is every hand-over.
THEOREM RoutesByHost == Spec => RoutedByHost
<1> DEFINE Right ==
      outcome = "none" /\ outcome' # "none" =>
         LET host == request.host
         IN  CASE outcome' = "400" -> host = NoHost
               [] outcome' = "404" -> host.place # "under"
               [] outcome' = "502" -> host.place = "under"
                                      /\ routes[host.label] = NoSession
               [] outcome' = "opened" -> /\ host.place = "under"
                                         /\ session' # NoSession
                                         /\ session' = routes[host.label]
               [] outcome' = "431" -> request.headEnd \notin 1..MaxHttpHead
<1>1. ASSUME IInv, Next, outcome = "none", outcome' # "none"
      PROVE  Right
  <2>1. PICK k \in 1..MaxChunk : Data(k)
    BY <1>1 DEF Next, Callback, VisitorSend, VisitorFin, VisitorAbort, TunnelOpens,
                TunnelCloses, connVars, SocketEnd, SocketClose, SocketError,
                IdleTimeout, Gone, Flush
  <2>2. request.host \in Hosts /\ request.headEnd \in Nat
    BY <1>1, FrontendAssumption DEF IInv, Types, FrontendAssumption
  <2>3. CASE HeadComplete(Kept(k))
    <3>1. /\ outcome' = Verdict(request.host)
          /\ Verdict(request.host) = "opened" => session' = routes[request.host.label]
      BY <2>1, <2>3 DEF Data, OnData, Settle
    <3>2. Types
      BY <1>1 DEF IInv
    <3>3. QED
      BY <2>2, <3>1, <3>2, VerdictIsRight
  <2>4. CASE ~HeadComplete(Kept(k))
    <3>1. TooLong(Kept(k)) /\ outcome' = "431"
      BY <1>1, <2>1, <2>4 DEF Data, OnData, Settle
    <3>2. k \in Nat /\ k <= Len(sock.inq)
      BY <2>1, SocketAssumption DEF Data, CanEmitData, SocketAssumption
    <3>3. Len(Kept(k)) \in Nat
      BY <1>1, <3>2, TakenIsKept DEF IInv
    <3>4. request.headEnd \notin 1..MaxHttpHead
      BY <2>2, <2>4, <3>1, <3>3, FrontendAssumption
      DEF HeadComplete, TooLong, FrontendAssumption
    <3>5. QED
      BY <3>1, <3>4
  <2>5. QED
    BY <2>3, <2>4
<1>2. ASSUME IInv, [Next]_vars
      PROVE  [Right]_vars
  BY <1>1, <1>2
<1>3. QED
  BY <1>2, Invariant, PTL DEF Spec, RoutedByHost

LEMMA HandedStep ==
  ASSUME Types, Handed, [Next]_vars
  PROVE  Handed'
<1>1. sock \in Socket(Bytes) /\ settled \in BOOLEAN /\ timer \in BOOLEAN
  BY DEF Types
<1>2. ASSUME NEW k \in 1..MaxChunk, Data(k)
      PROVE  Handed'
  <2> DEFINE s == TakeData(sock, k)
  <2>1. ~settled /\ OnData(k) /\ outcome = "none" /\ ~sock.destroyed
    BY <1>2 DEF Data, CanEmitData, Handed
  <2>2. /\ s.readEnded = sock.readEnded /\ s.fin = sock.fin /\ s.error = sock.error
        /\ s.destroyed = sock.destroyed
        /\ s \in [inq : {s.inq}, fin : BOOLEAN, flowing : BOOLEAN,
                  readEnded : BOOLEAN, out : Seq(Bytes), needDrain : BOOLEAN,
                  ended : BOOLEAN, destroyed : BOOLEAN, error : BOOLEAN,
                  got : Seq(Bytes)]
    BY <1>1 DEF TakeData, Socket
  <2> HIDE DEF s
  <2>3. ASSUME NEW kept, NEW verdict, Settle(s, kept, verdict)
        PROVE  Handed'
    <3>1. settled' = TRUE /\ timer' = FALSE
          /\ (sock' = Resume(Pause(s)) \/ sock' = Respond(Pause(s)))
      BY <2>3, Zenon DEF Settle, DisarmTimer
    <3>2. /\ sock'.readEnded = s.readEnded /\ sock'.fin = s.fin
          /\ sock'.error = s.error \/ sock'.destroyed
      BY <2>2, <3>1 DEF Resume, Pause, Respond, EndWrite, Write, Fail, DestroySocket
    <3>3. sock'.destroyed = s.destroyed \/ sock'.destroyed
      BY <2>2, <3>1 DEF Resume, Pause, Respond, EndWrite, Write, Fail, DestroySocket
    <3>4. QED
      BY <2>2, <3>1, <3>2, <3>3 DEF Handed
  <2>4. CASE sock' = s /\ UNCHANGED <<settled, timer, outcome>>
    BY <2>2, <2>4 DEF Handed
  <2>5. QED
    BY <2>1, <2>3, <2>4 DEF OnData, s
<1>3. CASE VisitorSend
  BY <1>1, <1>3 DEF VisitorSend, Handed, Socket
<1>4. CASE VisitorFin
  BY <1>1, <1>4 DEF VisitorFin, Handed, Socket
<1>5. CASE VisitorAbort
  BY <1>1, <1>5 DEF VisitorAbort, Fail, DestroySocket, Handed, Socket
<1>6. ASSUME NEW s \in Labels, TunnelCloses(s) \/ \E a \in Sessions : TunnelOpens(s, a)
      PROVE  Handed'
  BY <1>6 DEF TunnelCloses, TunnelOpens, connVars, Handed
<1>7. CASE SocketEnd
  BY <1>1, <1>7 DEF SocketEnd, CanEmitEnd, EmitEnd, Handed, Socket
<1>8. CASE SocketClose \/ IdleTimeout
  BY <1>1, <1>8 DEF SocketClose, IdleTimeout, Gone, DestroySocket, Handed, Socket
<1>9. CASE SocketError
  BY <1>1, <1>9 DEF SocketError, Gone, DestroySocket, Handed, Socket
<1>10. CASE Flush
  BY <1>1, <1>10 DEF Flush, FlushByte, Handed, Socket
<1>11. CASE UNCHANGED vars
  BY <1>11 DEF vars, Handed
<1>12. QED
  BY <1>2, <1>3, <1>4, <1>5, <1>6, <1>7, <1>8, <1>9, <1>10, <1>11 DEF Next, Callback

\* What was armed for the head never ends a stream: the socket of a stream is
\* destroyed only after the visitor's end or failure.
THEOREM StreamsOutliveHeadTimer == Spec => StreamOutlivesHeadTimer
<1> DEFINE Outlives == outcome = "opened" /\ ~sock.destroyed /\ sock'.destroyed
                          => sock.fin \/ sock'.error
<1>1. Init => Handed
  BY DEF Init, Handed, NewSocket, Resume
<1>2. IInv /\ Handed /\ [Next]_vars => Handed'
  BY HandedStep DEF IInv
<1>3. ASSUME IInv, Handed, [Next]_vars
      PROVE  [Outlives]_vars
  <2>1. SUFFICES ASSUME Next, outcome = "opened", ~sock.destroyed, sock'.destroyed
                 PROVE  sock.fin \/ sock'.error
    BY <1>3
  <2>2. sock \in Socket(Bytes) /\ settled /\ ~timer
    BY <1>3, <2>1 DEF Handed, IInv, Types
  <2>3. CASE VisitorSend \/ VisitorFin
    BY <2>1, <2>2, <2>3 DEF VisitorSend, VisitorFin, Socket
  <2>4. CASE VisitorAbort
    BY <2>2, <2>4 DEF VisitorAbort, Fail, DestroySocket, Socket
  <2>5. ASSUME NEW s \in Labels, TunnelCloses(s) \/ \E a \in Sessions : TunnelOpens(s, a)
        PROVE  FALSE
    BY <2>1, <2>5 DEF TunnelCloses, TunnelOpens, connVars
  <2>6. ASSUME NEW k \in 1..MaxChunk, Data(k)
        PROVE  FALSE
    BY <2>2, <2>6 DEF Data
  <2>7. CASE SocketEnd
    BY <2>1, <2>2, <2>7 DEF SocketEnd, EmitEnd, Socket
  <2>8. CASE SocketClose
    BY <1>3, <2>8 DEF SocketClose, CanEmitClose, Handed
  <2>9. CASE SocketError
    BY <1>3, <2>1, <2>9 DEF SocketError, Handed
  <2>10. CASE IdleTimeout
    BY <2>2, <2>10 DEF IdleTimeout, TimerRuns
  <2>11. CASE Flush
    BY <2>1, <2>2, <2>11 DEF Flush, FlushByte, Socket
  <2>12. QED
    BY <2>1, <2>3, <2>4, <2>5, <2>6, <2>7, <2>8, <2>9, <2>10, <2>11 DEF Next, Callback
<1>4. QED
  BY <1>1, <1>2, <1>3, Invariant, PTL DEF Spec, StreamOutlivesHeadTimer
=============================================================================
