---------------------------- MODULE ServerStream ----------------------------
(***************************************************************************)
(* The server's end of one tunnelled connection: class Stream of           *)
(* server/src/stream.ts, with the parts of class AgentSession of           *)
(* server/src/agent.ts that create it, hand it frames, pause it when the   *)
(* WebSocket is congested and tear it down.                                *)
(*                                                                         *)
(* Node runs one callback at a time, so a handler is atomic.  It is an     *)
(* operator on a turn, a record of the Stream's fields (st), its public    *)
(* socket (sock) and the frames it passes to peer.send (sent); an action   *)
(* runs one handler and commits the turn.  WebSocket messages travel in    *)
(* two FIFO queues shared with the agent's end.  checkCongestion runs      *)
(* inside send; here it is an action of its own (Congest), because pausing *)
(* a stream commutes with what the handlers do after a send.               *)
(***************************************************************************)
EXTENDS NodeSocket, StreamFrames, Integers

CONSTANTS Window,        \* STREAM_WINDOW, the credit each end starts with
          PrereadSizes   \* bytes a frontend has read before openStream:
                         \* 0 for a TCP tunnel, the request head for HTTP

VARIABLES srv,          \* the fields of the Stream, and whether it exists
          pub,          \* its public socket
          srvCongested, \* AgentSession.congested
          srvClosed,    \* AgentSession.closed
          linkUp,       \* the WebSocket still carries what is sent
          toAgent,      \* frames on their way to the agent
          toServer      \* frames on their way to the server

NoStream == [opened |-> FALSE, sendCredit |-> Window, recvUnacked |-> 0,
             pausedForCredit |-> FALSE, pausedGlobally |-> FALSE,
             sentEof |-> FALSE, receivedEof |-> FALSE, finished |-> FALSE]

ServerInit == /\ srv = NoStream
              /\ pub = NewSocket
              /\ srvCongested = FALSE
              /\ srvClosed = FALSE

-----------------------------------------------------------------------------
\* Turns.

Turn == [st |-> srv, sock |-> pub, sent |-> <<>>]

Send(h, frame) == [h EXCEPT !.sent = Append(@, frame)]

\* AgentSession.send: a closed session sends nothing, a dead link loses it.
Commit(h) ==
    /\ srv' = h.st
    /\ pub' = h.sock
    /\ toAgent' = IF linkUp /\ ~srvClosed THEN toAgent \o h.sent ELSE toAgent

\* The Stream is in AgentSession.streams.
InStreams == srv.opened /\ ~srv.finished

-----------------------------------------------------------------------------
\* Teardown.

Finish(h) == [h EXCEPT !.st.finished = TRUE]

\* Mutated form: the agent is not told.
DestroyQuietly(h, reason) ==
    IF h.st.finished THEN h ELSE [Finish(h) EXCEPT !.sock = DestroySocket(@)]

\* Mutated form: the stream stays in the map.
DestroyUnfinished(h, reason) ==
    IF h.st.finished THEN h
    ELSE LET told == IF reason = "peer_reset" THEN h ELSE Send(h, ResetFrame)
         IN  [told EXCEPT !.sock = DestroySocket(@)]

Destroy(h, reason) ==
    IF h.st.finished THEN h
    ELSE LET told == IF reason = "peer_reset" THEN h ELSE Send(h, ResetFrame)
         IN  [Finish(told) EXCEPT !.sock = DestroySocket(@)]

-----------------------------------------------------------------------------
\* Public side -> agent.

OnSocketData(h, chunk) ==
    LET credit == h.st.sendCredit - Len(chunk)
        stop   == credit <= 0 /\ ~h.st.pausedForCredit
        sent   == [Send(h, DataFrame(chunk)) EXCEPT !.st.sendCredit = credit]
    IN  IF h.st.finished \/ h.st.sentEof THEN h
        ELSE IF stop THEN [sent EXCEPT !.st.pausedForCredit = TRUE,
                                       !.sock = Pause(@)]
        ELSE sent

OnSocketEnd(h) ==
    LET sent == [Send(h, EofFrame) EXCEPT !.st.sentEof = TRUE]
    IN  IF h.st.finished \/ h.st.sentEof THEN h
        ELSE IF h.st.receivedEof THEN Finish(sent) ELSE sent

\* writePreread: the head a frontend consumed, if there is one.
WritePreread(h, head) == IF head = <<>> THEN h ELSE OnSocketData(h, head)

-----------------------------------------------------------------------------
\* Agent -> public side.

\* Mutated form: the count of unacknowledged bytes is not reset.
FlushAckKeeping(h) ==
    IF h.st.recvUnacked = 0 \/ h.st.finished THEN h
    ELSE Send(h, AckFrame(h.st.recvUnacked))

FlushAck(h) ==
    IF h.st.recvUnacked = 0 \/ h.st.finished THEN h
    ELSE [Send(h, AckFrame(h.st.recvUnacked)) EXCEPT !.st.recvUnacked = 0]

OnData(h, payload) ==
    LET sock    == Write(h.sock, payload)
        written == [h EXCEPT !.sock = sock, !.st.recvUnacked = @ + Len(payload)]
    IN  IF h.st.finished \/ h.st.receivedEof THEN h
        ELSE IF Flushed(sock) THEN FlushAck(written) ELSE written

OnEof(h) ==
    LET acked == FlushAck([h EXCEPT !.st.receivedEof = TRUE])
        done  == [acked EXCEPT !.sock = EndWrite(@)]
    IN  IF h.st.finished \/ h.st.receivedEof THEN h
        ELSE IF h.st.sentEof THEN Finish(done) ELSE done

MaybeResume(h) ==
    IF \/ h.st.finished \/ h.st.pausedGlobally
       \/ h.st.sendCredit <= 0 \/ ~h.st.pausedForCredit
    THEN h
    ELSE [h EXCEPT !.st.pausedForCredit = FALSE, !.sock = Resume(@)]

OnAck(h, bytes) ==
    IF h.st.finished THEN h
    ELSE MaybeResume([h EXCEPT !.st.sendCredit = @ + bytes])

\* Mutated form: the end of a congestion resumes without a look at the credit.
SetGlobalPauseResuming(h, paused) ==
    IF h.st.pausedGlobally = paused \/ h.st.finished THEN h
    ELSE [h EXCEPT !.st.pausedGlobally = paused,
                   !.sock = IF paused THEN Pause(@) ELSE Resume(@)]

SetGlobalPause(h, paused) ==
    LET set == [h EXCEPT !.st.pausedGlobally = paused]
    IN  IF h.st.pausedGlobally = paused \/ h.st.finished THEN h
        ELSE IF paused THEN [set EXCEPT !.sock = Pause(@)]
        ELSE MaybeResume(set)

\* handleFrame, for a frame that names this stream.
HandleFrame(f) ==
    IF ~InStreams
    THEN IF f.type = "RESET" THEN Turn ELSE Send(Turn, ResetFrame)
    ELSE CASE f.type = "DATA"  -> OnData(Turn, f.data)
           [] f.type = "EOF"   -> OnEof(Turn)
           [] f.type = "ACK"   -> OnAck(Turn, f.n)
           [] f.type = "RESET" -> Destroy(Turn, "peer_reset")

-----------------------------------------------------------------------------
\* Actions.

\* openStream: STREAM_OPEN, the new Stream, a global pause when the WebSocket
\* is congested, the preread bytes, and an unconditional socket.resume().
OpenStream ==
    \E size \in PrereadSizes :
       LET head    == SubSeq(pub.inq, 1, size)
           created == [Send(Turn, OpenFrame) EXCEPT
                         !.st.opened = TRUE,
                         !.sock.inq = SubSeq(@, size + 1, Len(@))]
           paused  == IF srvCongested THEN SetGlobalPause(created, TRUE)
                                      ELSE created
       IN  /\ ~srv.opened
           /\ ~srvClosed
           /\ ~pub.readEnded
           /\ ~pub.destroyed
           /\ size <= Len(pub.inq)
           /\ Commit([WritePreread(paused, head) EXCEPT !.sock = Resume(@)])
           /\ UNCHANGED <<srvCongested, srvClosed, linkUp, toServer>>

\* 'data'
SocketData ==
    /\ srv.opened
    /\ \E k \in 1..MaxChunk :
          /\ CanEmitData(pub, k)
          /\ Commit(OnSocketData([Turn EXCEPT !.sock = TakeData(@, k)],
                                 SubSeq(pub.inq, 1, k)))
    /\ UNCHANGED <<srvCongested, srvClosed, linkUp, toServer>>

\* 'end'
SocketEnd ==
    /\ srv.opened
    /\ CanEmitEnd(pub)
    /\ Commit([OnSocketEnd(Turn) EXCEPT !.sock = EmitEnd(@)])
    /\ UNCHANGED <<srvCongested, srvClosed, linkUp, toServer>>

\* 'drain'
SocketDrain ==
    /\ srv.opened
    /\ DrainDue(pub)
    /\ Commit(FlushAck([Turn EXCEPT !.sock = Drained(@)]))
    /\ UNCHANGED <<srvCongested, srvClosed, linkUp, toServer>>

\* 'error'
SocketError ==
    /\ srv.opened
    /\ pub.error
    /\ Commit(Destroy([Turn EXCEPT !.sock.error = FALSE], "socket_error"))
    /\ UNCHANGED <<srvCongested, srvClosed, linkUp, toServer>>

\* 'close', once both sides of the socket are over
SocketClose ==
    /\ srv.opened
    /\ CanEmitClose(pub)
    /\ Commit([Finish(Turn) EXCEPT !.sock = DestroySocket(@)])
    /\ UNCHANGED <<srvCongested, srvClosed, linkUp, toServer>>

\* A frame of this stream arrives.
ServerReceive ==
    /\ ~srvClosed
    /\ toServer # <<>>
    /\ Commit(HandleFrame(Head(toServer)))
    /\ toServer' = Tail(toServer)
    /\ UNCHANGED <<srvCongested, srvClosed, linkUp>>

\* checkCongestion: the queue of the WebSocket passed WS_MAX_BUFFERED.
Congest ==
    /\ ~srvCongested
    /\ ~srvClosed
    /\ srvCongested' = TRUE
    /\ Commit(IF InStreams THEN SetGlobalPause(Turn, TRUE) ELSE Turn)
    /\ UNCHANGED <<srvClosed, linkUp, toServer>>

\* clearCongestion, from the poll that found the queue at half of it.
ClearCongestion ==
    /\ srvCongested
    /\ ~srvClosed
    /\ srvCongested' = FALSE
    /\ Commit(IF InStreams THEN SetGlobalPause(Turn, FALSE) ELSE Turn)
    /\ UNCHANGED <<srvClosed, linkUp, toServer>>

\* AgentSession.destroy, once the WebSocket is gone.
SessionDestroy ==
    LET cleared == IF srvCongested THEN SetGlobalPause(Turn, FALSE) ELSE Turn
    IN  /\ ~linkUp
        /\ ~srvClosed
        /\ srvClosed' = TRUE
        /\ srvCongested' = FALSE
        /\ srv' = IF InStreams THEN Destroy(cleared, "agent_gone").st ELSE srv
        /\ pub' = IF InStreams THEN Destroy(cleared, "agent_gone").sock ELSE pub
        /\ UNCHANGED <<linkUp, toAgent, toServer>>

\* The kernel takes a byte for the visitor.
SocketFlush ==
    /\ CanFlush(pub)
    /\ pub' = FlushByte(pub)
    /\ UNCHANGED <<srv, srvCongested, srvClosed, linkUp, toAgent, toServer>>

ServerCallback ==
    \/ OpenStream \/ SocketData \/ SocketEnd \/ SocketDrain \/ SocketError
    \/ SocketClose \/ ServerReceive \/ ClearCongestion \/ SessionDestroy

-----------------------------------------------------------------------------
ServerTypeOK(Bytes, MaxBytes) ==
    /\ srv \in [opened : BOOLEAN,
                sendCredit : (-MaxBytes)..Window, recvUnacked : 0..MaxBytes,
                pausedForCredit : BOOLEAN, pausedGlobally : BOOLEAN,
                sentEof : BOOLEAN, receivedEof : BOOLEAN, finished : BOOLEAN]
    /\ pub \in Socket(Bytes)
    /\ srvCongested \in BOOLEAN
    /\ srvClosed \in BOOLEAN
=============================================================================
