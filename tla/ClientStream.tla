---------------------------- MODULE ClientStream ----------------------------
(***************************************************************************)
(* The Node agent's end of one tunnelled connection: class ClientStream of *)
(* client-node/src/stream.ts, with the parts of class Agent of             *)
(* client-node/src/agent.ts that create it on STREAM_OPEN, hand it frames, *)
(* pause it when the uplink is congested and tear it down.                 *)
(*                                                                         *)
(* It differs from the server's end in that its socket has first to be     *)
(* dialled: what arrives meanwhile is queued and replayed by attach.  A    *)
(* tunnel with a Host rewrite also holds the request head back until it is *)
(* complete.  Turns and congestion are as in ServerStream.                 *)
(***************************************************************************)
EXTENDS NodeSocket, StreamFrames, Integers, SequencesExt

CONSTANTS Window,       \* the streamWindow of HELLO_OK
          KnownTunnel,  \* the answers the tunnels map can give: {TRUE}, or
                        \* {TRUE, FALSE} for an agent it may be missing from
          RewriteHosts, \* the values of TunnelSpec.rewriteHost to consider
          HeadEnd,      \* the byte that completes the request head
          HostByte,     \* the byte that stands for the Host header's value
          TargetBytes,  \* what a rewrite puts in its place
          MaxHead       \* MAX_HEAD_BUFFER

VARIABLES cli,          \* the fields of the ClientStream
          loc,          \* its socket to the local service
          cliCongested, \* Agent.congested
          cliClosed,    \* teardownSession ran
          linkUp,       \* the WebSocket still carries what is sent
          toAgent,      \* frames on their way to the agent
          toServer      \* frames on their way to the server

\* dial: no dial yet, under way, or over (connected, failed or timed out).
NoClientStream(rewriteHost) ==
    [dial |-> "none", connected |-> FALSE, sendCredit |-> Window,
     recvUnacked |-> 0, pausedForCredit |-> FALSE, pausedGlobally |-> FALSE,
     sentEof |-> FALSE, receivedEof |-> FALSE, finished |-> FALSE,
     queued |-> <<>>, queuedEof |-> FALSE,
     headBuf |-> <<>>, headDone |-> ~rewriteHost,
     rewriteHost |-> rewriteHost]

ClientInit == /\ \E r \in RewriteHosts : cli = NoClientStream(r)
              /\ loc = NewSocket
              /\ cliCongested = FALSE
              /\ cliClosed = FALSE

-----------------------------------------------------------------------------
\* Turns.

Turn == [st |-> cli, sock |-> loc, sent |-> <<>>]

Send(h, frame) == [h EXCEPT !.sent = Append(@, frame)]

\* Agent.send: nothing without an open WebSocket.
Commit(h) ==
    /\ cli' = h.st
    /\ loc' = h.sock
    /\ toServer' = IF linkUp /\ ~cliClosed THEN toServer \o h.sent ELSE toServer

\* The ClientStream is in Agent.streams.
InStreams == cli.dial # "none" /\ ~cli.finished

-----------------------------------------------------------------------------
\* Teardown.

Finish(h) == [h EXCEPT !.st.finished = TRUE]

\* Mutated form: the server is not told.
DestroyQuietly(h, reason) ==
    IF h.st.finished THEN h ELSE [Finish(h) EXCEPT !.sock = DestroySocket(@)]

\* this.socket is null until attach, so a dial under way is left alone.
Destroy(h, reason) ==
    IF h.st.finished THEN h
    ELSE LET told == IF reason = "peer_reset" THEN h ELSE Send(h, ResetFrame)
         IN  [Finish(told) EXCEPT
                !.sock = IF h.st.connected THEN DestroySocket(@) ELSE @]

-----------------------------------------------------------------------------
\* Local -> server.

OnLocalData(h, chunk) ==
    LET credit == h.st.sendCredit - Len(chunk)
        stop   == credit <= 0 /\ ~h.st.pausedForCredit
        sent   == [Send(h, DataFrame(chunk)) EXCEPT !.st.sendCredit = credit]
    IN  IF h.st.finished \/ h.st.sentEof THEN h
        ELSE IF stop THEN [sent EXCEPT !.st.pausedForCredit = TRUE,
                                       !.sock = Pause(@)]
        ELSE sent

OnLocalEnd(h) ==
    LET sent == [Send(h, EofFrame) EXCEPT !.st.sentEof = TRUE]
    IN  IF h.st.finished \/ h.st.sentEof THEN h
        ELSE IF h.st.receivedEof THEN Finish(sent) ELSE sent

MaybeResume(h) ==
    IF \/ h.st.finished \/ h.st.pausedGlobally
       \/ h.st.sendCredit <= 0 \/ ~h.st.pausedForCredit
    THEN h
    ELSE [h EXCEPT !.st.pausedForCredit = FALSE, !.sock = Resume(@)]

OnAck(h, bytes) ==
    IF h.st.finished THEN h
    ELSE MaybeResume([h EXCEPT !.st.sendCredit = @ + bytes])

SetGlobalPause(h, paused) ==
    LET set == [h EXCEPT !.st.pausedGlobally = paused]
    IN  IF h.st.pausedGlobally = paused \/ h.st.finished THEN h
        ELSE IF paused THEN [set EXCEPT !.sock = Pause(@)]
        ELSE MaybeResume(set)

-----------------------------------------------------------------------------
\* Server -> local.

FlushAck(h) ==
    IF h.st.recvUnacked = 0 \/ h.st.finished THEN h
    ELSE [Send(h, AckFrame(h.st.recvUnacked)) EXCEPT !.st.recvUnacked = 0]

\* rewriteHostHeader: the first Host value becomes the target; a head without
\* one, or cut before it, is left as it is.
RewriteHostHeader(head) ==
    IF HostByte \in ToSet(head)
    THEN LET i == SelectInSeq(head, LAMBDA b : b = HostByte)
         IN  SubSeq(head, 1, i - 1) \o TargetBytes
                \o SubSeq(head, i + 1, Len(head))
    ELSE head

HeadComplete(head) == HeadEnd \in ToSet(head) \/ Len(head) >= MaxHead

\* Mutated form: the head goes out as it came.
ReleaseHeadAsIs(h, head) ==
    [h EXCEPT !.st.headBuf = <<>>, !.st.headDone = TRUE, !.sock = Write(@, head)]

\* The head held back goes out rewritten.
ReleaseHead(h, head) ==
    [h EXCEPT !.st.headBuf = <<>>, !.st.headDone = TRUE,
              !.sock = Write(@, RewriteHostHeader(head))]

\* Mutated form: acknowledged on arrival, whatever write() returned.
AckAtOnce(h) == FlushAck(h)

AckIfFlushed(h) == IF Flushed(h.sock) THEN FlushAck(h) ELSE h

\* writeLocal with consumeHead: the bytes count as received when they arrive;
\* a head held back is acknowledged at once, though it is not written yet.
WriteLocal(h, payload) ==
    LET head == h.st.headBuf \o payload
        got  == [h EXCEPT !.st.recvUnacked = @ + Len(payload)]
    IN  IF h.st.headDone
        THEN AckIfFlushed([got EXCEPT !.sock = Write(@, payload)])
        ELSE IF HeadComplete(head) THEN AckIfFlushed(ReleaseHead(got, head))
        ELSE FlushAck([got EXCEPT !.st.headBuf = head])

OnData(h, payload) ==
    IF h.st.finished \/ h.st.receivedEof THEN h
    ELSE IF ~h.st.connected
    THEN [h EXCEPT !.st.queued = Append(@, payload)]
    ELSE WriteLocal(h, payload)

\* A head still held back goes out before the half-close.
OnEof(h) ==
    LET half == [h EXCEPT !.st.receivedEof = TRUE]
        out  == IF h.st.headBuf = <<>> THEN half
                ELSE ReleaseHead(half, h.st.headBuf)
        done == [FlushAck(out) EXCEPT !.sock = EndWrite(@)]
    IN  IF h.st.finished \/ h.st.receivedEof THEN h
        ELSE IF ~h.st.connected THEN [h EXCEPT !.st.queuedEof = TRUE]
        ELSE IF h.st.sentEof THEN Finish(done) ELSE done

\* attach: replay what was queued, then a pause that was asked for meanwhile.
\* Registering for 'data' is what starts the socket flowing.
Attach(h) ==
    LET up       == [h EXCEPT !.st.connected = TRUE, !.sock = Resume(@)]
        written[n \in 0..Len(h.st.queued)] ==
            IF n = 0 THEN up ELSE WriteLocal(written[n - 1], h.st.queued[n])
        replayed == [written[Len(h.st.queued)] EXCEPT !.st.queued = <<>>]
        ended    == IF h.st.queuedEof THEN OnEof(replayed) ELSE replayed
    IN  IF h.st.finished THEN [h EXCEPT !.sock = DestroySocket(@)]
        ELSE IF h.st.pausedGlobally THEN [ended EXCEPT !.sock = Pause(@)]
        ELSE ended

\* onStreamOpen and open(): a tunnel that is not known is refused.
OnStreamOpen(h, known) ==
    LET dialling == [h EXCEPT !.st.dial = "pending"]
    IN  IF ~known THEN Send(h, ResetFrame)
        ELSE IF cliCongested THEN SetGlobalPause(dialling, TRUE)
        ELSE dialling

\* handleFrame, for a frame that names this stream.
HandleFrame(f, known) ==
    IF f.type = "OPEN" THEN OnStreamOpen(Turn, known)
    ELSE IF ~InStreams
    THEN IF f.type = "RESET" THEN Turn ELSE Send(Turn, ResetFrame)
    ELSE CASE f.type = "DATA"  -> OnData(Turn, f.data)
           [] f.type = "EOF"   -> OnEof(Turn)
           [] f.type = "ACK"   -> OnAck(Turn, f.n)
           [] f.type = "RESET" -> Destroy(Turn, "peer_reset")

-----------------------------------------------------------------------------
\* Actions.

\* A frame of this stream arrives.
ClientReceive ==
    /\ ~cliClosed
    /\ toAgent # <<>>
    /\ \E known \in KnownTunnel : Commit(HandleFrame(Head(toAgent), known))
    /\ toAgent' = Tail(toAgent)
    /\ UNCHANGED <<cliCongested, cliClosed, linkUp>>

\* 'connect'
DialOk ==
    /\ cli.dial = "pending"
    /\ Commit(Attach([Turn EXCEPT !.st.dial = "over"]))
    /\ UNCHANGED <<cliCongested, cliClosed, linkUp, toAgent>>

\* dialFailed, from 'error' or from the 10 s timer
DialFail ==
    /\ cli.dial = "pending"
    /\ LET over == [Turn EXCEPT !.st.dial = "over", !.sock = DestroySocket(@)]
       IN  Commit(IF cli.finished THEN over ELSE Finish(Send(over, ResetFrame)))
    /\ UNCHANGED <<cliCongested, cliClosed, linkUp, toAgent>>

\* 'data'
LocalData ==
    /\ cli.connected
    /\ \E k \in 1..MaxChunk :
          /\ CanEmitData(loc, k)
          /\ Commit(OnLocalData([Turn EXCEPT !.sock = TakeData(@, k)],
                                SubSeq(loc.inq, 1, k)))
    /\ UNCHANGED <<cliCongested, cliClosed, linkUp, toAgent>>

\* 'end'
LocalEnd ==
    /\ cli.connected
    /\ CanEmitEnd(loc)
    /\ Commit([OnLocalEnd(Turn) EXCEPT !.sock = EmitEnd(@)])
    /\ UNCHANGED <<cliCongested, cliClosed, linkUp, toAgent>>

\* Mutated form: a drained buffer is not acknowledged.
LocalDrainUnacked ==
    /\ cli.connected
    /\ DrainDue(loc)
    /\ loc' = Drained(loc)
    /\ UNCHANGED <<cli, cliCongested, cliClosed, linkUp, toAgent, toServer>>

\* 'drain'
LocalDrain ==
    /\ cli.connected
    /\ DrainDue(loc)
    /\ Commit(FlushAck([Turn EXCEPT !.sock = Drained(@)]))
    /\ UNCHANGED <<cliCongested, cliClosed, linkUp, toAgent>>

\* 'error'
LocalError ==
    /\ cli.connected
    /\ loc.error
    /\ Commit(Destroy([Turn EXCEPT !.sock.error = FALSE], "local_error"))
    /\ UNCHANGED <<cliCongested, cliClosed, linkUp, toAgent>>

\* 'close', once both sides of the socket are over
LocalClose ==
    /\ cli.connected
    /\ CanEmitClose(loc)
    /\ Commit([Finish(Turn) EXCEPT !.sock = DestroySocket(@)])
    /\ UNCHANGED <<cliCongested, cliClosed, linkUp, toAgent>>

\* checkCongestion: the queue of the WebSocket passed WS_MAX_BUFFERED.
CongestUplink ==
    /\ ~cliCongested
    /\ ~cliClosed
    /\ cliCongested' = TRUE
    /\ Commit(IF InStreams THEN SetGlobalPause(Turn, TRUE) ELSE Turn)
    /\ UNCHANGED <<cliClosed, linkUp, toAgent>>

\* clearCongestion, from the poll that found the queue at half of it.
ClearUplink ==
    /\ cliCongested
    /\ ~cliClosed
    /\ cliCongested' = FALSE
    /\ Commit(IF InStreams THEN SetGlobalPause(Turn, FALSE) ELSE Turn)
    /\ UNCHANGED <<cliClosed, linkUp, toAgent>>

\* teardownSession, once the WebSocket is gone.
TeardownSession ==
    LET cleared == IF cliCongested THEN SetGlobalPause(Turn, FALSE) ELSE Turn
    IN  /\ ~linkUp
        /\ ~cliClosed
        /\ cliClosed' = TRUE
        /\ cliCongested' = FALSE
        /\ cli' = IF InStreams THEN Destroy(cleared, "peer_reset").st ELSE cli
        /\ loc' = IF InStreams THEN Destroy(cleared, "peer_reset").sock ELSE loc
        /\ UNCHANGED <<linkUp, toAgent, toServer>>

\* The kernel takes a byte for the local service.
LocalFlush ==
    /\ CanFlush(loc)
    /\ loc' = FlushByte(loc)
    /\ UNCHANGED <<cli, cliCongested, cliClosed, linkUp, toAgent, toServer>>

ClientCallback ==
    \/ ClientReceive \/ DialOk \/ LocalData \/ LocalEnd \/ LocalDrain
    \/ LocalError \/ LocalClose \/ ClearUplink \/ TeardownSession

-----------------------------------------------------------------------------
ClientTypeOK(Bytes, MaxBytes) ==
    /\ cli \in [dial : {"none", "pending", "over"}, connected : BOOLEAN,
                sendCredit : (-MaxBytes)..Window, recvUnacked : 0..MaxBytes,
                pausedForCredit : BOOLEAN, pausedGlobally : BOOLEAN,
                sentEof : BOOLEAN, receivedEof : BOOLEAN, finished : BOOLEAN,
                queued : Seq(Seq(Bytes)), queuedEof : BOOLEAN,
                headBuf : Seq(Bytes), headDone : BOOLEAN,
                rewriteHost : BOOLEAN]
    /\ loc \in Socket(Bytes)
    /\ cliCongested \in BOOLEAN
    /\ cliClosed \in BOOLEAN
=============================================================================
