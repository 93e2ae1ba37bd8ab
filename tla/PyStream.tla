------------------------------ MODULE PyStream ------------------------------
(***************************************************************************)
(* The Python agent's end of one tunnelled connection: class Stream of     *)
(* client/uptunnel/client.py, with the parts of class Agent that create    *)
(* it, hand it frames and end it with the session.                         *)
(*                                                                         *)
(* A stream is three tasks: run() dials and then waits for the two pumps,  *)
(* _to_local and _to_server.  A step runs one task to an await (a pump to  *)
(* the end of one item or chunk: what it leaves queued might as well have  *)
(* arrived later), or hands over one frame.  The queue _out and the        *)
(* WebSocket behind it are one FIFO, toServer.  finish() cancels the pumps *)
(* where they wait, so they take no step after it.                         *)
(***************************************************************************)
EXTENDS AsyncioSocket, StreamFrames, Integers, SequencesExt

CONSTANTS Window,       \* the streamWindow of HELLO_OK
          MaxChunk,     \* LOCAL_READ_CHUNK
          KnownTunnel,  \* the answers the tunnels map can give
          RewriteHosts, \* the values of TunnelSpec.rewrite_host to consider
          HeadEnd,      \* the byte that completes the request head
          HostByte,     \* the byte that stands for the Host header's value
          TargetBytes,  \* what a rewrite puts in its place
          MaxHead       \* MAX_HEAD_BUFFER

VARIABLES py,           \* the fields of the Stream, and where its tasks are
          loc,          \* its connection to the local service
          sessionOver,  \* _session has left its read loop
          linkUp, toAgent, toServer   \* see ServerStream

\* run: no stream, dialling, waiting for the pumps, or over.
\* toLocal: not created, at inbox.get(), at the drain() after data or after the
\* head that an end of stream released, raised, or over.  toServer likewise;
\* it is at credit.wait() when it is at "read" without credit.
NoPyStream(rewriteHost) ==
    [run |-> "none", toLocal |-> "off", toServer |-> "off",
     inbox |-> <<>>, owed |-> 0, sendCredit |-> Window, finished |-> FALSE,
     headBuf |-> <<>>, headDone |-> ~rewriteHost, rewriteHost |-> rewriteHost]

PyInit == /\ \E r \in RewriteHosts : py = NoPyStream(r)
          /\ loc = NewConnection
          /\ sessionOver = FALSE

-----------------------------------------------------------------------------
\* Turns, as in ServerStream.

Turn == [st |-> py, sock |-> loc, sent |-> <<>>]

Send(h, frame) == [h EXCEPT !.sent = Append(@, frame)]

\* Agent.send: what is queued while there is no session is dropped by the next.
Commit(h) ==
    /\ py' = h.st
    /\ loc' = h.sock
    /\ toServer' = IF linkUp /\ ~sessionOver THEN toServer \o h.sent
                                             ELSE toServer

\* The Stream is in Agent.streams.
InStreams == py.run # "none" /\ ~py.finished

\* finish(): a stream that still dials has no pumps and no writer yet.
Finish(h) ==
    IF h.st.finished THEN h
    ELSE IF h.st.run # "pumps" THEN [h EXCEPT !.st.finished = TRUE]
    ELSE [h EXCEPT !.st.finished = TRUE, !.st.run = "over",
                   !.st.toLocal = "over", !.st.toServer = "over",
                   !.sock = Close(@)]

-----------------------------------------------------------------------------
\* _to_local

\* What follows `await drain()`: it raises, keeps the pump waiting, or returns.
AfterDrain(h, waiting, Then(_)) ==
    IF h.sock.lost THEN [h EXCEPT !.st.toLocal = "failed"]
    ELSE IF h.sock.paused THEN [h EXCEPT !.st.toLocal = waiting]
    ELSE Then(h)

Acknowledge(h) ==
    [Send(h, AckFrame(h.st.owed)) EXCEPT !.st.owed = 0, !.st.toLocal = "get"]

\* Mutated form: an end of stream is acknowledged like data.
HalfCloseAcking(h) ==
    [Acknowledge(h) EXCEPT !.sock = WriteEof(@), !.st.toLocal = "over"]

HalfClose(h) == [h EXCEPT !.sock = WriteEof(@), !.st.toLocal = "over"]

\* _rewrite_host_header: the first Host value becomes the target.
RewriteHostHeader(head) ==
    LET i == SelectInSeq(head, LAMBDA b : b = HostByte)
    IN  IF i = 0 THEN head
        ELSE SubSeq(head, 1, i - 1) \o TargetBytes
                \o SubSeq(head, i + 1, Len(head))

HeadComplete(head) == HeadEnd \in ToSet(head) \/ Len(head) >= MaxHead

\* Mutated form: _head_buf is not emptied.
ReleaseHeadKeeping(h, head) ==
    [h EXCEPT !.st.headDone = TRUE, !.sock = WriteTo(@, RewriteHostHeader(head))]

\* The held head goes out rewritten.
ReleaseHead(h, head) ==
    [h EXCEPT !.st.headBuf = <<>>, !.st.headDone = TRUE,
              !.sock = WriteTo(@, RewriteHostHeader(head))]

HoldBack(h, head) == Acknowledge([h EXCEPT !.st.headBuf = head])

OnItem(h, payload) ==
    LET head == h.st.headBuf \o payload
        got  == [h EXCEPT !.st.owed = Len(payload)]
    IN  IF h.st.headDone
        THEN AfterDrain([got EXCEPT !.sock = WriteTo(@, payload)],
                        "drain", Acknowledge)
        ELSE IF HeadComplete(head)
        THEN AfterDrain(ReleaseHead(got, head), "drain", Acknowledge)
        ELSE HoldBack(got, head)

OnEofItem(h) ==
    IF h.st.headBuf = <<>> THEN HalfClose(h)
    ELSE AfterDrain(ReleaseHead(h, h.st.headBuf), "eof", HalfClose)

-----------------------------------------------------------------------------
\* Frames.

\* Mutated form: acknowledged on arrival too.
FeedAcking(h, f) ==
    IF f.type = "EOF" THEN [h EXCEPT !.st.inbox = Append(@, f)]
    ELSE [Send(h, AckFrame(Len(f.data))) EXCEPT !.st.inbox = Append(@, f)]

\* feed, feed_eof
Feed(h, f) == [h EXCEPT !.st.inbox = Append(@, f)]

AddCredit(h, granted) == [h EXCEPT !.st.sendCredit = @ + granted]

\* _on_stream, for a frame that names this stream.
OnStream(f, known) ==
    CASE f.type = "OPEN" -> IF known THEN [Turn EXCEPT !.st.run = "dialling"]
                            ELSE Send(Turn, ResetFrame)
      [] f.type # "OPEN" /\ ~InStreams ->
            IF f.type = "RESET" THEN Turn ELSE Send(Turn, ResetFrame)
      [] f.type \in {"DATA", "EOF"} /\ InStreams -> Feed(Turn, f)
      [] f.type = "ACK" /\ InStreams -> AddCredit(Turn, f.n)
      [] f.type = "RESET" /\ InStreams -> Finish(Turn)

-----------------------------------------------------------------------------
\* Actions.

local == <<sessionOver, linkUp, toAgent>>

PyReceive ==
    /\ ~sessionOver
    /\ toAgent # <<>>
    /\ \E known \in KnownTunnel : Commit(OnStream(Head(toAgent), known))
    /\ toAgent' = Tail(toAgent)
    /\ UNCHANGED <<sessionOver, linkUp>>

\* run(): open_connection returns, even to a stream reset meanwhile.
DialOk ==
    /\ py.run = "dialling"
    /\ Commit([Turn EXCEPT !.st.run = "pumps", !.st.toLocal = "get",
                           !.st.toServer = "read"])
    /\ UNCHANGED local

\* Mutated form: the server is not told.
DialFailedQuietly(h) == [Finish(h) EXCEPT !.st.run = "over"]

DialFailed(h) == [Finish(Send(h, ResetFrame)) EXCEPT !.st.run = "over"]

\* run(): it fails, or the 10 s of wait_for are over.
DialFail ==
    /\ py.run = "dialling"
    /\ Commit(DialFailed(Turn))
    /\ UNCHANGED local

\* _to_local: one item of the inbox.
ToLocalItem ==
    /\ py.toLocal = "get"
    /\ py.inbox # <<>>
    /\ LET item == Head(py.inbox)
           h    == [Turn EXCEPT !.st.inbox = Tail(@)]
       IN  Commit(IF item.type = "EOF" THEN OnEofItem(h)
                                       ELSE OnItem(h, item.data))
    /\ UNCHANGED local

\* Mutated form: what had to wait for the drain is not acknowledged.
ToLocalDrainedUnacked ==
    /\ py.toLocal \in {"drain", "eof"}
    /\ loc.lost \/ ~loc.paused
    /\ Commit(IF py.toLocal = "drain"
              THEN [Turn EXCEPT !.st.toLocal = "get", !.st.owed = 0]
              ELSE AfterDrain(Turn, "eof", HalfClose))
    /\ UNCHANGED local

\* _to_local: the drain() it waits for returns or raises.
ToLocalDrained ==
    /\ py.toLocal \in {"drain", "eof"}
    /\ loc.lost \/ ~loc.paused
    /\ Commit(IF py.toLocal = "drain" THEN AfterDrain(Turn, "drain", Acknowledge)
                                      ELSE AfterDrain(Turn, "eof", HalfClose))
    /\ UNCHANGED local

HasCredit == py.sendCredit > 0

\* _to_server: a chunk, whatever its length, if there is any credit.
ToServerData ==
    /\ py.toServer = "read"
    /\ HasCredit
    /\ \E k \in 1..MaxChunk :
          /\ k <= Len(loc.inq)
          /\ Commit([Send(Turn, DataFrame(SubSeq(loc.inq, 1, k))) EXCEPT
                       !.st.sendCredit = @ - k,
                       !.sock.inq = SubSeq(@, k + 1, Len(@))])
    /\ UNCHANGED local

\* _to_server: read() returns b"".
ToServerEof ==
    /\ py.toServer = "read"
    /\ HasCredit
    /\ loc.fin /\ loc.inq = <<>> /\ ~loc.lost
    /\ Commit([Send(Turn, EofFrame) EXCEPT !.st.toServer = "over"])
    /\ UNCHANGED local

\* _to_server: read() raises.
ToServerError ==
    /\ py.toServer = "read"
    /\ HasCredit
    /\ loc.lost
    /\ Commit([Send(Turn, ResetFrame) EXCEPT !.st.toServer = "over"])
    /\ UNCHANGED local

\* Mutated form: run() waits for the first pump only.
PumpsOverFirst == {"failed", "over"} \cap {py.toLocal, py.toServer} # {}

PumpsOver == \/ py.toLocal = "failed"
             \/ py.toLocal = "over" /\ py.toServer = "over"

\* run(): gather() returns once both pumps have, or raises what one raised (the
\* other pump, if it is due too, may here run before or after).
PumpsEnd ==
    /\ py.run = "pumps"
    /\ PumpsOver
    /\ Commit([Finish(Turn) EXCEPT !.st.run = "over"])
    /\ UNCHANGED local

\* _session's finally, once the WebSocket is gone.
SessionEnds ==
    /\ ~linkUp
    /\ ~sessionOver
    /\ sessionOver' = TRUE
    /\ Commit(IF InStreams THEN Finish(Turn) ELSE Turn)
    /\ UNCHANGED <<linkUp, toAgent>>

\* The kernel takes a byte for the local service.
LocalFlush ==
    /\ CanTake(loc)
    /\ loc' = TakeByte(loc)
    /\ UNCHANGED <<py, sessionOver, linkUp, toAgent, toServer>>

\* What the stream does by itself, whatever becomes of the session.
PyTask == \/ DialOk \/ ToLocalItem \/ ToLocalDrained \/ ToServerData
          \/ ToServerEof \/ ToServerError \/ PumpsEnd \/ LocalFlush

-----------------------------------------------------------------------------
PyTypeOK(Bytes, MaxBytes) ==
    /\ py \in [run : {"none", "dialling", "pumps", "over"},
               toLocal : {"off", "get", "drain", "eof", "failed", "over"},
               toServer : {"off", "read", "over"},
               inbox : Seq(Frame(Bytes, MaxBytes)), owed : 0..MaxBytes,
               sendCredit : (-MaxBytes)..Window, finished : BOOLEAN,
               headBuf : Seq(Bytes), headDone : BOOLEAN, rewriteHost : BOOLEAN]
    /\ loc \in Connection(Bytes)
    /\ sessionOver \in BOOLEAN
=============================================================================
