----------------------------- MODULE NodeSocket -----------------------------
(***************************************************************************)
(* A Node.js net.Socket, as far as the two stream classes use it.  This is *)
(* library behaviour, modelled from how server/src/stream.ts and           *)
(* client-node/src/stream.ts drive it.  Both files take their sockets from *)
(* createServer(...) and connect(...) with no options, so allowHalfOpen    *)
(* has its default, false: once the readable side has ended the writable   *)
(* side is ended too, and a later write destroys the socket.               *)
(*                                                                         *)
(* A socket is a record:                                                   *)
(*   inq        bytes that have arrived and were not emitted as 'data'     *)
(*   fin        the remote party has sent its FIN                          *)
(*   flowing    FALSE between pause() and resume()                         *)
(*   readEnded  'end' has been emitted                                     *)
(*   out        bytes written and not yet taken by the kernel              *)
(*   needDrain  a write() returned false and 'drain' is owed               *)
(*   ended      end() was called, by the program or by the socket itself   *)
(*   destroyed  destroy() ran, or the socket closed by itself              *)
(*   error      an 'error' event is owed                                   *)
(*   got        the bytes the remote party can read, in order              *)
(***************************************************************************)
EXTENDS Naturals, Sequences

CONSTANTS HighWater,  \* bytes of out at which write() starts to return false
          MaxChunk    \* most bytes one 'data' event carries

ASSUME SocketAssumption == /\ HighWater \in Nat \ {0}
                           /\ MaxChunk \in Nat \ {0}

\* A connected socket that nobody reads from yet.
NewSocket == [inq |-> <<>>, fin |-> FALSE, flowing |-> FALSE,
              readEnded |-> FALSE, out |-> <<>>, needDrain |-> FALSE,
              ended |-> FALSE, destroyed |-> FALSE, error |-> FALSE,
              got |-> <<>>]

Pause(s) == [s EXCEPT !.flowing = FALSE]
Resume(s) == [s EXCEPT !.flowing = TRUE]

\* destroy(): what the kernel has not taken is lost, what was not read too.
DestroySocket(s) == [s EXCEPT !.destroyed = TRUE, !.out = <<>>, !.inq = <<>>,
                              !.flowing = FALSE, !.needDrain = FALSE]

\* The socket fails under the program: destroyed, with an 'error' to come.
Fail(s) == [DestroySocket(s) EXCEPT !.error = TRUE]

\* write(): buffers, and owes a 'drain' when it reports a full buffer.  After
\* the automatic end() it is an EPIPE, and the socket fails.
Write(s, bytes) ==
    LET out == s.out \o bytes
    IN  IF s.ended \/ s.destroyed THEN Fail(s)
        ELSE [s EXCEPT !.out = out, !.needDrain = @ \/ Len(out) >= HighWater]

\* What the write() that left the socket like this returned.
Flushed(s) == Len(s.out) < HighWater /\ ~s.destroyed

EndWrite(s) == [s EXCEPT !.ended = TRUE]

\* A 'data' event with the first k bytes may fire.
CanEmitData(s, k) == /\ s.flowing
                     /\ ~s.destroyed
                     /\ k \in 1..MaxChunk
                     /\ k <= Len(s.inq)

TakeData(s, k) == [s EXCEPT !.inq = SubSeq(@, k + 1, Len(@))]

\* 'end' waits for the buffered bytes, not for resume(): a paused socket with
\* nothing buffered still ends.
CanEmitEnd(s) == /\ s.fin
                 /\ s.inq = <<>>
                 /\ ~s.readEnded
                 /\ ~s.destroyed

\* 'end', then the automatic end() of a socket that allows no half-open state.
EmitEnd(s) == [s EXCEPT !.readEnded = TRUE, !.ended = TRUE]

\* The kernel takes one byte, and the remote party can read it.
CanFlush(s) == s.out # <<>> /\ ~s.destroyed
FlushByte(s) == [s EXCEPT !.got = Append(@, Head(s.out)), !.out = Tail(@)]

\* 'drain' follows the last byte, unless end() was called meanwhile.
DrainDue(s) == s.needDrain /\ s.out = <<>> /\ ~s.ended
Drained(s) == [s EXCEPT !.needDrain = FALSE]

\* Both sides are over: the socket destroys itself and emits 'close'.
CanEmitClose(s) == /\ s.readEnded
                   /\ s.ended
                   /\ s.out = <<>>
                   /\ ~s.destroyed

\* The remote party reads an end of stream: a FIN after the last byte, or the
\* FIN that closing the descriptor sends.
RemoteSeesEnd(s) == s.destroyed \/ (s.ended /\ s.out = <<>>)

Socket(Bytes) ==
    [inq : Seq(Bytes), fin : BOOLEAN, flowing : BOOLEAN, readEnded : BOOLEAN,
     out : Seq(Bytes), needDrain : BOOLEAN, ended : BOOLEAN,
     destroyed : BOOLEAN, error : BOOLEAN, got : Seq(Bytes)]
=============================================================================
