--------------------------- MODULE AsyncioSocket ---------------------------
(***************************************************************************)
(* The StreamReader and StreamWriter of an asyncio connection, as far as   *)
(* client/uptunnel/client.py uses them.  Library behaviour, modelled from  *)
(* that use.  Unlike a Node socket it may be half-open, close() still      *)
(* delivers what was written, and drain() waits for a low-water mark.      *)
(*                                                                         *)
(* A connection is a record:                                               *)
(*   inq      bytes that have arrived and were not read                    *)
(*   fin      the remote party has sent its FIN                            *)
(*   out      bytes written and not yet taken by the kernel                *)
(*   paused   the buffer passed its high-water mark: drain() waits         *)
(*   eof      write_eof() was called                                       *)
(*   closing  close() was called                                           *)
(*   lost     the connection failed: read() and drain() raise              *)
(*   got      the bytes the remote party can read, in order                *)
(***************************************************************************)
EXTENDS Naturals, Sequences

CONSTANT HighMark  \* bytes of out above which drain() waits

ASSUME AsyncioAssumption == HighMark \in Nat

\* asyncio's default for the low-water mark
LowMark == HighMark \div 4

NewConnection == [inq |-> <<>>, fin |-> FALSE, out |-> <<>>, paused |-> FALSE,
                  eof |-> FALSE, closing |-> FALSE, lost |-> FALSE,
                  got |-> <<>>]

\* StreamWriter.write: dropped once the connection is lost.
WriteTo(c, bytes) ==
    LET out == c.out \o bytes
    IN  IF c.lost THEN c
        ELSE [c EXCEPT !.out = out, !.paused = @ \/ Len(out) > HighMark]

WriteEof(c) == IF c.closing \/ c.lost THEN c ELSE [c EXCEPT !.eof = TRUE]

Close(c) == [c EXCEPT !.closing = TRUE, !.inq = <<>>]

\* The remote party resets the connection: what was not read or sent is lost.
Lose(c) == [c EXCEPT !.lost = TRUE, !.inq = <<>>, !.out = <<>>]

\* The kernel takes one byte, also of a connection that is closing.
CanTake(c) == c.out # <<>> /\ ~c.lost
TakeByte(c) == [c EXCEPT !.got = Append(@, Head(c.out)), !.out = Tail(@),
                         !.paused = @ /\ Len(c.out) - 1 > LowMark]

Connection(Bytes) ==
    [inq : Seq(Bytes), fin : BOOLEAN, out : Seq(Bytes), paused : BOOLEAN,
     eof : BOOLEAN, closing : BOOLEAN, lost : BOOLEAN, got : Seq(Bytes)]
=============================================================================
